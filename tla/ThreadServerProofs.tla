------------------------- MODULE ThreadServerProofs -------------------------
(***************************************************************************)
(* What the runs of ThreadServer check for two threads, proved for any     *)
(* number of them: a socket has one owner, a connection is handled once,   *)
(* the mode implements Service, and with a thread and the descriptors for  *)
(* every connection the server outlives its clients.                       *)
(***************************************************************************)
EXTENDS ThreadServer, SocketsProofs, FiniteSetTheorems

Owners == Threads \cup {Main}

(* The main thread has a connection exactly when it is not in accept().    *)
CurInv == up => (cur = None <=> pc = "accept")

(* A thread lives for a connection, no two for the same one, which it      *)
(* handles once; no thread outlives the process.                           *)
JobInv ==
  /\ \A t \in Threads : job[t] # None <=> tstate[t] # "free"
  /\ \A s, t \in Threads : job[s] = job[t] /\ job[s] # None => s = t
  /\ \A t \in Threads : tstate[t] \in {"read", "run", "reply"} => handled[job[t]] = 0
  /\ \A c \in Conns : handled[c] <= 1
  /\ ~up => \A t \in Threads : tstate[t] = "free"

(* What the main thread accepted has no thread before it is moved.         *)
OfferedInv ==
  \A c \in Conns : Offered(c) =>
    handled[c] = 0 /\ ~Queued(c) /\ \A t \in Threads : job[t] # c

HoldersInv ==
  \A c \in Conns :
    holders[c] = {t \in Threads : job[t] = c} \cup (IF Offered(c) THEN {Main} ELSE {})

(* A program has copies, and its own connection among them, while a thread *)
(* waits for it.  Nobody waits when the process is gone.                   *)
CopyInv ==
  \A c \in Conns :
    /\ copies[c] \subseteq Threads
    /\ up => \A t \in copies[c] : tstate[t] = "run" /\ t \in copies[job[t]]

IInv ==
  /\ TypeOK /\ BacklogOK /\ UnopenedOK /\ ListeningOK
  /\ CurInv /\ JobInv /\ OfferedInv /\ HoldersInv /\ CopyInv
-----------------------------------------------------------------------------
(* It holds at the start.                                                  *)
LEMMA Initially == Init => IInv
<1> SUFFICES ASSUME Init PROVE IInv
  OBVIOUS
<1>1. SocketsInv(Owners)
  BY SocketsInitially DEF Init
<1>2. TypeOK /\ BacklogOK /\ UnopenedOK /\ ListeningOK
  BY <1>1 DEF Init, SocketsInv, TypeOK, Owners
<1>3. CopyInv /\ CurInv /\ OfferedInv /\ JobInv
  BY ThreadAssumption DEF Init, SocketsInit, CopyInv, CurInv, OfferedInv, Offered, JobInv
<1>4. HoldersInv
  BY ThreadAssumption DEF Init, SocketsInit, HoldersInv, Offered
<1> QED
  BY <1>2, <1>3, <1>4 DEF IInv

(* A thread has a connection of its own.                                   *)
LEMMA JobOwned ==
  ASSUME IInv, NEW t \in Threads, tstate[t] # "free"
  PROVE  /\ job[t] \in Conns /\ t \in holders[job[t]] /\ up
         /\ link[job[t]] # "none" /\ ~Queued(job[t]) /\ ~Offered(job[t])
BY DEF IInv, TypeOK, JobInv, HoldersInv, OfferedInv, UnopenedOK, BacklogOK, Queued

(* The connection the main thread accepts is new to everybody.             *)
LEMMA AcceptKeeps ==
  ASSUME IInv, Accept PROVE IInv'
<1>1. SocketsInv(Owners) /\ AcceptBy(Main) /\ Main \in Owners
  BY DEF IInv, TypeOK, SocketsInv, Accept, Owners
<1>2. Head(backlog) \in Conns
  BY <1>1, AcceptKeepsSockets
<1> PICK h \in Conns : h = Head(backlog)
  BY <1>2
<1>3. /\ SocketsInv(Owners)' /\ h \notin Range(backlog')
      /\ Range(backlog') \subseteq Range(backlog)
      /\ holders[h] = {} /\ handled[h] = 0
  BY <1>1, AcceptKeepsSockets DEF SocketsInv, BacklogOK, Queued
<1>4. /\ up /\ pc = "accept" /\ cur = None /\ pc' = "shake" /\ cur' = h
      /\ holders' = [holders EXCEPT ![h] = {Main}]
      /\ UNCHANGED <<copies, handled, up, tstate, job>>
  BY DEF Accept, AcceptBy, IInv, CurInv
<1>5. TypeOK' /\ BacklogOK' /\ UnopenedOK' /\ ListeningOK'
  BY <1>3, <1>4 DEF IInv, TypeOK, SocketsInv, Owners
<1>6. \A t \in Threads : job[t] # h
  BY <1>3 DEF IInv, HoldersInv
<1>7. CurInv' /\ JobInv' /\ OfferedInv' /\ CopyInv'
  BY <1>3, <1>4, <1>6, ThreadAssumption DEF IInv, CurInv, JobInv, OfferedInv, Offered, Queued, CopyInv
<1>8. HoldersInv'
  <2> SUFFICES ASSUME NEW c \in Conns
               PROVE  holders'[c] = {t \in Threads : job'[t] = c}
                                      \cup (IF Offered(c)' THEN {Main} ELSE {})
    BY DEF HoldersInv
  <2>1. CASE c = h
    BY <1>4, <1>6, <2>1 DEF IInv, TypeOK, SocketsTypeOK, Offered
  <2>2. CASE c # h
    BY <1>4, <2>2, ThreadAssumption DEF IInv, TypeOK, SocketsTypeOK, HoldersInv, Offered
  <2> QED
    BY <2>1, <2>2
<1> QED
  BY <1>5, <1>7, <1>8 DEF IInv

(* std::move: the thread becomes the owner, the main thread is none.       *)
LEMMA SpawnKeeps ==
  ASSUME IInv, NEW t \in Threads, Spawn(t) PROVE IInv'
<1>1. /\ up /\ pc = "spawn" /\ pc' = "accept" /\ cur' = None /\ tstate[t] = "free"
      /\ tstate' = [tstate EXCEPT ![t] = "read"] /\ job' = [job EXCEPT ![t] = cur]
      /\ holders' = [holders EXCEPT ![cur] = {t}]
      /\ UNCHANGED <<link, prog, backlog, copies, handled, up, listening>>
  BY DEF Spawn
<1>2. cur \in Conns
  BY <1>1 DEF IInv, TypeOK, CurInv
<1> PICK k \in Conns : k = cur
  BY <1>2
<1>3. /\ Main \in holders[k] /\ handled[k] = 0 /\ ~Queued(k) /\ link[k] # "none"
      /\ \A s \in Threads : job[s] # k
  BY <1>1 DEF IInv, OfferedInv, HoldersInv, Offered, UnopenedOK
<1>4. job[t] = None
  BY <1>1 DEF IInv, JobInv
<1>5. TypeOK'
  BY <1>1 DEF IInv, TypeOK, SocketsTypeOK
<1>6. BacklogOK' /\ UnopenedOK' /\ ListeningOK'
  <2>1. Range(backlog) \subseteq Conns
    BY BacklogOfConns DEF IInv, TypeOK
  <2> QED
    BY <1>1, <1>3, <2>1 DEF IInv, TypeOK, SocketsTypeOK, BacklogOK, UnopenedOK, Queued,
                            ListeningOK, Programs
<1>7. CurInv' /\ OfferedInv' /\ CopyInv'
  BY <1>1, <1>4, ThreadAssumption DEF IInv, TypeOK, CurInv, OfferedInv, Offered, CopyInv
<1>8. JobInv'
  BY <1>1, <1>3, ThreadAssumption DEF IInv, TypeOK, JobInv
<1>9. HoldersInv'
  <2> SUFFICES ASSUME NEW c \in Conns
               PROVE  holders'[c] = {s \in Threads : job'[s] = c}
    BY <1>1, ThreadAssumption DEF HoldersInv, Offered
  <2>1. CASE c = k
    BY <1>1, <1>3, <2>1 DEF IInv, TypeOK, SocketsTypeOK
  <2>2. CASE c # k
    BY <1>1, <1>4, <2>2, ThreadAssumption DEF IInv, TypeOK, SocketsTypeOK, HoldersInv, Offered
  <2> QED
    BY <2>1, <2>2
<1> QED
  BY <1>5, <1>6, <1>7, <1>8, <1>9 DEF IInv

(* handle() returns once.                                                  *)
LEMMA ReturnsKeeps ==
  ASSUME IInv, NEW t \in Threads, tstate[t] \in {"read", "run", "reply"},
         tstate[t] = "run" => ~Running(t), Returns(t)
  PROVE  IInv'
<1>1. /\ tstate' = [tstate EXCEPT ![t] = "exit"]
      /\ handled' = [handled EXCEPT ![job[t]] = @ + 1]
      /\ UNCHANGED <<link, prog, backlog, holders, copies, up, listening, pc, cur, job>>
  BY DEF Returns
<1>2. /\ job[t] \in Conns /\ link[job[t]] # "none" /\ ~Queued(job[t]) /\ ~Offered(job[t])
      /\ handled[job[t]] = 0 /\ up
  BY JobOwned DEF IInv, JobInv
<1>3. TypeOK'
  BY <1>1, <1>2 DEF IInv, TypeOK, SocketsTypeOK
<1>4. BacklogOK' /\ UnopenedOK' /\ ListeningOK'
  <2>1. Range(backlog) \subseteq Conns
    BY BacklogOfConns DEF IInv, TypeOK
  <2> QED
    BY <1>1, <1>2, <2>1 DEF IInv, TypeOK, SocketsTypeOK, BacklogOK, UnopenedOK, Queued,
                            ListeningOK, Programs
<1>5. CurInv' /\ HoldersInv' /\ CopyInv'
  <2>1. tstate[t] = "run" => \A c \in Conns : t \notin copies[c]
    <3>1. SocketsTypeOK(Owners)
      BY DEF IInv, TypeOK, Owners
    <3> QED
      BY <3>1, ProgramsAre DEF Running
  <2> QED
    BY <1>1, <1>2, <2>1 DEF IInv, TypeOK, CurInv, HoldersInv, Offered, CopyInv
<1>6. OfferedInv'
  BY <1>1, <1>2 DEF IInv, TypeOK, SocketsTypeOK, OfferedInv, Offered, Queued
<1>7. JobInv'
  <2>1. \A s \in Threads : s # t /\ tstate[s] \in {"read", "run", "reply"} => handled'[job[s]] = 0
    BY <1>1, <1>2 DEF IInv, TypeOK, SocketsTypeOK, JobInv
  <2> QED
    BY <1>1, <1>2, <2>1 DEF IInv, TypeOK, SocketsTypeOK, JobInv
<1> QED
  BY <1>3, <1>4, <1>5, <1>6, <1>7 DEF IInv

(* The end of a thread closes its socket.                                  *)
LEMMA EndsKeeps ==
  ASSUME IInv, NEW t \in Threads, Ends(t) PROVE IInv'
<1>1. /\ tstate[t] = "exit" /\ tstate' = [tstate EXCEPT ![t] = "free"]
      /\ job' = [job EXCEPT ![t] = None]
      /\ holders' = [holders EXCEPT ![job[t]] = @ \ {t}]
      /\ UNCHANGED <<link, prog, backlog, copies, handled, up, listening, pc, cur>>
  BY DEF Ends
<1>2. job[t] \in Conns /\ link[job[t]] # "none" /\ ~Queued(job[t]) /\ ~Offered(job[t])
  BY <1>1, JobOwned
<1>3. TypeOK'
  BY <1>1, <1>2 DEF IInv, TypeOK, SocketsTypeOK
<1>4. BacklogOK' /\ UnopenedOK' /\ ListeningOK'
  <2>1. Range(backlog) \subseteq Conns
    BY BacklogOfConns DEF IInv, TypeOK
  <2> QED
    BY <1>1, <1>2, <2>1 DEF IInv, TypeOK, SocketsTypeOK, BacklogOK, UnopenedOK, Queued,
                            ListeningOK, Programs
<1>5. CurInv' /\ OfferedInv' /\ CopyInv'
  BY <1>1, ThreadAssumption DEF IInv, TypeOK, CurInv, OfferedInv, Offered, Queued, CopyInv
<1>6. JobInv'
  BY <1>1 DEF IInv, TypeOK, JobInv
<1>7. HoldersInv'
  <2> SUFFICES ASSUME NEW c \in Conns
               PROVE  holders'[c] = {s \in Threads : job'[s] = c}
                                      \cup (IF Offered(c) THEN {Main} ELSE {})
    BY <1>1 DEF HoldersInv, Offered
  <2>1. {s \in Threads : job'[s] = c} = {s \in Threads : job[s] = c} \ {t}
    BY <1>1, ThreadAssumption DEF IInv, TypeOK
  <2>2. CASE c = job[t]
    BY <1>1, <1>2, <2>1, <2>2 DEF IInv, TypeOK, SocketsTypeOK, HoldersInv
  <2>3. CASE c # job[t]
    BY <1>1, <2>1, <2>3 DEF IInv, TypeOK, SocketsTypeOK, HoldersInv
  <2> QED
    BY <2>2, <2>3
<1> QED
  BY <1>3, <1>4, <1>5, <1>6, <1>7 DEF IInv

(* The end of the process takes every connection from every thread.        *)
LEMMA AllDieKeeps ==
  ASSUME IInv, AllDie PROVE IInv'
<1>1. SocketsInv(Owners)'
  BY DeathReleases DEF AllDie, IInv, TypeOK, SocketsInv, Owners
<1>2. TypeOK' /\ BacklogOK' /\ UnopenedOK' /\ ListeningOK'
  BY <1>1 DEF AllDie, IInv, TypeOK, SocketsInv, Owners
<1>3. CurInv' /\ JobInv' /\ OfferedInv' /\ CopyInv'
  BY DEF AllDie, ProcessDies, IInv, CurInv, JobInv, OfferedInv, Offered, CopyInv
<1>4. HoldersInv'
  BY ThreadAssumption DEF AllDie, ProcessDies, HoldersInv, Offered
<1> QED
  BY <1>2, <1>3, <1>4 DEF IInv

(* A client's step leaves alone what is in the server's hands.             *)
LEMMA ClientKeeps ==
  ASSUME IInv, NEW c \in Conns, Client(c) PROVE IInv'
<1>1. SocketsInv(Owners)' /\ UNCHANGED procVars
  BY ClientsKeepSockets DEF IInv, TypeOK, SocketsInv, Owners, Client
<1>2. TypeOK' /\ BacklogOK' /\ UnopenedOK' /\ ListeningOK'
  BY <1>1 DEF IInv, TypeOK, SocketsInv, Owners, procVars
<1>3. UNCHANGED <<holders, copies, up>>
  BY DEF Client, ClientStep, Connect, Shake, Send, StopsReading, Resumes, Shutdown, Reset, Depart
<1>4. \A d \in Conns : \/ handled'[d] = handled[d]
                       \/ handled'[d] = 0 /\ holders[d] = {}
  BY DEF Client, ClientStep, Connect, Shake, Send, StopsReading, Resumes, Shutdown, Reset, Depart, Closed,
         IInv, TypeOK, SocketsTypeOK
<1>5. CurInv' /\ HoldersInv' /\ CopyInv'
  BY <1>1, <1>3 DEF IInv, CurInv, HoldersInv, Offered, CopyInv, procVars
<1>6. JobInv'
  <2>1. \A t \in Threads : tstate[t] \in {"read", "run", "reply"} =>
          job[t] \in Conns /\ handled'[job[t]] = 0
    BY <1>4, JobOwned DEF IInv, JobInv
  <2> QED
    BY <1>1, <1>3, <1>4, <2>1 DEF IInv, JobInv, procVars
<1>7. OfferedInv'
  <2> SUFFICES ASSUME NEW d \in Conns, Offered(d)
               PROVE  handled'[d] = 0 /\ ~Queued(d)'
    BY <1>1, <1>3 DEF IInv, OfferedInv, Offered, procVars
  <2>1. handled'[d] = 0
    BY <1>4 DEF IInv, OfferedInv
  <2>2. CASE Connect(c)
    <3>1. d # c
      BY <2>2 DEF Connect, IInv, UnopenedOK, HoldersInv
    <3>2. c \notin Range(backlog)
      BY <2>2 DEF Connect, IInv, BacklogOK
    <3>3. Range(backlog') = Range(backlog) \cup {c}
      BY <2>2, <3>2, NewestJoins DEF Connect, IInv, TypeOK, SocketsTypeOK, BacklogOK
    <3> QED
      BY <2>1, <3>1, <3>3 DEF IInv, OfferedInv, Queued
  <2>3. CASE ~Connect(c)
    <3>1. backlog' = backlog
      BY <2>3 DEF Client, ClientStep, Shake, Send, StopsReading, Resumes, Shutdown, Reset, Depart
    <3> QED
      BY <2>1, <3>1 DEF IInv, OfferedInv, Queued
  <2> QED
    BY <2>2, <2>3
<1> QED
  BY <1>2, <1>5, <1>6, <1>7 DEF IInv

(* A step that changes neither the connections nor who lives.              *)
LEMMA QuietKeeps ==
  ASSUME IInv, TypeOK', UNCHANGED <<sockVars, cur, job>>,
         pc' = "accept" <=> pc = "accept",
         \A t \in Threads : /\ tstate'[t] = "free" <=> tstate[t] = "free"
                            /\ tstate'[t] \in {"read", "run", "reply"} =>
                                 tstate[t] \in {"read", "run", "reply"}
                            /\ tstate[t] = "run" /\ Running(t) => tstate'[t] = "run"
  PROVE  IInv'
<1>1. \A c \in Conns : \A t \in copies[c] : Running(t)
  BY ProgramsAre DEF IInv, TypeOK, Running
<1>2. CopyInv'
  BY <1>1 DEF IInv, CopyInv, sockVars
<1>3. ListeningOK'
  BY DEF IInv, ListeningOK, Programs, sockVars
<1> QED
  BY <1>2, <1>3 DEF IInv, sockVars, BacklogOK, UnopenedOK, CurInv, JobInv, OfferedInv,
                    Offered, Queued, HoldersInv

(* A program starts with every connection of the process.                  *)
LEMMA ForksKeeps ==
  ASSUME IInv, NEW t \in Threads, Forks(t)
  PROVE  IInv' /\ Releases
<1>1. /\ tstate[t] = "read" /\ tstate' = [tstate EXCEPT ![t] = "run"]
      /\ StartProgram(t, Open) /\ UNCHANGED <<pc, cur, job>>
      /\ UNCHANGED <<link, prog, backlog, holders, handled, up, listening>>
      /\ copies' = [c \in Conns |-> IF c \in Open THEN copies[c] \cup {t} ELSE copies[c]]
  BY DEF Forks, StartProgram
<1>2. /\ job[t] \in Conns /\ job[t] \in Open /\ up /\ listening /\ t \in Owners
  BY <1>1, JobOwned DEF Open, IInv, ListeningOK, Owners
<1>3. SocketsInv(Owners)' /\ Releases
  BY <1>1, <1>2, StartReleases DEF IInv, TypeOK, SocketsInv, Open, Owners
<1>4. TypeOK' /\ BacklogOK' /\ UnopenedOK' /\ ListeningOK'
  BY <1>1, <1>3 DEF IInv, TypeOK, SocketsInv, Owners
<1>5. CurInv' /\ JobInv' /\ OfferedInv' /\ HoldersInv'
  BY <1>1 DEF IInv, TypeOK, CurInv, JobInv, OfferedInv, Offered, Queued, HoldersInv
<1>6. CopyInv'
  <2> SUFFICES ASSUME NEW c \in Conns
               PROVE  /\ copies'[c] \subseteq Threads
                      /\ \A u \in copies'[c] : tstate'[u] = "run" /\ u \in copies'[job[u]]
    BY <1>1 DEF CopyInv
  <2>1. /\ copies'[c] \subseteq copies[c] \cup {t} /\ copies[c] \subseteq Threads
        /\ \A u \in copies[c] : tstate[u] = "run" /\ u \in copies[job[u]] /\ job[u] \in Conns
    BY <1>1, <1>2, JobOwned DEF IInv, CopyInv
  <2>2. tstate'[t] = "run" /\ t \in copies'[job[t]]
    BY <1>1, <1>2 DEF IInv, TypeOK
  <2>3. ASSUME NEW u \in copies[c]
        PROVE  tstate'[u] = "run" /\ u \in copies'[job[u]]
    BY <1>1, <2>1 DEF IInv, TypeOK
  <2> QED
    BY <2>1, <2>2, <2>3
<1> QED
  BY <1>3, <1>4, <1>5, <1>6 DEF IInv

(* And gives them back, and perhaps the listening socket, when it ends.    *)
LEMMA ProgramEndKeeps ==
  ASSUME IInv, NEW t \in Threads, ProgramEnds(t)
  PROVE  IInv' /\ Releases
<1>1. /\ UNCHANGED <<link, prog, holders, handled, up, pc, cur, tstate, job>>
      /\ copies' = [c \in Conns |-> copies[c] \ {t}]
      /\ listening' = (up \/ Programs \ {t} # {})
      /\ backlog' = IF listening' THEN backlog ELSE <<>>
      /\ Running(t) /\ t \in Owners
  BY DEF ProgramEnds, StopProgram, Listens, procVars, Owners
<1>2. listening' \in {listening, FALSE}
  BY <1>1 DEF IInv, ListeningOK
<1>3. SocketsInv(Owners)' /\ Releases
  BY <1>1, <1>2, StopReleases DEF IInv, TypeOK, SocketsInv, Owners
<1>4. TypeOK' /\ BacklogOK' /\ UnopenedOK' /\ ListeningOK'
  BY <1>1, <1>3 DEF IInv, TypeOK, SocketsInv, Owners
<1>5. CurInv' /\ JobInv' /\ HoldersInv'
  BY <1>1 DEF IInv, CurInv, JobInv, HoldersInv, Offered
<1>6. OfferedInv'
  BY <1>1 DEF IInv, OfferedInv, Offered, Queued, Range
<1>7. CopyInv'
  <2> SUFFICES ASSUME NEW c \in Conns
               PROVE  /\ copies'[c] \subseteq Threads
                      /\ up => \A u \in copies'[c] : tstate[u] = "run" /\ u \in copies'[job[u]]
    BY <1>1 DEF CopyInv
  <2>1. /\ copies'[c] = copies[c] \ {t} /\ copies[c] \subseteq Threads
        /\ up => \A u \in copies[c] : tstate[u] = "run" /\ u \in copies[job[u]] /\ job[u] \in Conns
    BY <1>1, JobOwned DEF IInv, CopyInv
  <2>2. ASSUME up, NEW u \in copies'[c]
        PROVE  tstate[u] = "run" /\ u \in copies'[job[u]]
    BY <1>1, <2>1, <2>2
  <2> QED
    BY <2>1, <2>2
<1> QED
  BY <1>3, <1>4, <1>5, <1>6, <1>7 DEF IInv

(* Every step keeps IInv.                                                  *)
LEMMA Inductive == IInv /\ [Next]_vars => IInv'
<1> SUFFICES ASSUME IInv, [Next]_vars PROVE IInv'
  OBVIOUS
<1>1. CASE MainThread
  <2>1. CASE Accept
    BY <2>1, AcceptKeeps
  <2>2. CASE AcceptFails \/ AcceptBreaks \/ SpawnFails
    BY <2>2, AllDieKeeps DEF AcceptFails, AcceptBreaks, SpawnFails
  <2>3. CASE AcceptReturns
    <3>1. TypeOK'
      BY <2>3 DEF AcceptReturns, IInv, TypeOK, SocketsTypeOK, sockVars
    <3> QED
      BY <2>3, <3>1, QuietKeeps DEF AcceptReturns
  <2>4. CASE \E t \in Threads : Spawn(t)
    BY <2>4, SpawnKeeps
  <2> QED
    BY <1>1, <2>1, <2>2, <2>3, <2>4 DEF MainThread
<1>2. ASSUME NEW t \in Threads, Thread(t) PROVE IInv'
  <2>1. CASE Reads(t)
    <3>1. TypeOK'
      BY <2>1 DEF Reads, IInv, TypeOK, SocketsTypeOK, sockVars
    <3> QED
      BY <2>1, <3>1, QuietKeeps DEF Reads, IInv, TypeOK
  <2>2. CASE ReadsNone(t) \/ Replies(t)
    BY <2>2, ReturnsKeeps DEF ReadsNone, Replies
  <2>3. CASE Throws(t) \/ \E u \in Threads : Race(t, u)
    BY <2>3, AllDieKeeps DEF Throws, Race
  <2>4. CASE Ends(t)
    BY <2>4, EndsKeeps
  <2>5. CASE Forks(t)
    BY <2>5, ForksKeeps
  <2>6. CASE HasWaited(t)
    <3>1. CASE Returns(t)
      BY <2>6, <3>1, ReturnsKeeps DEF HasWaited
    <3>2. CASE ~Returns(t)
      <4>1. /\ tstate[t] = "run" /\ ~Running(t)
            /\ tstate' = [tstate EXCEPT ![t] = "reply"] /\ UNCHANGED <<sockVars, pc, cur, job>>
        BY <2>6, <3>2 DEF HasWaited
      <4>2. TypeOK'
        BY <4>1 DEF IInv, TypeOK, SocketsTypeOK, sockVars
      <4> QED
        BY <4>1, <4>2, QuietKeeps DEF IInv, TypeOK
    <3> QED
      BY <3>1, <3>2
  <2>7. CASE ForkFails(t)
    BY <2>7, ReturnsKeeps, AllDieKeeps DEF ForkFails
  <2> QED
    BY <1>2, <2>1, <2>2, <2>3, <2>4, <2>5, <2>6, <2>7 DEF Thread
<1>3. CASE Interrupt
  BY <1>3, AllDieKeeps DEF Interrupt
<1>4. ASSUME NEW c \in Conns, Client(c) PROVE IInv'
  BY <1>4, ClientKeeps
<1>5. ASSUME NEW t \in Threads, ProgramEnds(t) PROVE IInv'
  BY <1>5, ProgramEndKeeps
<1>6. CASE UNCHANGED vars
  <2>1. TypeOK'
    BY <1>6 DEF vars, sockVars, IInv, TypeOK, SocketsTypeOK
  <2> QED
    BY <1>6, <2>1, QuietKeeps DEF vars
<1> QED
  BY <1>1, <1>2, <1>3, <1>4, <1>6, <1>5 DEF Next

(* What the connections and the threads are throughout.                    *)
THEOREM Invariance == Spec => []IInv
<1>1. Init => IInv
  BY Initially
<1>2. IInv /\ [Next]_vars => IInv'
  BY Inductive
<1> QED
  BY <1>1, <1>2, PTL DEF Spec

(* Type correctness, for any number of connections and threads.            *)
THEOREM TypeCorrect == Spec => []TypeOK
<1>1. IInv => TypeOK
  BY DEF IInv
<1> QED
  BY <1>1, Invariance, PTL

(* std::move leaves a socket with one owner, always.                       *)
THEOREM SocketOwned == Spec => []SoleOwner
<1>1. IInv => SoleOwner
  <2> SUFFICES ASSUME IInv, NEW c \in Conns
               PROVE  /\ holders[c] = {t \in Threads : tstate[t] # "free" /\ job[t] = c}
                                        \cup (IF Offered(c) THEN {Main} ELSE {})
                      /\ \A o1, o2 \in holders[c] : o1 = o2
    BY DEF SoleOwner, IInv, CopyInv
  <2>1. c # None
    BY ThreadAssumption
  <2>2. \A t \in Threads : job[t] = c => tstate[t] # "free"
    BY <2>1 DEF IInv, JobInv
  <2>3. \A s, t \in Threads : job[s] = c /\ job[t] = c => s = t
    BY <2>1 DEF IInv, JobInv
  <2>4. Offered(c) => \A t \in Threads : job[t] # c
    BY DEF IInv, OfferedInv
  <2> QED
    BY <2>2, <2>3, <2>4 DEF IInv, HoldersInv
<1> QED
  BY <1>1, Invariance, PTL

(* No connection is handled twice, or by two threads.                      *)
THEOREM HandledOnce == Spec => []ServedOnce
<1>1. IInv => ServedOnce
  <2> SUFFICES ASSUME IInv, NEW c \in Conns
               PROVE  /\ handled[c] <= 1
                      /\ \A t \in Threads : Handling(t, c) => handled[c] = 0 /\ ~Queued(c)
                      /\ Offered(c) \/ Queued(c) => handled[c] = 0
                      /\ ~(Offered(c) /\ Queued(c))
    BY DEF ServedOnce
  <2>1. \A t \in Threads : Handling(t, c) => handled[c] = 0 /\ ~Queued(c)
    BY JobOwned DEF Handling, IInv, JobInv
  <2>2. Queued(c) => handled[c] = 0
    BY DEF IInv, BacklogOK, Queued
  <2> QED
    BY <2>1, <2>2 DEF IInv, JobInv, OfferedInv
<1> QED
  BY <1>1, Invariance, PTL
-----------------------------------------------------------------------------
(* Every step is one that Service allows, or one that it cannot see.       *)

(* The end of the process closes all that no program has a copy of.        *)
LEMMA AllDieRefines ==
  ASSUME IInv, AllDie PROVE Svc!Next
<1>1. SocketsInv(Owners)
  BY DEF IInv, TypeOK, SocketsInv, Owners
<1> QED
  BY <1>1, DeathReleases, ReleaseRefines DEF AllDie, ProcessDies

(* So does the last descriptor that is closed.                             *)
LEMMA PassRefines ==
  ASSUME IInv, up, NEW c \in Conns, holders[c] # {},
         \A d \in Conns \ {c} : holders'[d] = holders[d],
         UNCHANGED <<link, backlog, copies, handled, up, listening>>
  PROVE  Svc!Next
<1>1. SocketsInv(Owners)
  BY DEF IInv, TypeOK, SocketsInv, Owners
<1>2. Releases
  BY DEF IInv, ListeningOK, Releases, Opened
<1> QED
  BY <1>1, <1>2, ReleaseRefines

(* A step of the main thread is one of Service, or changes nothing in it.  *)
LEMMA MainThreadRefines ==
  ASSUME IInv, MainThread PROVE [Svc!Next]_Svc!vars
<1>1. SocketsInv(Owners) /\ Main \in Owners
  BY DEF IInv, TypeOK, SocketsInv, Owners
<1>2. CASE Accept
  BY <1>1, <1>2, AcceptRefines DEF Accept
<1>3. CASE AcceptFails \/ AcceptBreaks \/ SpawnFails
  BY <1>3, AllDieRefines DEF AcceptFails, AcceptBreaks, SpawnFails
<1>4. CASE AcceptReturns
  BY <1>4, HiddenRefines DEF AcceptReturns, sockVars
<1>5. ASSUME NEW t \in Threads, Spawn(t) PROVE [Svc!Next]_Svc!vars
  <2>1. cur \in Conns /\ Main \in holders[cur] /\ up
    BY <1>5 DEF Spawn, IInv, TypeOK, CurInv, HoldersInv, Offered
  <2>2. \A c \in Conns \ {cur} : holders'[c] = holders[c]
    BY <1>5 DEF Spawn, IInv, TypeOK, SocketsTypeOK
  <2> QED
    BY <1>5, <2>1, <2>2, PassRefines DEF Spawn
<1> QED
  BY <1>2, <1>3, <1>4, <1>5 DEF MainThread

(* So is a step of a thread.                                               *)
LEMMA ThreadRefines ==
  ASSUME IInv, NEW t \in Threads, Thread(t) PROVE [Svc!Next]_Svc!vars
<1>1. SocketsInv(Owners)
  BY DEF IInv, TypeOK, SocketsInv, Owners
<1>2. tstate[t] # "free"
  BY DEF Thread, Reads, ReadsNone, Replies, Throws, Ends, Forks, HasWaited, ForkFails, Race
<1>3. job[t] \in Conns /\ holders[job[t]] # {} /\ up
  BY <1>2, JobOwned
<1>4. CASE Reads(t)
  BY <1>4, HiddenRefines DEF Reads, sockVars
<1>5. ASSUME Returns(t), tstate[t] \in {"read", "run", "reply"} PROVE Svc!Next
  <2>1. handled[job[t]] = 0
    BY <1>5 DEF IInv, JobInv
  <2> QED
    BY <1>1, <1>3, <1>5, <2>1, HandleRefines DEF Returns
<1>6. CASE Throws(t) \/ ForkFails(t) \/ \E u \in Threads : Race(t, u)
  BY <1>5, <1>6, AllDieRefines DEF Throws, ForkFails, Race
<1>7. CASE ReadsNone(t) \/ Replies(t)
  BY <1>5, <1>7 DEF ReadsNone, Replies
<1>8. CASE HasWaited(t)
  BY <1>5, <1>8, HiddenRefines DEF HasWaited, sockVars
<1>9. CASE Forks(t)
  BY <1>1, <1>9, ForksKeeps, ReleaseRefines DEF Forks, StartProgram
<1>10. CASE Ends(t)
  <2>1. \A c \in Conns \ {job[t]} : holders'[c] = holders[c]
    BY <1>10 DEF Ends, IInv, TypeOK, SocketsTypeOK
  <2> QED
    BY <1>3, <1>10, <2>1, PassRefines DEF Ends
<1> QED
  BY <1>4, <1>6, <1>10, <1>7, <1>8, <1>9 DEF Thread

(* So is every step.                                                       *)
LEMMA StepRefines == IInv /\ [Next]_vars => [Svc!Next]_Svc!vars
<1> SUFFICES ASSUME IInv, [Next]_vars PROVE [Svc!Next]_Svc!vars
  OBVIOUS
<1>1. SocketsInv(Owners)
  BY DEF IInv, TypeOK, SocketsInv, Owners
<1>2. CASE MainThread
  BY <1>2, MainThreadRefines
<1>3. ASSUME NEW t \in Threads, Thread(t) PROVE [Svc!Next]_Svc!vars
  BY <1>3, ThreadRefines
<1>4. CASE Interrupt
  BY <1>4, AllDieRefines DEF Interrupt
<1>5. ASSUME NEW c \in Conns, Client(c) PROVE [Svc!Next]_Svc!vars
  BY <1>1, <1>5, ClientRefines DEF Client
<1>6. CASE UNCHANGED vars
  BY <1>6, HiddenRefines DEF vars, sockVars
<1>7. ASSUME NEW t \in Threads, ProgramEnds(t) PROVE [Svc!Next]_Svc!vars
  BY <1>1, <1>7, ProgramEndKeeps, ReleaseRefines DEF ProgramEnds, StopProgram
<1> QED
  BY <1>2, <1>3, <1>4, <1>5, <1>6, <1>7 DEF Next

(* Thread mode implements Service, with any number of clients and threads, *)
(* and also when the limits or an exception end the process.               *)
THEOREM ThreadImplements == Spec => ImplementsService
<1>1. Init => Svc!Init
  BY InitRefines DEF Init
<1>2. IInv /\ [Next]_vars => [Svc!Next]_Svc!vars
  BY StepRefines
<1> QED
  BY <1>1, <1>2, Invariance, PTL DEF Spec, ImplementsService, Svc!Spec
-----------------------------------------------------------------------------
(* The limits.  What OutlivesSlowClients assumes of clients and limits.    *)
Gentle ==
  /\ Faulty = {} /\ ~MayStop /\ ~Modules /\ ~ForkMayFail
  /\ Https => Prompt = Conns

Enough ==
  /\ Cardinality(Threads) >= Cardinality(Conns)
  /\ MaxFds >= (Cardinality(Conns) - 1) * (1 + HandleFds) + FdsNeeded

(* Threads of a kind have different connections: no more of them than      *)
(* there are connections that they can have.                               *)
LEMMA JobsCounted ==
  ASSUME IInv, NEW S \in SUBSET Threads, \A t \in S : tstate[t] # "free",
         NEW k \in Conns, \A t \in S : job[t] # k
  PROVE  Cardinality(S) \in Nat /\ Cardinality(S) <= Cardinality(Conns) - 1
<1> DEFINE T == Conns \ {k}
           f == [t \in S |-> job[t]]
<1>1. IsFiniteSet(T) /\ Cardinality(T) = Cardinality(Conns) - 1
  BY ThreadAssumption, FS_RemoveElement
<1>2. f \in [S -> T]
  BY JobOwned
<1>3. \A s, t \in S : f[s] = f[t] => s = t
  BY <1>2, ThreadAssumption DEF IInv, JobInv
<1>4. f \in Injection(S, T)
  BY <1>2, <1>3 DEF Injection, IsInjective
<1>5. IsFiniteSet(S) /\ Cardinality(S) <= Cardinality(T)
  BY <1>1, <1>4, FS_Injection
<1> QED
  BY <1>1, <1>5, FS_CardinalityType

(* With room for every connection the main thread does not fail: a         *)
(* connection in the backlog, or in its hands, is one the threads have not.*)
LEMMA AcceptSucceeds ==
  ASSUME IInv, Enough PROVE ~AcceptFails
<1> SUFFICES ASSUME AcceptFails PROVE FALSE
  OBVIOUS
<1> DEFINE n == Cardinality(Conns) - 1
           R == {t \in Threads : tstate[t] \in {"run", "reply"}}
<1>1. backlog # <<>> /\ ~FdsLeft(FilesAtMost)
  BY DEF AcceptFails
<1>2. Head(backlog) \in Conns /\ Head(backlog) \in Range(backlog)
  BY <1>1, OldestLeaves DEF IInv, TypeOK, SocketsTypeOK, BacklogOK
<1> PICK k \in Conns : k \in Range(backlog)
  BY <1>2
<1>3. holders[k] = {}
  BY DEF IInv, BacklogOK
<1>4. Cardinality(R) \in Nat /\ Cardinality(R) <= n
  <2>1. \A t \in R : tstate[t] # "free" /\ job[t] # k
    BY JobOwned DEF Queued
  <2> QED
    BY <2>1, JobsCounted
<1>5. Cardinality(Open) \in Nat /\ Cardinality(Open) <= n
  <2>1. IsFiniteSet(Conns \ {k}) /\ Cardinality(Conns \ {k}) = n
    BY ThreadAssumption, FS_RemoveElement
  <2>2. Open \in SUBSET (Conns \ {k})
    BY <1>3 DEF Open
  <2> QED
    BY <2>1, <2>2, FS_Subset, FS_CardinalityType
<1>6. HandleFds * Cardinality(R) <= HandleFds * n
  <2>1. \A h, a, b \in Nat : a <= b => h * a <= h * b
    OBVIOUS
  <2>2. n \in Nat /\ HandleFds \in Nat
    BY <1>4, ThreadAssumption, FS_CardinalityType
  <2> QED
    BY <1>4, <2>1, <2>2
<1>7. MaxFds >= n * (1 + HandleFds) + FdsNeeded /\ n * (1 + HandleFds) = n + HandleFds * n
  <2>1. n \in Int /\ HandleFds \in Nat
    BY ThreadAssumption, FS_CardinalityType
  <2> QED
    BY <2>1 DEF Enough
<1>8. /\ HandleFds * Cardinality(R) \in Nat /\ HandleFds * n \in Int /\ n \in Int
      /\ FdsNeeded \in Nat /\ MaxFds \in Nat
  BY <1>4, ThreadAssumption, FS_CardinalityType DEF FdsNeeded
<1>9. Cardinality(Open) + FilesAtMost + FdsNeeded > MaxFds
  BY <1>1, <1>5, <1>8 DEF FdsLeft, FilesAtMost
<1> QED
  BY <1>5, <1>6, <1>7, <1>8, <1>9 DEF FilesAtMost

(* With what is in the main thread's hands, a thread is free.              *)
LEMMA SpawnSucceeds ==
  ASSUME IInv, Enough PROVE ~SpawnFails
<1> SUFFICES ASSUME SpawnFails PROVE FALSE
  OBVIOUS
<1>1. up /\ pc = "spawn" /\ \A t \in Threads : tstate[t] # "free"
  BY DEF SpawnFails
<1>2. cur \in Conns
  BY <1>1 DEF IInv, TypeOK, CurInv
<1> PICK k \in Conns : k = cur
  BY <1>2
<1>3. \A t \in Threads : job[t] # k
  BY <1>1 DEF IInv, OfferedInv, Offered
<1>4. Cardinality(Threads) <= Cardinality(Conns) - 1
  BY <1>1, <1>3, JobsCounted
<1> QED
  BY <1>4, ThreadAssumption, FS_CardinalityType DEF Enough

(* No handle() throws for a client that keeps to its manners.              *)
LEMMA ThreadSucceeds ==
  ASSUME IInv, MannersInv, Gentle, NEW t \in Threads PROVE ~Throws(t)
<1> SUFFICES ASSUME Throws(t) PROVE FALSE
  OBVIOUS
<1>1. job[t] \in Conns
  BY JobOwned DEF Throws
<1> QED
  BY <1>1 DEF Throws, ReadFails, WriteFails, MannersInv, Gentle

(* What the server needs to go on.                                         *)
UpInv == MannersInv /\ (Gentle /\ Enough => up)

(* So nothing but a signal ends the process, and none comes.               *)
LEMMA UpInductive == IInv /\ UpInv /\ [Next]_vars => UpInv'
<1> SUFFICES ASSUME IInv, UpInv, [Next]_vars PROVE UpInv'
  OBVIOUS
<1>1. Gentle' = Gentle /\ Enough' = Enough
  BY DEF Gentle, Enough, FdsNeeded
<1>2. ASSUME NEW c \in Conns, Client(c) PROVE UpInv'
  <2>1. MannersInv'
    BY <1>2, ClientsKeepManners DEF Client, IInv, TypeOK, UpInv
  <2>2. up' = up
    BY <1>2 DEF Client, ClientStep, Connect, Shake, Send, StopsReading, Resumes, Shutdown, Reset, Depart
  <2> QED
    BY <1>1, <2>1, <2>2 DEF UpInv
<1>3. ASSUME UNCHANGED <<link, prog>>, Gentle /\ Enough => up' = up PROVE UpInv'
  BY <1>1, <1>3 DEF UpInv, MannersInv
<1>4. CASE AcceptFails \/ AcceptBreaks \/ SpawnFails
  <2>1. Gentle => ~AcceptBreaks
    <3>1. AcceptBreaks => cur \in Conns
      BY DEF AcceptBreaks, IInv, TypeOK, CurInv
    <3> QED
      BY <3>1 DEF AcceptBreaks, HandshakeBreaks, UpInv, MannersInv, Gentle
  <2>2. UNCHANGED <<link, prog>>
    BY <1>4 DEF AcceptFails, AcceptBreaks, SpawnFails, AllDie, ProcessDies
  <2> QED
    BY <1>3, <1>4, <2>1, <2>2, AcceptSucceeds, SpawnSucceeds
<1>5. ASSUME NEW t \in Threads, Throws(t) PROVE UpInv'
  BY <1>3, <1>5, ThreadSucceeds DEF UpInv, Throws, AllDie, ProcessDies
<1>6. CASE Interrupt
  BY <1>3, <1>6 DEF Interrupt, AllDie, ProcessDies, Gentle
<1>7. CASE Accept \/ AcceptReturns \/ UNCHANGED vars
  BY <1>3, <1>7 DEF Accept, AcceptBy, AcceptReturns, vars, sockVars
<1>8. ASSUME NEW t \in Threads, Spawn(t) \/ Reads(t) \/ ReadsNone(t) \/ Replies(t) \/ Ends(t)
      PROVE  UpInv'
  BY <1>3, <1>8 DEF Spawn, Reads, ReadsNone, Replies, Returns, Ends, sockVars
<1>9. ASSUME NEW t \in Threads, Forks(t) \/ HasWaited(t) \/ ProgramEnds(t)
      PROVE  UpInv'
  BY <1>3, <1>9 DEF Forks, HasWaited, ProgramEnds, StartProgram, StopProgram, Returns, sockVars
<1>10. ASSUME NEW t \in Threads, ForkFails(t) \/ \E u \in Threads : Race(t, u)
       PROVE  UpInv'
  BY <1>3, <1>10 DEF ForkFails, Race, AllDie, ProcessDies, Returns, Gentle
<1> QED
  BY <1>2, <1>4, <1>5, <1>6, <1>7, <1>8, <1>9, <1>10 DEF Next, MainThread, Thread

(* A server with a thread and the descriptors for each of its clients is   *)
(* never ended by them, as long as they keep to their manners.             *)
THEOREM Outlives == Spec => []OutlivesSlowClients
<1>1. Init => UpInv
  BY DEF Init, SocketsInit, UpInv, MannersInv
<1>2. IInv /\ UpInv /\ [Next]_vars => UpInv'
  BY UpInductive
<1>3. UpInv => OutlivesSlowClients
  BY DEF UpInv, OutlivesSlowClients, Gentle, Enough
<1> QED
  BY <1>1, <1>2, <1>3, Invariance, PTL DEF Spec
=============================================================================
