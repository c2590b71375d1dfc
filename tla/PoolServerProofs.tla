-------------------------- MODULE PoolServerProofs --------------------------
(***************************************************************************)
(* What the run of PoolServer checks for three workers, proved for any     *)
(* number of them: the semaphore lets one worker in, a connection has one  *)
(* worker and is handled once, and the pool implements Service.            *)
(***************************************************************************)
EXTENDS PoolServer, SocketsProofs

(* Where a worker has a connection in its local variable sock.             *)
InHands == {"shake", "read", "run", "reply", "post", "close"}

(* A worker has a connection between accept() and the end of the           *)
(* iteration, no two the same one, and handles it once; it alone has the   *)
(* connection's descriptor.                                                *)
JobInv ==
  /\ \A w \in Workers : job[w] # None <=> wstate[w] \in InHands
  /\ \A v, w \in Workers : job[v] = job[w] /\ job[v] # None => v = w
  /\ \A w \in Workers : wstate[w] \in {"shake", "read", "run", "reply"} => handled[job[w]] = 0
  /\ \A c \in Conns : handled[c] <= 1

HoldersInv == \A c \in Conns : holders[c] = {w \in Workers : job[w] = c}

(* A program has copies, and its own connection among them, while a worker *)
(* waits for it.                                                           *)
CopyInv ==
  up => \A c \in Conns : \A w \in copies[c] : wstate[w] = "run" /\ w \in copies[job[w]]

(* The semaphore.  The workers of a process that ended are dead: what the  *)
(* semaphore's value is then lets nobody in.                               *)
SemaInv ==
  /\ OneInside
  /\ ~up => \A w \in Workers : wstate[w] = "dead"

IInv ==
  /\ TypeOK /\ BacklogOK /\ UnopenedOK /\ ListeningOK
  /\ JobInv /\ HoldersInv /\ CopyInv /\ SemaInv
-----------------------------------------------------------------------------
(* It holds at the start.                                                  *)
LEMMA Initially == Init => IInv
<1> SUFFICES ASSUME Init PROVE IInv
  OBVIOUS
<1>1. SocketsInv(Workers)
  BY SocketsInitially DEF Init
<1>2. TypeOK /\ BacklogOK /\ UnopenedOK /\ ListeningOK
  BY <1>1 DEF Init, SemaInit, SocketsInv, TypeOK, WStates
<1>3. JobInv
  BY DEF Init, SocketsInit, JobInv, InHands
<1>4. HoldersInv /\ CopyInv
  BY PoolAssumption DEF Init, SocketsInit, HoldersInv, CopyInv
<1>5. SemaInv
  BY DEF Init, SocketsInit, SemaInit, SemaInv, OneInside, Inside
<1> QED
  BY <1>2, <1>3, <1>4, <1>5 DEF IInv

(* sem_wait takes the one unit there is, and only the worker that took it  *)
(* gives it back.                                                          *)
LEMMA SemaInductive == TypeOK /\ SemaInv /\ [Next]_vars => SemaInv'
<1> SUFFICES ASSUME TypeOK, SemaInv, [Next]_vars PROVE SemaInv'
  OBVIOUS
<1> USE DEF SemaInv, OneInside, TypeOK
<1>1. ASSUME NEW w \in Workers, Worker(w) PROVE SemaInv'
  <2>1. CASE SemWait(w)
    <3>1. /\ wstate[w] = "wait" /\ sema' = sema - 1 /\ sema > 0 /\ up' = up
          /\ wstate' = [wstate EXCEPT ![w] = "accept"]
      BY <2>1 DEF SemWait, Goes, sockVars
    <3>2. up /\ sema = 1 /\ \A v \in Workers : wstate[v] \notin Inside
      BY <3>1
    <3>3. \A v \in Workers : wstate'[v] \in Inside <=> v = w
      BY <3>1, <3>2 DEF Inside
    <3> QED
      BY <3>1, <3>2, <3>3
  <2>2. CASE SemPost(w)
    <3>1. /\ wstate[w] = "post" /\ sema' = sema + 1 /\ up' = up
          /\ wstate' = [wstate EXCEPT ![w] = "close"]
      BY <2>2 DEF SemPost, Goes, sockVars
    <3>2. up /\ sema = 0 /\ \A v \in Workers : wstate[v] \in Inside => v = w
      BY <3>1 DEF Inside
    <3>3. \A v \in Workers : wstate'[v] \notin Inside
      BY <3>1, <3>2 DEF Inside
    <3> QED
      BY <3>1, <3>2, <3>3
  <2>3. CASE \/ Accept(w) \/ AcceptReturns(w) \/ Reads(w) \/ Forks(w) \/ HasWaited(w)
             \/ HandleReturns(w) \/ CloseSock(w)
    <3>1. /\ UNCHANGED <<sema, up>> /\ wstate[w] # "dead"
          /\ \E to \in WStates : /\ wstate' = [wstate EXCEPT ![w] = to]
                                 /\ to \in Inside <=> wstate[w] \in Inside
      BY <2>3 DEF Accept, AcceptBy, AcceptReturns, Reads, Forks, StartProgram, HasWaited,
                  HandleReturns, CloseSock, Goes, WStates, Inside, sockVars
    <3>2. \A v \in Workers : wstate'[v] \in Inside <=> wstate[v] \in Inside
      BY <3>1
    <3> QED
      BY <3>1, <3>2
  <2>4. CASE Throws(w) \/ AcceptBreaks(w) \/ ForkFails(w)
    BY <2>4 DEF Throws, AcceptBreaks, ForkFails, AllDie, ProcessDies, Inside
  <2> QED
    BY <1>1, <2>1, <2>2, <2>3, <2>4 DEF Worker
<1>2. CASE Interrupt
  BY <1>2 DEF Interrupt, AllDie, ProcessDies, Inside
<1>3. ASSUME NEW c \in Conns, Client(c) PROVE SemaInv'
  BY <1>3 DEF Client, procVars, ClientStep, Connect, Shake, Send, StopsReading, Resumes, Shutdown, Reset, Depart
<1>4. CASE UNCHANGED vars
  BY <1>4 DEF vars, sockVars
<1>5. ASSUME NEW w \in Workers, ProgramEnds(w) PROVE SemaInv'
  BY <1>5 DEF ProgramEnds, StopProgram, procVars
<1> QED
  BY <1>1, <1>2, <1>3, <1>4, <1>5 DEF Next

(* What a worker has in its hands is a connection of its own.              *)
LEMMA InHandsOwned ==
  ASSUME IInv, NEW w \in Workers, wstate[w] \in InHands
  PROVE  /\ job[w] \in Conns /\ w \in holders[job[w]] /\ up
         /\ link[job[w]] # "none" /\ ~Queued(job[w])
BY DEF IInv, InHands, SemaInv, TypeOK, JobInv, HoldersInv, UnopenedOK, BacklogOK, Queued

(* The connection a worker accepts is new to all of them.                  *)
LEMMA AcceptKeeps ==
  ASSUME IInv, SemaInv', NEW w \in Workers, Accept(w) PROVE IInv'
<1>1. SocketsInv(Workers) /\ AcceptBy(w)
  BY DEF IInv, TypeOK, SocketsInv, Accept
<1>2. Head(backlog) \in Conns
  BY <1>1, AcceptKeepsSockets
<1> PICK h \in Conns : h = Head(backlog)
  BY <1>2
<1>3. SocketsInv(Workers)' /\ holders[h] = {} /\ handled[h] = 0
  BY <1>1, AcceptKeepsSockets DEF SocketsInv, BacklogOK, Queued
<1>4. /\ wstate[w] = "accept" /\ job[w] = None
      /\ wstate' = [wstate EXCEPT ![w] = "shake"] /\ job' = [job EXCEPT ![w] = h]
      /\ holders' = [holders EXCEPT ![h] = {w}]
      /\ UNCHANGED <<copies, handled, up, sema>>
  BY DEF Accept, AcceptBy, Goes, IInv, JobInv, InHands
<1>5. TypeOK' /\ BacklogOK' /\ UnopenedOK' /\ ListeningOK'
  BY <1>3, <1>4 DEF IInv, TypeOK, SocketsInv, WStates, Inside
<1>6. \A v \in Workers : job[v] # h
  BY <1>3 DEF IInv, HoldersInv
<1>7. JobInv' /\ CopyInv'
  BY <1>3, <1>4, <1>6, PoolAssumption DEF IInv, TypeOK, SocketsTypeOK, JobInv, CopyInv, InHands
<1>8. HoldersInv'
  <2> SUFFICES ASSUME NEW c \in Conns
               PROVE  holders'[c] = {v \in Workers : job'[v] = c}
    BY DEF HoldersInv
  <2>1. CASE c = h
    BY <1>4, <1>6, <2>1 DEF IInv, TypeOK, SocketsTypeOK
  <2>2. CASE c # h
    BY <1>4, <2>2, PoolAssumption DEF IInv, TypeOK, SocketsTypeOK, HoldersInv
  <2> QED
    BY <2>1, <2>2
<1> QED
  BY <1>5, <1>7, <1>8 DEF IInv

(* handle() returns once.                                                  *)
LEMMA HandleReturnsKeeps ==
  ASSUME IInv, SemaInv', NEW w \in Workers, HandleReturns(w) PROVE IInv'
<1>1. /\ wstate[w] \in {"read", "run", "reply"} /\ wstate' = [wstate EXCEPT ![w] = "post"]
      /\ wstate[w] = "run" => ~Running(w)
  BY DEF HandleReturns, Goes
<1>2. /\ handled' = [handled EXCEPT ![job[w]] = @ + 1]
      /\ UNCHANGED <<link, prog, backlog, holders, copies, up, listening, sema, job>>
  BY DEF HandleReturns
<1>3. job[w] \in Conns /\ link[job[w]] # "none" /\ ~Queued(job[w]) /\ handled[job[w]] = 0
  BY <1>1, InHandsOwned DEF IInv, JobInv, InHands
<1>4. TypeOK'
  BY <1>1, <1>2, <1>3 DEF IInv, TypeOK, SocketsTypeOK, WStates, Inside
<1>5. BacklogOK' /\ UnopenedOK' /\ ListeningOK'
  <2>1. Range(backlog) \subseteq Conns
    BY BacklogOfConns DEF IInv, TypeOK
  <2> QED
    BY <1>2, <1>3, <2>1 DEF IInv, TypeOK, SocketsTypeOK, BacklogOK, UnopenedOK, Queued,
                            ListeningOK, Programs
<1>6. JobInv'
  <2>1. \A v \in Workers : v # w /\ wstate'[v] \in {"shake", "read", "run", "reply"} =>
          handled'[job[v]] = 0
    BY <1>1, <1>2, <1>3 DEF IInv, TypeOK, SocketsTypeOK, JobInv, InHands
  <2> QED
    BY <1>1, <1>2, <1>3, <2>1 DEF IInv, TypeOK, SocketsTypeOK, JobInv, InHands
<1>7. HoldersInv' /\ CopyInv'
  <2>1. wstate[w] = "run" => \A c \in Conns : w \notin copies[c]
    <3>1. SocketsTypeOK(Workers)
      BY DEF IInv, TypeOK
    <3> QED
      BY <1>1, <3>1, ProgramsAre DEF Running
  <2>2. \A c \in Conns : copies[c] \subseteq Workers
    BY DEF IInv, TypeOK, SocketsTypeOK
  <2> QED
    BY <1>1, <1>2, <2>1, <2>2 DEF IInv, TypeOK, HoldersInv, CopyInv
<1> QED
  BY <1>4, <1>5, <1>6, <1>7 DEF IInv

(* ~TCPSocket closes the one descriptor there is.                          *)
LEMMA CloseSockKeeps ==
  ASSUME IInv, SemaInv', NEW w \in Workers, CloseSock(w) PROVE IInv'
<1>1. /\ wstate[w] = "close" /\ wstate' = [wstate EXCEPT ![w] = "wait"]
      /\ holders' = [holders EXCEPT ![job[w]] = @ \ {w}]
      /\ job' = [job EXCEPT ![w] = None]
      /\ UNCHANGED <<link, prog, backlog, copies, handled, up, listening, sema>>
  BY DEF CloseSock, Goes
<1>2. job[w] \in Conns /\ link[job[w]] # "none" /\ ~Queued(job[w])
  BY <1>1, InHandsOwned DEF InHands
<1>3. TypeOK'
  BY <1>1, <1>2 DEF IInv, TypeOK, SocketsTypeOK, WStates, Inside
<1>4. BacklogOK' /\ UnopenedOK' /\ ListeningOK'
  <2>1. Range(backlog) \subseteq Conns
    BY BacklogOfConns DEF IInv, TypeOK
  <2> QED
    BY <1>1, <1>2, <2>1 DEF IInv, TypeOK, SocketsTypeOK, BacklogOK, UnopenedOK, Queued,
                            ListeningOK, Programs
<1>5. JobInv' /\ CopyInv'
  <2>1. JobInv'
    BY <1>1 DEF IInv, TypeOK, JobInv, InHands
  <2>2. \A c \in Conns : copies[c] \subseteq Workers
    BY DEF IInv, TypeOK, SocketsTypeOK
  <2> QED
    BY <1>1, <2>1, <2>2 DEF IInv, TypeOK, CopyInv
<1>6. HoldersInv'
  <2> SUFFICES ASSUME NEW c \in Conns
               PROVE  holders'[c] = {v \in Workers : job'[v] = c}
    BY DEF HoldersInv
  <2>1. {v \in Workers : job'[v] = c} = {v \in Workers : job[v] = c} \ {w}
    BY <1>1, PoolAssumption DEF IInv, TypeOK
  <2>2. CASE c = job[w]
    BY <1>1, <2>1, <2>2 DEF IInv, TypeOK, SocketsTypeOK, HoldersInv
  <2>3. CASE c # job[w]
    BY <1>1, <2>1, <2>3 DEF IInv, TypeOK, SocketsTypeOK, HoldersInv
  <2> QED
    BY <2>2, <2>3
<1> QED
  BY <1>3, <1>4, <1>5, <1>6 DEF IInv

(* The end of the process takes every connection out of every hand.        *)
LEMMA AllDieKeeps ==
  ASSUME IInv, SemaInv', AllDie PROVE IInv'
<1>1. SocketsInv(Workers)'
  BY DeathReleases DEF AllDie, IInv, TypeOK, SocketsInv
<1>2. TypeOK' /\ BacklogOK' /\ UnopenedOK' /\ ListeningOK'
  BY <1>1 DEF AllDie, IInv, TypeOK, SocketsInv, WStates
<1>3. JobInv'
  BY DEF AllDie, ProcessDies, IInv, JobInv, InHands
<1>4. HoldersInv' /\ CopyInv'
  BY PoolAssumption DEF AllDie, ProcessDies, HoldersInv, CopyInv
<1> QED
  BY <1>2, <1>3, <1>4 DEF IInv

(* A client's step leaves alone what is in the workers' hands.             *)
LEMMA ClientKeeps ==
  ASSUME IInv, SemaInv', NEW c \in Conns, Client(c) PROVE IInv'
<1>1. SocketsInv(Workers)' /\ UNCHANGED procVars
  BY ClientsKeepSockets DEF IInv, TypeOK, SocketsInv, Client
<1>2. TypeOK' /\ BacklogOK' /\ UnopenedOK' /\ ListeningOK'
  BY <1>1 DEF IInv, TypeOK, SocketsInv, procVars
<1>3. UNCHANGED <<holders, copies, up>>
  BY DEF Client, ClientStep, Connect, Shake, Send, StopsReading, Resumes, Shutdown, Reset, Depart
<1>4. \A d \in Conns : \/ handled'[d] = handled[d]
                       \/ handled'[d] = 0 /\ holders[d] = {}
  BY DEF Client, ClientStep, Connect, Shake, Send, StopsReading, Resumes, Shutdown, Reset, Depart, Closed,
         IInv, TypeOK, SocketsTypeOK
<1>5. JobInv'
  <2>1. \A w \in Workers : wstate[w] \in {"shake", "read", "run", "reply"} =>
          job[w] \in Conns /\ handled'[job[w]] = 0
    BY <1>4, InHandsOwned DEF InHands, IInv, JobInv
  <2> QED
    BY <1>1, <1>4, <2>1 DEF IInv, JobInv, procVars
<1>6. HoldersInv' /\ CopyInv'
  BY <1>1, <1>3 DEF IInv, HoldersInv, CopyInv, procVars
<1> QED
  BY <1>2, <1>5, <1>6 DEF IInv

(* A step that changes no connection and no job.                           *)
LEMMA QuietKeeps ==
  ASSUME IInv, TypeOK', SemaInv', UNCHANGED <<sockVars, job>>,
         \A w \in Workers : wstate'[w] \in InHands <=> wstate[w] \in InHands,
         \A w \in Workers : wstate'[w] \in {"shake", "read", "run", "reply"} =>
                              wstate[w] \in {"shake", "read", "run", "reply"},
         \A w \in Workers : wstate[w] = "run" /\ Running(w) => wstate'[w] = "run"
  PROVE  IInv'
<1>1. \A c \in Conns : \A w \in copies[c] : w \in Workers /\ Running(w)
  <2>1. SocketsTypeOK(Workers)
    BY DEF IInv, TypeOK
  <2> QED
    BY <2>1, ProgramsAre DEF Running
<1>2. CopyInv'
  BY <1>1 DEF IInv, CopyInv, sockVars
<1>3. ListeningOK'
  BY DEF IInv, ListeningOK, Programs, sockVars
<1> QED
  BY <1>2, <1>3 DEF IInv, sockVars, BacklogOK, UnopenedOK, JobInv, HoldersInv

(* A program starts with every connection of the process.                  *)
LEMMA ForksKeeps ==
  ASSUME IInv, SemaInv', NEW w \in Workers, Forks(w)
  PROVE  IInv' /\ Releases
<1> DEFINE S == {c \in Conns : holders[c] # {}}
<1>1. /\ wstate[w] = "read" /\ wstate' = [wstate EXCEPT ![w] = "run"]
      /\ StartProgram(w, S)
      /\ UNCHANGED <<link, prog, backlog, holders, handled, up, listening, sema, job>>
      /\ copies' = [c \in Conns |-> IF c \in S THEN copies[c] \cup {w} ELSE copies[c]]
  BY DEF Forks, Goes, StartProgram
<1>2. job[w] \in Conns /\ job[w] \in S /\ up /\ listening
  BY <1>1, InHandsOwned DEF InHands, IInv, ListeningOK
<1>3. SocketsInv(Workers)' /\ Releases
  <2>1. SocketsInv(Workers) /\ \A c \in S \cap Conns : holders[c] # {}
    BY DEF IInv, TypeOK, SocketsInv
  <2> HIDE DEF S
  <2> QED
    BY <1>1, <1>2, <2>1, StartReleases
<1>4. TypeOK' /\ BacklogOK' /\ UnopenedOK' /\ ListeningOK'
  BY <1>1, <1>3 DEF IInv, TypeOK, SocketsInv, WStates, Inside
<1>5. JobInv' /\ HoldersInv'
  BY <1>1 DEF IInv, TypeOK, JobInv, HoldersInv, InHands
<1>6. UNCHANGED job
  BY <1>1
<1>7. CopyInv'
  <2> SUFFICES ASSUME NEW c \in Conns, NEW v \in copies'[c]
               PROVE  wstate'[v] = "run" /\ v \in copies'[job[v]]
    BY <1>6 DEF CopyInv
  <2>1. CASE v = w
    BY <1>1, <1>2, <2>1 DEF IInv, TypeOK
  <2>2. CASE v # w
    <3>1. v \in copies[c] /\ v \in Workers
      BY <1>1, <2>2 DEF IInv, TypeOK, SocketsTypeOK
    <3>2. wstate[v] = "run" /\ v \in copies[job[v]] /\ job[v] \in Conns
      BY <1>2, <3>1, InHandsOwned DEF IInv, CopyInv, InHands
    <3> QED
      BY <1>1, <2>2, <3>1, <3>2 DEF IInv, TypeOK
  <2> QED
    BY <2>1, <2>2
<1> QED
  BY <1>3, <1>4, <1>5, <1>7 DEF IInv

(* And gives them back, and perhaps the listening socket, when it ends.    *)
LEMMA ProgramEndKeeps ==
  ASSUME IInv, SemaInv', NEW w \in Workers, ProgramEnds(w)
  PROVE  IInv' /\ Releases
<1>1. /\ UNCHANGED <<link, prog, holders, handled, up, sema, wstate, job>>
      /\ copies' = [c \in Conns |-> copies[c] \ {w}]
      /\ listening' = (up \/ Programs \ {w} # {})
      /\ backlog' = IF listening' THEN backlog ELSE <<>>
      /\ Running(w)
  BY DEF ProgramEnds, StopProgram, Listens, procVars
<1>2. listening' \in {listening, FALSE}
  BY <1>1 DEF IInv, ListeningOK
<1>3. SocketsInv(Workers)' /\ Releases
  BY <1>1, <1>2, StopReleases DEF IInv, TypeOK, SocketsInv
<1>4. TypeOK' /\ BacklogOK' /\ UnopenedOK' /\ ListeningOK'
  BY <1>1, <1>3 DEF IInv, TypeOK, SocketsInv
<1>5. JobInv' /\ HoldersInv'
  BY <1>1 DEF IInv, JobInv, HoldersInv
<1>6. CopyInv'
  <2> SUFFICES ASSUME up, NEW c \in Conns, NEW v \in copies'[c]
               PROVE  wstate[v] = "run" /\ v \in copies'[job[v]]
    BY <1>1 DEF CopyInv
  <2>1. v \in copies[c] /\ v \in Workers /\ v # w
    BY <1>1 DEF IInv, TypeOK, SocketsTypeOK
  <2>2. wstate[v] = "run" /\ v \in copies[job[v]] /\ job[v] \in Conns
    BY <2>1, InHandsOwned DEF IInv, CopyInv, InHands
  <2> QED
    BY <1>1, <2>1, <2>2
<1> QED
  BY <1>3, <1>4, <1>5, <1>6 DEF IInv

(* Every step keeps IInv.                                                  *)
LEMMA Inductive == IInv /\ [Next]_vars => IInv'
<1> SUFFICES ASSUME IInv, [Next]_vars PROVE IInv'
  OBVIOUS
<1>1. SemaInv'
  BY SemaInductive DEF IInv
<1>2. ASSUME NEW w \in Workers, Worker(w) PROVE IInv'
  <2>1. CASE SemWait(w) \/ AcceptReturns(w) \/ Reads(w) \/ HasWaited(w) \/ SemPost(w)
    <3>1. sema' \in 0..1
      <4>1. SemPost(w) => up'
        BY DEF SemPost, Goes, IInv, SemaInv, sockVars
      <4> QED
        BY <1>1, <2>1, <4>1 DEF SemWait, AcceptReturns, Reads, HasWaited, SemPost, IInv, TypeOK,
                                SemaInv, OneInside
    <3>2. /\ UNCHANGED <<sockVars, job>>
          /\ \E from, to \in WStates : Goes(w, from, to)
               /\ (to \in InHands <=> from \in InHands)
               /\ (to \in {"read", "reply"} => from \in {"shake", "read", "run"})
               /\ to \notin {"shake", "run"}
               /\ (from = "run" => ~Running(w))
      BY <2>1 DEF SemWait, AcceptReturns, Reads, HasWaited, SemPost, IInv, TypeOK, WStates,
                  Inside, InHands, Goes
    <3>3. TypeOK'
      BY <3>2, <3>1 DEF IInv, TypeOK, SocketsTypeOK, sockVars, Goes
    <3>4. \A v \in Workers : /\ wstate'[v] \in InHands <=> wstate[v] \in InHands
                             /\ wstate'[v] \in {"shake", "read", "run", "reply"} =>
                                  wstate[v] \in {"shake", "read", "run", "reply"}
                             /\ wstate[v] = "run" /\ Running(v) => wstate'[v] = "run"
      BY <3>2 DEF IInv, TypeOK, Goes
    <3> QED
      BY <1>1, <3>2, <3>3, <3>4, QuietKeeps
  <2>2. CASE Accept(w)
    BY <1>1, <2>2, AcceptKeeps
  <2>3. CASE HandleReturns(w)
    BY <1>1, <2>3, HandleReturnsKeeps
  <2>4. CASE Throws(w) \/ AcceptBreaks(w) \/ ForkFails(w)
    BY <1>1, <2>4, AllDieKeeps DEF Throws, AcceptBreaks, ForkFails
  <2>5. CASE CloseSock(w)
    BY <1>1, <2>5, CloseSockKeeps
  <2>6. CASE Forks(w)
    BY <1>1, <2>6, ForksKeeps
  <2> QED
    BY <1>2, <2>1, <2>2, <2>3, <2>4, <2>5, <2>6 DEF Worker
<1>3. CASE Interrupt
  BY <1>3, <1>1, AllDieKeeps DEF Interrupt
<1>4. ASSUME NEW c \in Conns, Client(c) PROVE IInv'
  BY <1>4, <1>1, ClientKeeps
<1>5. ASSUME NEW w \in Workers, ProgramEnds(w) PROVE IInv'
  BY <1>1, <1>5, ProgramEndKeeps
<1>6. CASE UNCHANGED vars
  <2>1. TypeOK'
    BY <1>6 DEF vars, sockVars, IInv, TypeOK, SocketsTypeOK
  <2> QED
    BY <1>6, <1>1, <2>1, QuietKeeps DEF vars
<1> QED
  BY <1>2, <1>3, <1>4, <1>6, <1>5 DEF Next

(* What the connections and the workers are throughout.                    *)
THEOREM Invariance == Spec => []IInv
<1>1. Init => IInv
  BY Initially
<1>2. IInv /\ [Next]_vars => IInv'
  BY Inductive
<1> QED
  BY <1>1, <1>2, PTL DEF Spec

(* Type correctness, for any number of connections and workers.            *)
THEOREM TypeCorrect == Spec => []TypeOK
<1>1. IInv => TypeOK
  BY DEF IInv
<1> QED
  BY <1>1, Invariance, PTL

(* A connection has at most one worker, which handles it once and is the   *)
(* one that closes it.                                                     *)
THEOREM HandledOnce == Spec => []ServedOnce
<1>1. IInv => ServedOnce
  <2> SUFFICES ASSUME IInv, NEW c \in Conns
               PROVE  /\ handled[c] <= 1
                      /\ Queued(c) => handled[c] = 0 /\ holders[c] = {} /\ copies[c] = {}
                      /\ holders[c] = {w \in Workers : job[w] = c}
                      /\ \A v, w \in holders[c] : v = w
                      /\ \A w \in holders[c] :
                           wstate[w] \in {"shake", "read", "run", "reply"} => handled[c] = 0
    BY DEF ServedOnce, IInv, CopyInv
  <2>1. holders[c] = {w \in Workers : job[w] = c} /\ c # None
    BY PoolAssumption DEF IInv, HoldersInv
  <2>2. Queued(c) => handled[c] = 0 /\ holders[c] = {} /\ copies[c] = {}
    BY DEF IInv, BacklogOK, Queued
  <2>3. \A v, w \in holders[c] : v = w
    BY <2>1 DEF IInv, JobInv
  <2>4. \A w \in holders[c] : wstate[w] \in {"shake", "read", "run", "reply"} => handled[c] = 0
    BY <2>1 DEF IInv, JobInv
  <2> QED
    BY <2>1, <2>2, <2>3, <2>4 DEF IInv, JobInv
<1> QED
  BY <1>1, Invariance, PTL
-----------------------------------------------------------------------------
(* One worker at a time accepts and handles, whatever the number of        *)
(* workers, and the semaphore is never posted twice nor lost.              *)
THEOREM MutualExclusion == Spec => []OneInside
<1>1. IInv => OneInside
  BY DEF IInv, SemaInv
<1> QED
  BY <1>1, Invariance, PTL
-----------------------------------------------------------------------------
(* Every step is one that Service allows, or one that it cannot see.       *)

(* The end of the process closes all that no program has a copy of.        *)
LEMMA AllDieRefines ==
  ASSUME IInv, AllDie PROVE Svc!Next
<1>1. SocketsInv(Workers)
  BY DEF IInv, TypeOK, SocketsInv
<1> QED
  BY <1>1, DeathReleases, ReleaseRefines DEF AllDie, ProcessDies

(* A step of a worker is one of Service, or changes nothing in it.         *)
LEMMA WorkerRefines ==
  ASSUME IInv, SemaInv', NEW w \in Workers, Worker(w) PROVE [Svc!Next]_Svc!vars
<1>1. SocketsInv(Workers)
  BY DEF IInv, TypeOK, SocketsInv
<1>2. CASE SemWait(w) \/ AcceptReturns(w) \/ Reads(w) \/ HasWaited(w) \/ SemPost(w)
  BY <1>2, HiddenRefines DEF SemWait, AcceptReturns, Reads, HasWaited, SemPost, sockVars
<1>3. CASE Accept(w)
  <2>1. up
    BY <1>3 DEF Accept, Goes, IInv, SemaInv
  <2> QED
    BY <1>1, <1>3, <2>1, AcceptRefines DEF Accept
<1>4. CASE HandleReturns(w)
  <2>1. wstate[w] \in {"read", "run", "reply"}
    BY <1>4 DEF HandleReturns, Goes
  <2>2. job[w] \in Conns /\ holders[job[w]] # {} /\ handled[job[w]] = 0
    BY <2>1, InHandsOwned DEF InHands, IInv, JobInv
  <2> QED
    BY <1>1, <1>4, <2>2, HandleRefines DEF HandleReturns
<1>5. CASE Throws(w) \/ AcceptBreaks(w) \/ ForkFails(w)
  BY <1>5, AllDieRefines DEF Throws, AcceptBreaks, ForkFails
<1>6. CASE CloseSock(w)
  <2>1. wstate[w] = "close" /\ UNCHANGED <<link, backlog, copies, handled, up, listening>>
    BY <1>6 DEF CloseSock, Goes
  <2>2. job[w] \in Conns /\ holders[job[w]] # {} /\ up
    BY <2>1, InHandsOwned DEF InHands
  <2>3. \A c \in Conns \ {job[w]} : holders'[c] = holders[c]
    BY <1>6 DEF CloseSock, IInv, TypeOK, SocketsTypeOK
  <2>4. Releases
    BY <2>1, <2>2, <2>3 DEF Releases, Opened, IInv, ListeningOK
  <2> QED
    BY <1>1, <2>1, <2>4, ReleaseRefines
<1>7. CASE Forks(w)
  BY <1>1, <1>7, ForksKeeps, ReleaseRefines DEF Forks, StartProgram
<1> QED
  BY <1>2, <1>3, <1>4, <1>5, <1>6, <1>7 DEF Worker

(* So is every step.                                                       *)
LEMMA StepRefines == IInv /\ [Next]_vars => [Svc!Next]_Svc!vars
<1> SUFFICES ASSUME IInv, [Next]_vars PROVE [Svc!Next]_Svc!vars
  OBVIOUS
<1>1. SocketsInv(Workers) /\ SemaInv'
  BY SemaInductive DEF IInv, TypeOK, SocketsInv
<1>2. ASSUME NEW w \in Workers, Worker(w) PROVE [Svc!Next]_Svc!vars
  BY <1>1, <1>2, WorkerRefines
<1>3. CASE Interrupt
  BY <1>3, AllDieRefines DEF Interrupt
<1>4. ASSUME NEW c \in Conns, Client(c) PROVE [Svc!Next]_Svc!vars
  BY <1>1, <1>4, ClientRefines DEF Client
<1>5. CASE UNCHANGED vars
  BY <1>5, HiddenRefines DEF vars, sockVars
<1>6. ASSUME NEW w \in Workers, ProgramEnds(w) PROVE [Svc!Next]_Svc!vars
  BY <1>1, <1>6, ProgramEndKeeps, ReleaseRefines DEF ProgramEnds, StopProgram
<1> QED
  BY <1>2, <1>3, <1>4, <1>5, <1>6 DEF Next

(* The pool implements Service, with any number of clients and workers.    *)
THEOREM PoolImplements == Spec => ImplementsService
<1>1. Init => Svc!Init
  BY InitRefines DEF Init
<1>2. IInv /\ [Next]_vars => [Svc!Next]_Svc!vars
  BY StepRefines
<1> QED
  BY <1>1, <1>2, Invariance, PTL DEF Spec, ImplementsService, Svc!Spec
=============================================================================
