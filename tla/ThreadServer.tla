--------------------------- MODULE ThreadServer ---------------------------
(***************************************************************************)
(* myhttpd -t: Server::run_thread.  The main thread accepts, moves the     *)
(* socket into a new detached thread and accepts again; the thread runs    *)
(* handle() and destroys the socket.  All share one process: an exception  *)
(* nobody catches, in any of them, ends it.  A program that handle() forks *)
(* in one thread gets the descriptors of all.                              *)
(***************************************************************************)
EXTENDS Sockets, FiniteSets

CONSTANTS
  Main,     \* the main thread
  Threads,  \* the other threads that may exist at once: the thread limit
  None,     \* no connection
  MaxFds,   \* the descriptors the process may have open, listening socket aside
  HandleFds,\* those handle() may open besides the socket: 1 for a file, 4 for CGI
  Modules,  \* TRUE if clients ask for loadable modules
  ForkMayFail, \* TRUE if fork() may fail in handle()
  MayStop   \* TRUE if SIGINT may come

ASSUME ThreadAssumption ==
  /\ Main \notin Threads
  /\ None \notin Conns
  /\ IsFiniteSet(Conns) /\ IsFiniteSet(Threads)
  /\ MaxFds \in Nat \ {0} /\ HandleFds \in Nat
  /\ Modules \in BOOLEAN /\ ForkMayFail \in BOOLEAN /\ MayStop \in BOOLEAN

VARIABLES
  pc,      \* the main thread: in accept, in SSL_accept, or creating a thread
  cur,     \* the connection in the main thread's local variable sock
  tstate,  \* tstate[t]: no such thread, or where it is in handle()
  job      \* job[t]: the connection that was moved into t

vars == <<sockVars, pc, cur, tstate, job>>
procVars == <<pc, cur, tstate, job>>

Init ==
  /\ SocketsInit
  /\ pc = "accept" /\ cur = None
  /\ tstate = [t \in Threads |-> "free"]
  /\ job = [t \in Threads |-> None]

Open == {c \in Conns : holders[c] # {}}

(* A new connection takes a descriptor, and the constructor of TCPSocket   *)
(* takes another for a moment, to write http-root-dir/loghelp.             *)
FdsNeeded == IF Https THEN 1 ELSE 2

(* A thread between its request and its reply may have files or pipes      *)
(* open, or not any more: with so many, the next connection finds a        *)
(* descriptor.                                                             *)
FdsLeft(files) == Cardinality(Open) + files + FdsNeeded <= MaxFds
FilesAtMost == HandleFds * Cardinality({t \in Threads : tstate[t] \in {"run", "reply"}})

(* The process ends, and every thread with it.                             *)
AllDie ==
  /\ ProcessDies
  /\ tstate' = [t \in Threads |-> "free"]
  /\ job' = [t \in Threads |-> None]
  /\ UNCHANGED <<pc, cur>>
-----------------------------------------------------------------------------
(* The main thread. *)

(* Mutant: join() in place of detach().                                    *)
AcceptAfterJoin ==
  /\ up /\ pc = "accept" /\ FdsLeft(0)
  /\ \A t \in Threads : tstate[t] = "free"
  /\ AcceptBy(Main)
  /\ cur' = Head(backlog)
  /\ pc' = "shake"
  /\ UNCHANGED <<tstate, job>>

Accept ==
  /\ up /\ pc = "accept" /\ FdsLeft(0)
  /\ AcceptBy(Main)
  /\ cur' = Head(backlog)
  /\ pc' = "shake"
  /\ UNCHANGED <<tstate, job>>

(* accept() fails and accept_connection() throws or exits, or fopen()      *)
(* returns NULL and the constructor writes to it.                          *)
AcceptFails ==
  /\ up /\ pc = "accept" /\ backlog # <<>> /\ ~FdsLeft(FilesAtMost)
  /\ AllDie

AcceptReturns ==
  /\ up /\ pc = "shake"
  /\ HandshakeOver(cur)
  /\ pc' = "spawn"
  /\ UNCHANGED <<sockVars, cur, tstate, job>>

(* SIGPIPE in SSL_accept().                                                *)
AcceptBreaks ==
  /\ up /\ pc = "shake"
  /\ HandshakeBreaks(cur)
  /\ AllDie

(* Mutants: the thread has a reference to a socket that the main thread    *)
(* destroys; a second thread; and one that starts as the main thread does. *)
SpawnAs(t, state, owners, next) ==
  /\ up /\ pc = "spawn" /\ tstate[t] = "free"
  /\ tstate' = [tstate EXCEPT ![t] = state]
  /\ job' = [job EXCEPT ![t] = cur]
  /\ holders' = [holders EXCEPT ![cur] = owners]
  /\ pc' = next /\ cur' = (IF next = "spawn" THEN cur ELSE None)
  /\ UNCHANGED <<link, prog, backlog, copies, handled, up, listening>>

SpawnByReference(t) == SpawnAs(t, "read", {}, "accept")
SpawnTwice(t) == \E next \in {"spawn", "accept"} : SpawnAs(t, "read", {t}, next)
SpawnMain(t) == SpawnAs(t, pc, {t}, "accept")

(* callHandle(std::move(sock)) and detach().                               *)
Spawn(t) ==
  /\ up /\ pc = "spawn" /\ tstate[t] = "free"
  /\ tstate' = [tstate EXCEPT ![t] = "read"]
  /\ job' = [job EXCEPT ![t] = cur]
  /\ holders' = [holders EXCEPT ![cur] = {t}]
  /\ pc' = "accept" /\ cur' = None
  /\ UNCHANGED <<link, prog, backlog, copies, handled, up, listening>>

(* The constructor of std::thread throws std::system_error.                *)
SpawnFails ==
  /\ up /\ pc = "spawn"
  /\ \A t \in Threads : tstate[t] # "free"
  /\ AllDie
-----------------------------------------------------------------------------
(* A thread. *)

Returns(t) ==
  /\ tstate' = [tstate EXCEPT ![t] = "exit"]
  /\ handled' = [handled EXCEPT ![job[t]] = @ + 1]
  /\ UNCHANGED <<link, prog, backlog, holders, copies, up, listening, pc, cur, job>>

Reads(t) ==
  /\ tstate[t] = "read" /\ ReadsRequest(job[t])
  /\ tstate' = [tstate EXCEPT ![t] = "reply"]
  /\ UNCHANGED <<sockVars, pc, cur, job>>

ReadsNone(t) ==
  /\ tstate[t] = "read" /\ ReadsNothing(job[t])
  /\ Returns(t)

(* handle_cgi_bin() and loadableModulesHandler() fork, and wait.           *)
Forks(t) ==
  /\ tstate[t] = "read" /\ ReadsRequest(job[t])
  /\ tstate' = [tstate EXCEPT ![t] = "run"]
  /\ StartProgram(t, Open)
  /\ UNCHANGED <<pc, cur, job>>

ProgramEnds(t) ==
  /\ StopProgram(t, up)
  /\ UNCHANGED procVars

(* Mutant: waitpid() with WNOHANG.                                         *)
WaitsNot(t) ==
  /\ tstate[t] = "run"
  /\ Returns(t)

(* The output of a program is sent; a module has sent its answer itself.   *)
HasWaited(t) ==
  /\ tstate[t] = "run" /\ ~Running(t)
  /\ \/ /\ tstate' = [tstate EXCEPT ![t] = "reply"]
        /\ UNCHANGED <<sockVars, pc, cur, job>>
     \/ Returns(t)

(* fork() fails in handle(): exit(1) for a program, no answer for a module.*)
ForkFails(t) ==
  /\ ForkMayFail
  /\ tstate[t] = "read" /\ ReadsRequest(job[t])
  /\ AllDie \/ Returns(t)

(* Two threads are in the unlocked map of loaded modules at the same time. *)
Race(t, u) ==
  /\ Modules /\ t # u
  /\ \A v \in {t, u} : tstate[v] = "read" /\ ReadsRequest(job[v])
  /\ AllDie

Replies(t) ==
  /\ tstate[t] = "reply" /\ WriteReturns(job[t])
  /\ Returns(t)

(* handle() is left by an exception, or by a signal.                       *)
Throws(t) ==
  /\ \/ tstate[t] = "read" /\ ReadFails(job[t])
     \/ tstate[t] = "reply" /\ WriteFails(job[t])
  /\ AllDie

(* Mutant: the thread is neither detached nor joined.                      *)
EndsUnjoined(t) ==
  /\ tstate[t] = "exit"
  /\ job[t] # None
  /\ job' = [job EXCEPT ![t] = None]
  /\ holders' = [holders EXCEPT ![job[t]] = @ \ {t}]
  /\ UNCHANGED <<link, prog, backlog, copies, handled, up, listening, pc, cur, tstate>>

(* The lambda, and the socket moved into it, are destroyed.                *)
Ends(t) ==
  /\ tstate[t] = "exit"
  /\ tstate' = [tstate EXCEPT ![t] = "free"]
  /\ job' = [job EXCEPT ![t] = None]
  /\ holders' = [holders EXCEPT ![job[t]] = @ \ {t}]
  /\ UNCHANGED <<link, prog, backlog, copies, handled, up, listening, pc, cur>>

(* SIGINT: signal_handler() calls exit(0).                                 *)
Interrupt ==
  /\ MayStop /\ up
  /\ AllDie
-----------------------------------------------------------------------------
MainThread ==
  \/ Accept \/ AcceptFails \/ AcceptReturns \/ AcceptBreaks
  \/ \E t \in Threads : Spawn(t)
  \/ SpawnFails

Thread(t) ==
  \/ Reads(t) \/ ReadsNone(t) \/ Replies(t) \/ Throws(t) \/ Ends(t)
  \/ Forks(t) \/ HasWaited(t) \/ ForkFails(t) \/ \E u \in Threads : Race(t, u)

Client(c) == ClientStep(c) /\ UNCHANGED procVars

Next ==
  \/ MainThread
  \/ \E t \in Threads : Thread(t) \/ ProgramEnds(t)
  \/ Interrupt
  \/ \E c \in Conns : Client(c)

(* The threads that can run do; a prompt client goes on with its request.  *)
(* Nothing is assumed of the programs.                                     *)
Fairness ==
  /\ WF_vars(MainThread)
  /\ \A t \in Threads : WF_vars(Thread(t))
  /\ \A c \in Prompt : WF_vars((Shake(c) \/ Send(c)) /\ UNCHANGED procVars)

Spec == Init /\ [][Next]_vars

FairSpec == Spec /\ Fairness
-----------------------------------------------------------------------------
TypeOK ==
  /\ SocketsTypeOK(Threads \cup {Main})
  /\ pc \in {"accept", "shake", "spawn"}
  /\ cur \in Conns \cup {None}
  /\ tstate \in [Threads -> {"free", "read", "run", "reply", "exit"}]
  /\ job \in [Threads -> Conns \cup {None}]

Handling(t, c) == tstate[t] \in {"read", "run", "reply"} /\ job[t] = c
Offered(c) == up /\ cur = c

(* In the server process a socket has one owner at a time, the main thread *)
(* and then the thread it was moved into: no thread uses a socket that     *)
(* another destroys, and none stays open when its thread has ended.        *)
(* Outside it, only programs that a thread is waiting for have copies: no  *)
(* program keeps the clients of others waiting for longer than its own,    *)
(* as long as the server lives.                                            *)
SoleOwner ==
  \A c \in Conns :
    /\ holders[c] = {t \in Threads : tstate[t] # "free" /\ job[t] = c}
                      \cup (IF Offered(c) THEN {Main} ELSE {})
    /\ \A o1, o2 \in holders[c] : o1 = o2
    /\ up => \A t \in copies[c] : tstate[t] = "run" /\ t \in copies[job[t]]

(* A connection is in the backlog, or in the main thread's hands, or being *)
(* handled, or handled, and never two of these: no two threads get it, and *)
(* handle() runs for it once.                                              *)
ServedOnce ==
  \A c \in Conns :
    /\ handled[c] <= 1
    /\ \A t \in Threads : Handling(t, c) => handled[c] = 0 /\ ~Queued(c)
    /\ Offered(c) \/ Queued(c) => handled[c] = 0
    /\ ~(Offered(c) /\ Queued(c))

(* Detached threads do not pile up: with a thread and the descriptors for  *)
(* every connection there can be, the server outlives any number of        *)
(* requests from clients that are not faulty, however slow they are to     *)
(* send or to read.  With -s they must not hang up: before the handshake   *)
(* that is fatal.  Fatal too, without any faulty client, are a fork() that *)
(* fails for a program and two requests for modules at the same time.      *)
OutlivesSlowClients ==
  /\ Faulty = {} /\ ~MayStop /\ ~Modules /\ ~ForkMayFail
  /\ Https => Prompt = Conns
  /\ Cardinality(Threads) >= Cardinality(Conns)
  /\ MaxFds >= (Cardinality(Conns) - 1) * (1 + HandleFds) + FdsNeeded
  => up

(* A prompt client's request is handled, whatever the slow clients do, and *)
(* their programs; its own must end.                                       *)
PromptHandled ==
  \A c \in Prompt :
    []<>(\A t \in Threads : job[t] = c => ~Running(t))
      => (Queued(c) ~> handled[c] = 1)
-----------------------------------------------------------------------------
(* Whatever the interleaving of the threads and the clients, what happens  *)
(* to the connections is what Service allows.                              *)
ImplementsService == Svc!Spec
=============================================================================
