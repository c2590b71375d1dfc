---------------------------- MODULE PoolServer ----------------------------
(***************************************************************************)
(* myhttpd -pN: Server::run_thread_pool and dispatchThread.  N detached     *)
(* threads and the main thread run the same loop: wait for the semaphore,   *)
(* accept, handle, post the semaphore; the socket is destroyed after that,  *)
(* at the end of the iteration.                                             *)
(***************************************************************************)
EXTENDS Sockets

CONSTANTS
  Workers,  \* the N threads of the pool and the main thread
  None,     \* no connection
  ForkMayFail, \* TRUE if fork() may fail in handle()
  MayStop   \* TRUE if SIGINT may come

ASSUME PoolAssumption ==
  /\ None \notin Conns
  /\ ForkMayFail \in BOOLEAN /\ MayStop \in BOOLEAN

VARIABLES
  sema,    \* the value of the semaphore
  wstate,  \* wstate[w]: where w is in its loop
  job      \* job[w]: the connection in w's local variable sock

vars == <<sockVars, sema, wstate, job>>
procVars == <<sema, wstate, job>>

(* Where a worker is between sem_wait and sem_post.                         *)
Inside == {"accept", "shake", "read", "run", "reply", "post"}
WStates == Inside \cup {"wait", "close", "dead"}

(* Mutant: room for two.                                                    *)
SemaInitTwo == 2

(* sem_init(&sema, 0, 1)                                                    *)
SemaInit == 1

Init ==
  /\ SocketsInit
  /\ sema = SemaInit
  /\ wstate = [w \in Workers |-> "wait"]
  /\ job = [w \in Workers |-> None]

AllDie ==
  /\ ProcessDies
  /\ wstate' = [w \in Workers |-> "dead"]
  /\ job' = [w \in Workers |-> None]
  /\ UNCHANGED sema
-----------------------------------------------------------------------------
(* One iteration of dispatchThread by worker w.                             *)

Goes(w, from, to) ==
  /\ wstate[w] = from
  /\ wstate' = [wstate EXCEPT ![w] = to]

SemWait(w) ==
  /\ sema > 0
  /\ sema' = sema - 1
  /\ Goes(w, "wait", "accept")
  /\ UNCHANGED <<sockVars, job>>

Accept(w) ==
  /\ Goes(w, "accept", "shake")
  /\ AcceptBy(w)
  /\ job' = [job EXCEPT ![w] = Head(backlog)]
  /\ UNCHANGED sema

(* Mutant: the socket is destroyed when accept_connection() returns.        *)
AcceptReturnsClosed(w) ==
  /\ Goes(w, "shake", "read")
  /\ HandshakeOver(job[w])
  /\ holders' = [holders EXCEPT ![job[w]] = {}]
  /\ UNCHANGED <<link, prog, backlog, copies, handled, up, listening, sema, job>>

AcceptReturns(w) ==
  /\ Goes(w, "shake", "read")
  /\ HandshakeOver(job[w])
  /\ UNCHANGED <<sockVars, sema, job>>

(* SIGPIPE in SSL_accept().                                                 *)
AcceptBreaks(w) ==
  /\ wstate[w] = "shake"
  /\ HandshakeBreaks(job[w])
  /\ AllDie

Reads(w) ==
  /\ Goes(w, "read", "reply")
  /\ ReadsRequest(job[w])
  /\ UNCHANGED <<sockVars, sema, job>>

(* handle_cgi_bin() and loadableModulesHandler() fork, and wait.  The       *)
(* program gets the sockets that other workers have not yet closed, too.    *)
Forks(w) ==
  /\ Goes(w, "read", "run")
  /\ ReadsRequest(job[w])
  /\ StartProgram(w, {c \in Conns : holders[c] # {}})
  /\ UNCHANGED <<sema, job>>

ProgramEnds(w) ==
  /\ StopProgram(w, up)
  /\ UNCHANGED procVars

(* The output of a program is sent; a module has sent its answer itself.    *)
HasWaited(w) ==
  /\ Goes(w, "run", "reply") /\ ~Running(w)
  /\ UNCHANGED <<sockVars, sema, job>>

(* For want of a request, when all is sent, or when the module has ended or *)
(* was not started.  It blocks while the client does not read, and while    *)
(* the program runs, with the semaphore held.                               *)
HandleReturns(w) ==
  /\ \/ Goes(w, "read", "post") /\ ReadsNothing(job[w])
     \/ Goes(w, "read", "post") /\ ReadsRequest(job[w]) /\ ForkMayFail
     \/ Goes(w, "run", "post") /\ ~Running(w)
     \/ Goes(w, "reply", "post") /\ WriteReturns(job[w])
  /\ handled' = [handled EXCEPT ![job[w]] = @ + 1]
  /\ UNCHANGED <<link, prog, backlog, holders, copies, up, listening, sema, job>>

(* fork() fails for a program: exit(1).                                     *)
ForkFails(w) ==
  /\ ForkMayFail
  /\ wstate[w] = "read" /\ ReadsRequest(job[w])
  /\ AllDie

(* Nobody catches what handle() throws, and the process ends.               *)
Throws(w) ==
  /\ \/ wstate[w] = "read" /\ ReadFails(job[w])
     \/ wstate[w] = "reply" /\ WriteFails(job[w])
  /\ AllDie

(* Mutants: the post is lost; the descriptor is.                            *)
SemPostLost(w) ==
  /\ Goes(w, "post", "close")
  /\ UNCHANGED <<sockVars, sema, job>>

CloseForgotten(w) ==
  /\ Goes(w, "close", "wait")
  /\ job' = [job EXCEPT ![w] = None]
  /\ UNCHANGED <<sockVars, sema>>

(* Mutant: the semaphore is posted again when the socket is destroyed.      *)
ClosePosts(w) ==
  /\ Goes(w, "close", "wait")
  /\ holders' = [holders EXCEPT ![job[w]] = @ \ {w}]
  /\ job' = [job EXCEPT ![w] = None]
  /\ sema' = sema + 1
  /\ UNCHANGED <<link, prog, backlog, copies, handled, up, listening>>

SemPost(w) ==
  /\ sema' = sema + 1
  /\ Goes(w, "post", "close")
  /\ UNCHANGED <<sockVars, job>>

CloseSock(w) ==
  /\ Goes(w, "close", "wait")
  /\ holders' = [holders EXCEPT ![job[w]] = @ \ {w}]
  /\ job' = [job EXCEPT ![w] = None]
  /\ UNCHANGED <<link, prog, backlog, copies, handled, up, listening, sema>>

(* SIGINT: signal_handler() calls exit(0).                                  *)
Interrupt ==
  /\ MayStop /\ up
  /\ AllDie
-----------------------------------------------------------------------------
Worker(w) ==
  \/ SemWait(w) \/ Accept(w) \/ AcceptReturns(w) \/ AcceptBreaks(w)
  \/ Reads(w) \/ Forks(w) \/ HasWaited(w) \/ HandleReturns(w)
  \/ ForkFails(w) \/ Throws(w) \/ SemPost(w) \/ CloseSock(w)

Client(c) == ClientStep(c) /\ UNCHANGED procVars

Next ==
  \/ \E w \in Workers : Worker(w) \/ ProgramEnds(w)
  \/ Interrupt
  \/ \E c \in Conns : Client(c)

(* The workers that can run do; a prompt client goes on with its request.   *)
(* Nothing is assumed of the programs.                                      *)
Fairness ==
  /\ \A w \in Workers : WF_vars(Worker(w))
  /\ \A c \in Prompt : WF_vars((Shake(c) \/ Send(c)) /\ UNCHANGED procVars)

Spec == Init /\ [][Next]_vars

FairSpec == Spec /\ Fairness
-----------------------------------------------------------------------------
TypeOK ==
  /\ SocketsTypeOK(Workers)
  /\ sema \in 0..1
  /\ wstate \in [Workers -> WStates]
  /\ job \in [Workers -> Conns \cup {None}]

(* accept() and handle() run in one worker at a time, and the semaphore     *)
(* counts: it is 0 exactly while a worker is inside, so it is never posted  *)
(* twice and never lost, and the loop cannot stop for want of it.           *)
OneInside ==
  /\ \A v, w \in Workers : wstate[v] \in Inside /\ wstate[w] \in Inside => v = w
  /\ up => sema = IF \E w \in Workers : wstate[w] \in Inside THEN 0 ELSE 1

(* A connection is in the backlog, or in one worker's hands and not yet     *)
(* handled, or handled once.  In the server process only that worker holds  *)
(* it, also while it closes it after the semaphore was posted and others    *)
(* are inside; outside, only the program that one worker inside waits for   *)
(* may have a copy, as long as the server lives.                            *)
ServedOnce ==
  \A c \in Conns :
    /\ handled[c] <= 1
    /\ Queued(c) => handled[c] = 0 /\ holders[c] = {} /\ copies[c] = {}
    /\ holders[c] = {w \in Workers : job[w] = c}
    /\ \A v, w \in holders[c] : v = w
    /\ \A w \in holders[c] :
         wstate[w] \in {"shake", "read", "run", "reply"} => handled[c] = 0
    /\ up => \A w \in copies[c] : wstate[w] = "run" /\ w \in copies[job[w]]

(* The client of c is waited for: it has not sent its request, or it does   *)
(* not read the answer.                                                     *)
Stalling(c) ==
  \/ link[c] = "up" /\ prog[c] \notin {"sent", "garbled"}
  \/ link[c] = "deaf"

(* If no other client stalls for ever and no program runs for ever, each    *)
(* request in the backlog is handled, or the server ends; clients may hang  *)
(* up and reset as they like.                                               *)
PromptHandled ==
  /\ \A c \in Conns \ Prompt : []<>~Stalling(c)
  /\ \A w \in Workers : []<>~Running(w)
  => \A c \in Prompt : Queued(c) ~> (handled[c] = 1 \/ ~up)
-----------------------------------------------------------------------------
(* Whatever the interleaving of the workers and the clients, what happens   *)
(* to the connections is what Service allows.                               *)
ImplementsService == Svc!Spec
=============================================================================
