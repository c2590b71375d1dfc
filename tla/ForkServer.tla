---------------------------- MODULE ForkServer ----------------------------
(***************************************************************************)
(* myhttpd -f: Server::run_fork and the SIGCHLD handler of main.cc.  The   *)
(* parent accepts, forks a child for the connection and closes its own     *)
(* descriptor; the child handles the connection and _exits; the handler    *)
(* reaps.  A fork duplicates every descriptor the parent has open, so that *)
(* each child has the listening socket too, and the handlers stay.         *)
(***************************************************************************)
EXTENDS Sockets

CONSTANTS
  Main,   \* the parent process
  Pids,   \* the children that may exist at once: the process limit
  None,   \* no connection
  Sigint, \* the processes SIGINT may reach: for ctrl-C, the whole group
  ForkMayFail \* TRUE if fork() may fail in a child's handle()

ASSUME ForkAssumption ==
  /\ Main \notin Pids
  /\ None \notin Conns
  /\ Sigint \subseteq Pids \cup {Main}
  /\ ForkMayFail \in BOOLEAN

VARIABLES
  pc,       \* the parent: in accept, in SSL_accept, at fork, or closing
  cur,      \* the connection in the parent's local variable sock
  pstate,   \* pstate[p]: no such process, where it is in handle(), or a zombie
  job,      \* job[p]: the connection p was forked for
  sigchld,  \* SIGCHLD is pending for the parent (one bit: signals coalesce)
  hnd       \* the handler: not running, in its loop, or past its loop

vars == <<sockVars, pc, cur, pstate, job, sigchld, hnd>>
procVars == <<pc, cur, pstate, job, sigchld, hnd>>

Active == {"read", "run", "reply", "exit"}
Alive(p) == pstate[p] \in Active

Init ==
  /\ SocketsInit
  /\ pc = "accept" /\ cur = None
  /\ pstate = [p \in Pids |-> "free"]
  /\ job = [p \in Pids |-> None]
  /\ sigchld = FALSE /\ hnd = "off"
-----------------------------------------------------------------------------
(* The parent.  It makes no step of its own while its handler runs.        *)

Accept ==
  /\ up /\ hnd = "off" /\ pc = "accept"
  /\ AcceptBy(Main)
  /\ cur' = Head(backlog)
  /\ pc' = "shake"
  /\ UNCHANGED <<pstate, job, sigchld, hnd>>

AcceptReturns ==
  /\ up /\ hnd = "off" /\ pc = "shake"
  /\ HandshakeOver(cur)
  /\ pc' = "fork"
  /\ UNCHANGED <<sockVars, cur, pstate, job, sigchld, hnd>>

(* Mutants: a second fork() for the connection; no close() in the parent;  *)
(* shutdown() in place of close(), which ends the child's connection too.  *)
ForkTwice(p) ==
  /\ up /\ hnd = "off" /\ pc = "fork" /\ pstate[p] = "free"
  /\ pstate' = [pstate EXCEPT ![p] = "read"]
  /\ job' = [job EXCEPT ![p] = cur]
  /\ holders' = [holders EXCEPT ![cur] = @ \cup {p}]
  /\ pc' \in {"fork", "close"}
  /\ UNCHANGED <<link, prog, backlog, copies, handled, up, listening, cur, sigchld, hnd>>

CloseForgotten ==
  /\ up /\ hnd = "off" /\ pc = "close"
  /\ pc' = "accept" /\ cur' = None
  /\ UNCHANGED <<sockVars, pstate, job, sigchld, hnd>>

CloseByShutdown ==
  /\ up /\ hnd = "off" /\ pc = "close"
  /\ holders' = [holders EXCEPT ![cur] = {}]
  /\ pc' = "accept" /\ cur' = None
  /\ UNCHANGED <<link, prog, backlog, copies, handled, up, listening, pstate, job, sigchld, hnd>>

Fork(p) ==
  /\ up /\ hnd = "off" /\ pc = "fork"
  /\ pstate[p] = "free" /\ ~Running(p)
  /\ pstate' = [pstate EXCEPT ![p] = "read"]
  /\ job' = [job EXCEPT ![p] = cur]
  /\ holders' = [c \in Conns |-> IF Main \in holders[c]
                                 THEN holders[c] \cup {p} ELSE holders[c]]
  /\ pc' = "close"
  /\ UNCHANGED <<link, prog, backlog, copies, handled, up, listening, cur, sigchld, hnd>>

(* fork() returns -1: perror, and the connection is dropped.               *)
ForkFails ==
  /\ up /\ hnd = "off" /\ pc = "fork"
  /\ \A p \in Pids : pstate[p] # "free" \/ Running(p)
  /\ pc' = "close"
  /\ UNCHANGED <<sockVars, cur, pstate, job, sigchld, hnd>>

(* The end of the iteration destroys the unique_ptr sock: ~TCPSocket.      *)
CloseSock ==
  /\ up /\ hnd = "off" /\ pc = "close"
  /\ holders' = [holders EXCEPT ![cur] = @ \ {Main}]
  /\ pc' = "accept" /\ cur' = None
  /\ UNCHANGED <<link, prog, backlog, copies, handled, up, listening, pstate, job, sigchld, hnd>>

(* The parent's end.  Its zombies pass to init; its children go on, and    *)
(* keep the listening socket.                                              *)
ParentDies ==
  /\ up' = FALSE
  /\ Listens(Programs # {} \/ \E p \in Pids : Alive(p))
  /\ holders' = [c \in Conns |-> holders[c] \ {Main}]
  /\ pstate' = [p \in Pids |-> IF pstate[p] = "zombie" THEN "free" ELSE pstate[p]]
  /\ UNCHANGED <<link, prog, copies, handled>>

(* SIGPIPE in SSL_accept().                                                *)
AcceptBreaks ==
  /\ up /\ hnd = "off" /\ pc = "shake"
  /\ HandshakeBreaks(cur)
  /\ ParentDies
  /\ UNCHANGED <<pc, cur, job, sigchld, hnd>>

(* SIGINT: signal_handler() calls exit(0), wherever the parent is.         *)
Interrupt ==
  /\ Main \in Sigint /\ up
  /\ ParentDies
  /\ UNCHANGED <<pc, cur, job, sigchld, hnd>>
-----------------------------------------------------------------------------
(* A child: handle(sock), then _exit(0), or death in handle().  It may     *)
(* fork in its turn, a program or a module, and waits for that.            *)

Returns(p) ==
  /\ pstate' = [pstate EXCEPT ![p] = "exit"]
  /\ handled' = [handled EXCEPT ![job[p]] = @ + 1]
  /\ UNCHANGED <<link, prog, backlog, holders, copies, up, listening>>
  /\ UNCHANGED <<pc, cur, job, sigchld, hnd>>

(* Mutant: the child goes on where the parent was.                         *)
ReadsInLoop(p) ==
  /\ pstate[p] = "read" /\ ReadsRequest(job[p])
  /\ pstate' = [pstate EXCEPT ![p] = pc]
  /\ UNCHANGED <<sockVars, pc, cur, job, sigchld, hnd>>

ChildReads(p) ==
  /\ pstate[p] = "read" /\ ReadsRequest(job[p])
  /\ pstate' = [pstate EXCEPT ![p] = "reply"]
  /\ UNCHANGED <<sockVars, pc, cur, job, sigchld, hnd>>

ChildReadsNothing(p) ==
  /\ pstate[p] = "read" /\ ReadsNothing(job[p])
  /\ Returns(p)

(* handle_cgi_bin() and loadableModulesHandler(): fork() and waitpid().    *)
ChildForks(p) ==
  /\ pstate[p] = "read" /\ ReadsRequest(job[p])
  /\ pstate' = [pstate EXCEPT ![p] = "run"]
  /\ StartProgram(p, {c \in Conns : p \in holders[c]})
  /\ UNCHANGED <<pc, cur, job, sigchld, hnd>>

ProgramEnds(p) ==
  /\ StopProgram(p, up \/ \E q \in Pids : Alive(q))
  /\ UNCHANGED procVars

(* Mutant: waitpid() is repeated until it succeeds, but zomb(), which the  *)
(* child has inherited, has reaped the program.                            *)
WaitsAgain(p) ==
  /\ pstate[p] = "run" /\ ~Running(p)
  /\ UNCHANGED vars

(* The output of a program is sent; a module has sent its answer itself.   *)
ChildHasWaited(p) ==
  /\ pstate[p] = "run" /\ ~Running(p)
  /\ \/ /\ pstate' = [pstate EXCEPT ![p] = "reply"]
        /\ UNCHANGED <<sockVars, pc, cur, job, sigchld, hnd>>
     \/ Returns(p)

ChildReplies(p) ==
  /\ pstate[p] = "reply" /\ WriteReturns(job[p])
  /\ Returns(p)

Dies(p) ==
  /\ pstate' = [pstate EXCEPT ![p] = IF up THEN "zombie" ELSE "free"]
  /\ job' = [job EXCEPT ![p] = None]
  /\ holders' = [c \in Conns |-> holders[c] \ {p}]
  /\ sigchld' = up
  /\ Listens(up \/ Programs # {} \/ \E q \in Pids \ {p} : Alive(q))
  /\ UNCHANGED <<link, prog, copies, handled, up, pc, cur, hnd>>

ChildExits(p) ==
  /\ pstate[p] = "exit"
  /\ Dies(p)

(* An uncaught ConnectionError, SIGPIPE or a fault: only the child dies.   *)
ChildCrashes(p) ==
  /\ \/ pstate[p] = "read" /\ ReadFails(job[p])
     \/ pstate[p] = "reply" /\ WriteFails(job[p])
  /\ Dies(p)

(* fork() fails in handle(): exit(1) for a program, no answer for a module.*)
ChildForkFails(p) ==
  /\ ForkMayFail
  /\ pstate[p] = "read" /\ ReadsRequest(job[p])
  /\ Dies(p) \/ Returns(p)

(* The child has inherited signal_handler().                               *)
ChildInterrupt(p) ==
  /\ p \in Sigint /\ Alive(p)
  /\ Dies(p)
-----------------------------------------------------------------------------
(* SIGCHLD in the parent: zomb().                                          *)

(* Mutants: a handler that does not wait; "if" in place of "while".        *)
DeliverOnly ==
  /\ up /\ sigchld /\ hnd = "off"
  /\ sigchld' = FALSE /\ hnd' = "end"
  /\ UNCHANGED <<sockVars, pc, cur, pstate, job>>

ReapOne(p) ==
  /\ up /\ hnd = "reap" /\ pstate[p] = "zombie"
  /\ pstate' = [pstate EXCEPT ![p] = "free"]
  /\ hnd' = "end"
  /\ UNCHANGED <<sockVars, pc, cur, job, sigchld>>

Deliver ==
  /\ up /\ sigchld /\ hnd = "off"
  /\ sigchld' = FALSE /\ hnd' = "reap"
  /\ UNCHANGED <<sockVars, pc, cur, pstate, job>>

Reap(p) ==
  /\ up /\ hnd = "reap" /\ pstate[p] = "zombie"
  /\ pstate' = [pstate EXCEPT ![p] = "free"]
  /\ UNCHANGED <<sockVars, pc, cur, job, sigchld, hnd>>

(* waitpid(-1, NULL, WNOHANG) finds no zombie.                             *)
ReapEnds ==
  /\ up /\ hnd = "reap" /\ \A p \in Pids : pstate[p] # "zombie"
  /\ hnd' = "end"
  /\ UNCHANGED <<sockVars, pc, cur, pstate, job, sigchld>>

(* Mutant: sa_flags without SA_RESTART.                                    *)
RestartsNothing == FALSE

(* The accept() that was interrupted resumes if the handler was installed  *)
(* with SA_RESTART; otherwise it fails with EINTR, and accept_connection() *)
(* throws or exits.                                                        *)
RestartsCalls == TRUE

HandlerReturns ==
  /\ up /\ hnd = "end" /\ hnd' = "off"
  /\ IF RestartsCalls \/ pc # "accept" \/ backlog # <<>>
     THEN UNCHANGED <<sockVars, pstate>>
     ELSE ParentDies
  /\ UNCHANGED <<pc, cur, job, sigchld>>
-----------------------------------------------------------------------------
Parent ==
  \/ Accept \/ AcceptReturns \/ AcceptBreaks
  \/ (\E p \in Pids : Fork(p)) \/ ForkFails \/ CloseSock

Child(p) ==
  \/ ChildReads(p) \/ ChildReadsNothing(p) \/ ChildReplies(p)
  \/ ChildForks(p) \/ ChildHasWaited(p) \/ ChildForkFails(p)
  \/ ChildExits(p) \/ ChildCrashes(p)

Handler == Deliver \/ (\E p \in Pids : Reap(p)) \/ ReapEnds \/ HandlerReturns

Client(c) == ClientStep(c) /\ UNCHANGED procVars

Next ==
  \/ Parent
  \/ \E p \in Pids : Child(p) \/ ProgramEnds(p) \/ ChildInterrupt(p)
  \/ Handler
  \/ Interrupt
  \/ \E c \in Conns : Client(c)

(* The kernel schedules every process that can run and delivers pending    *)
(* signals; a prompt client goes on with its request.  Nothing is assumed  *)
(* of the other clients, nor of the programs.                              *)
Fairness ==
  /\ WF_vars(Parent)
  /\ WF_vars(Handler)
  /\ \A p \in Pids : WF_vars(Child(p))
  /\ \A c \in Prompt : WF_vars((Shake(c) \/ Send(c)) /\ UNCHANGED procVars)

Spec == Init /\ [][Next]_vars

FairSpec == Spec /\ Fairness
-----------------------------------------------------------------------------
TypeOK ==
  /\ SocketsTypeOK(Pids \cup {Main})
  /\ pc \in {"accept", "shake", "fork", "close"}
  /\ cur \in Conns \cup {None}
  /\ pstate \in [Pids -> Active \cup {"free", "zombie"}]
  /\ job \in [Pids -> Conns \cup {None}]
  /\ sigchld \in BOOLEAN
  /\ hnd \in {"off", "reap", "end"}

(* Handling(p, c): p is in handle() for c.                                 *)
Handling(p, c) == pstate[p] \in {"read", "run", "reply"} /\ job[p] = c

(* Offered(c): the parent has accepted c and not yet called fork() for it. *)
Offered(c) == up /\ cur = c /\ pc \in {"shake", "fork"}

(* A child that died is never forgotten: while the parent lives, a zombie  *)
(* has a SIGCHLD pending or the handler is in its loop, although signals   *)
(* coalesce and a child may die after the loop's last waitpid().           *)
NoLostZombie ==
  (\E p \in Pids : pstate[p] = "zombie") => sigchld \/ hnd = "reap"

(* A connection is in the backlog, or offered to fork(), or handled by one *)
(* child, or its handle() has returned, and never in two of these: run_fork*)
(* does not lose the connection to the parent's next iteration and no two  *)
(* children read from it.                                                  *)
ServedOnce ==
  \A c \in Conns :
    /\ handled[c] <= 1
    /\ \A p, q \in Pids : Handling(p, c) /\ Handling(q, c) => p = q
    /\ \A p \in Pids : Handling(p, c) => handled[c] = 0 /\ ~Offered(c) /\ ~Queued(c)
    /\ Offered(c) => handled[c] = 0 /\ ~Queued(c)
    /\ Queued(c) => handled[c] = 0

(* No process keeps a connection it does not work on, although fork()      *)
(* duplicates every descriptor: besides the parent, in the iteration that  *)
(* accepted it, only the child of a connection has it open, and the        *)
(* program of a child has that connection and no other.  So the client     *)
(* sees the end of the stream as soon as these are done with it.           *)
OwnDescriptorsOnly ==
  \A c \in Conns :
    /\ holders[c] = {p \in Pids : Alive(p) /\ job[p] = c}
                       \cup (IF up /\ cur = c THEN {Main} ELSE {})
    /\ \A p \in copies[c] :
         /\ \A d \in Conns : p \in copies[d] => d = c
         /\ Alive(p) => job[p] = c /\ pstate[p] = "run"

(* The parent ends in two ways and no other: by SIGINT, and in the         *)
(* handshake of a client that has reset, which sends it SIGPIPE.  Nothing  *)
(* a child meets ends it, nor the SIGCHLD that interrupts its accept().    *)
ParentSurvives ==
  [][up /\ ~up' => \/ Main \in Sigint
                  \/ (Https /\ pc = "shake" /\ link[cur] = "reset")]_vars

(* Every child that has died is reaped, or passes to init.                 *)
ZombiesReaped == \A p \in Pids : pstate[p] = "zombie" ~> pstate[p] # "zombie"

(* A client that sends its request and waits sees the end of the stream,   *)
(* whatever the other clients do or fail to do, provided the program that  *)
(* answers it, if any, ends; and unless the parent ends before accept()    *)
(* returned the connection, which then stays open for as long as any child *)
(* or program has the listening socket.                                    *)
PromptClosed ==
  \A c \in Prompt :
    []<>(copies[c] = {}) => (Queued(c) ~> Closed(c) \/ (~up /\ Queued(c)))

(* Once it has a child that SIGINT does not reach, a prompt client's       *)
(* connection is handled, even if SIGINT ends the parent and the other     *)
(* children; again its program must end, and fork() not fail.              *)
ChildrenFinish ==
  \A c \in Prompt :
    ~ForkMayFail /\ []<>(copies[c] = {}) =>
      ((\E p \in Pids \ Sigint : Handling(p, c)) ~> handled[c] = 1)
-----------------------------------------------------------------------------
(* Whatever the interleaving of parent, children, handler and clients,     *)
(* what happens to the connections is what Service allows.                 *)
ImplementsService == Svc!Spec
=============================================================================
