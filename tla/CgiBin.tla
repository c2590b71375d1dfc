------------------------------- MODULE CgiBin -------------------------------
(***************************************************************************)
(* routes/cgi_bin.cc: requests for programs, whose output is collected      *)
(* through a pipe, and for loadable modules, which are opened once and then *)
(* run in a child.  The threads of the server share its descriptors and the *)
(* map loaded; in the other modes there is one thread that gets here.       *)
(*                                                                          *)
(* Of a descriptor only the write end of a pipe matters: every fork()       *)
(* duplicates those that are open, and there is no end of file while one    *)
(* is.  Bytes are counted, and so are those before the first NUL, which end *)
(* the answer.  op[10000] is taken to be long enough.                       *)
(*                                                                          *)
(* Nothing ends the name of a module in pth: what is looked up, opened and  *)
(* kept goes on with what the stack happens to have behind it.              *)
(***************************************************************************)
EXTENDS Integers, FiniteSets

CONSTANTS
  Threads,
  Programs,    \* paths of programs
  Output,      \* how many bytes each writes; 0 if it cannot be run
  Text,        \* how many of them come before the first NUL
  Modules,     \* paths of modules
  Names,       \* what pth may hold
  Pth,         \* what it may hold when a module is asked for
  PipeCap,     \* how many bytes a pipe holds
  Server,      \* the server itself, as the holder of a descriptor
  None,        \* nothing is being asked for
  MaxRequests  \* bound: requests

ASSUME CgiAssumption ==
  /\ Output \in [Programs -> Nat] /\ Text \in [Programs -> Nat]
  /\ \A p \in Programs : Text[p] <= Output[p]
  /\ Pth \in [Modules -> SUBSET Names]
  /\ PipeCap \in Nat \ {0} /\ MaxRequests \in Nat
  /\ Programs \cap Modules = {} /\ None \notin Programs \cup Modules
  /\ Server \notin Threads

VARIABLES
  up,       \* the server runs
  pc,       \* where each thread is
  job,      \* the path that it was asked for
  name,     \* what pth holds
  child,    \* its child: "none" (or reaped), "running" or "zombie"
  left,     \* what the child has still to write
  writers,  \* who has the write end of the thread's pipe: the server, and
            \* children, called after their threads
  pipe,     \* what is in the pipe
  got,      \* what was read from it
  sigchld,  \* SIGCHLD is pending
  loaded,   \* what loaded has of a name: "none", or what dlopen() gave
  disk,     \* what dlopen() gives: "null", a "lib", or a "bare" one, which
            \* has no httprun
  lib,      \* the lib of the thread
  begun,    \* history: the loaded of its name when its request began
  answer,   \* history: what it answered last
  requests  \* history: the number of requests

own == <<pc, job, name>>
kids == <<child, left, sigchld>>
pipes == <<writers, pipe, got>>
mods == <<loaded, disk, lib, begun>>
vars == <<up, own, kids, pipes, mods, answer, requests>>

Nothing == [of |-> None, bytes |-> 0, says |-> "none"]

Init ==
  /\ up = TRUE
  /\ pc = [t \in Threads |-> "idle"]
  /\ job = [t \in Threads |-> None] /\ name = [t \in Threads |-> None]
  /\ child = [t \in Threads |-> "none"] /\ left = [t \in Threads |-> 0]
  /\ writers = [t \in Threads |-> {}]
  /\ pipe = [t \in Threads |-> 0] /\ got = [t \in Threads |-> 0]
  /\ sigchld = FALSE
  /\ loaded = [n \in Names |-> "none"]
  /\ disk \in [Names -> {"null", "lib", "bare"}]
  /\ lib = [t \in Threads |-> "none"] /\ begun = [t \in Threads |-> "none"]
  /\ answer = [t \in Threads |-> Nothing]
  /\ requests = 0
-----------------------------------------------------------------------------
Goes(t, from, to) == up /\ pc[t] = from /\ pc' = [pc EXCEPT ![t] = to]

AnswersWith(t, says, bytes) ==
  answer' = [answer EXCEPT ![t] = [of |-> job[t], bytes |-> bytes, says |-> says]]

Answers(t, says) == AnswersWith(t, says, 0)

(* handle_cgi_bin is called: ".so" in the path makes it a module.           *)
RequestProgram(t, p) ==
  /\ Goes(t, "idle", "pipe")
  /\ job' = [job EXCEPT ![t] = p]
  /\ name' = [name EXCEPT ![t] = None] /\ begun' = [begun EXCEPT ![t] = "none"]

RequestModule(t, m) ==
  /\ Goes(t, "idle", "find")
  /\ job' = [job EXCEPT ![t] = m]
  /\ \E n \in Pth[m] : /\ name' = [name EXCEPT ![t] = n]
                       /\ begun' = [begun EXCEPT ![t] = loaded[n]]

Request(t) ==
  /\ requests < MaxRequests /\ requests' = requests + 1
  /\ \/ \E p \in Programs : RequestProgram(t, p)
     \/ \E m \in Modules : RequestModule(t, m)
  /\ got' = [got EXCEPT ![t] = 0]
  /\ UNCHANGED <<up, kids, writers, pipe, loaded, disk, lib, answer>>

Pipe(t) ==
  /\ Goes(t, "pipe", "fork")
  /\ writers' = [writers EXCEPT ![t] = {Server}]
  /\ UNCHANGED <<up, job, name, kids, pipe, got, mods, answer, requests>>

(* The child keeps every write end: its own as its output, the others       *)
(* because nothing closes them.                                             *)
Fork(t) ==
  /\ Goes(t, "fork", "wait")
  /\ child' = [child EXCEPT ![t] = "running"]
  /\ left' = [left EXCEPT ![t] = IF job[t] \in Programs THEN Output[job[t]] ELSE 0]
  /\ writers' = [u \in Threads |-> IF Server \in writers[u] THEN writers[u] \cup {t}
                                   ELSE writers[u]]
  /\ UNCHANGED <<up, job, name, sigchld, pipe, got, mods, answer, requests>>

(* fork() fails: the end of the request if it is for a module, of the       *)
(* server if it is for a program.                                           *)
ForkFails(t) ==
  /\ IF job[t] \in Modules
     THEN Goes(t, "fork", "idle") /\ Answers(t, "noFork") /\ UNCHANGED up
     ELSE up /\ pc[t] = "fork" /\ up' = FALSE /\ UNCHANGED <<pc, answer>>
  /\ UNCHANGED <<job, name, kids, pipes, mods, requests>>

(* waitpid() returns: the child is reaped, or zomb() has reaped it.         *)
Waited(t) ==
  /\ child[t] # "running"
  /\ child' = [child EXCEPT ![t] = "none"]
  /\ IF job[t] \in Modules
     THEN Goes(t, "wait", "idle") /\ Answers(t, "ran")
     ELSE Goes(t, "wait", "close") /\ UNCHANGED answer
  /\ UNCHANGED <<up, job, name, left, sigchld, pipes, mods, requests>>

(* Mutant: the write end stays open.                                        *)
ClosesNothing(t) ==
  /\ Goes(t, "close", "read")
  /\ UNCHANGED <<up, job, name, kids, pipes, mods, answer, requests>>

Closes(t) ==
  /\ Goes(t, "close", "read")
  /\ writers' = [writers EXCEPT ![t] = @ \ {Server}]
  /\ UNCHANGED <<up, job, name, kids, pipe, got, mods, answer, requests>>

Reads(t) ==
  /\ up /\ pc[t] = "read" /\ pipe[t] > 0
  /\ pipe' = [pipe EXCEPT ![t] = @ - 1]
  /\ got' = [got EXCEPT ![t] = @ + 1]
  /\ UNCHANGED <<up, own, kids, writers, mods, answer, requests>>

(* return std::string(op)                                                   *)
UpToNul(t) == IF got[t] < Text[job[t]] THEN got[t] ELSE Text[job[t]]

(* Mutant: an empty pipe is taken for its end.                              *)
ReadsTillEmpty(t) ==
  /\ pipe[t] = 0
  /\ Goes(t, "read", "idle")
  /\ AnswersWith(t, "output", UpToNul(t))
  /\ UNCHANGED <<up, job, name, kids, pipes, mods, requests>>

ReadsEnd(t) ==
  /\ pipe[t] = 0 /\ writers[t] = {}
  /\ Goes(t, "read", "idle")
  /\ AnswersWith(t, "output", UpToNul(t))
  /\ UNCHANGED <<up, job, name, kids, pipes, mods, requests>>
-----------------------------------------------------------------------------
(* loadableModulesHandler.  A NULL that was kept is not asked for again.    *)
Find(t) ==
  /\ pc[t] = "find"
  /\ lib' = [lib EXCEPT ![t] = loaded[name[t]]]
  /\ Goes(t, "find", IF loaded[name[t]] = "none" THEN "open" ELSE "sym")
  /\ UNCHANGED <<up, job, name, kids, pipes, loaded, disk, begun, answer, requests>>

DlOpen(t) ==
  /\ Goes(t, "open", "insert")
  /\ lib' = [lib EXCEPT ![t] = disk[name[t]]]
  /\ UNCHANGED <<up, job, name, kids, pipes, loaded, disk, begun, answer, requests>>

(* Mutant: loaded[pth] = lib.                                               *)
Overwritten(n, l) == [loaded EXCEPT ![n] = l]

(* std::map::insert does nothing if the name is there already.              *)
Inserted(n, l) == IF loaded[n] = "none" THEN [loaded EXCEPT ![n] = l] ELSE loaded

Insert(t) ==
  /\ pc[t] = "insert"
  /\ loaded' = Inserted(name[t], lib[t])
  /\ IF lib[t] = "null"
     THEN Goes(t, "insert", "idle") /\ Answers(t, "error")
     ELSE Goes(t, "insert", "sym") /\ UNCHANGED answer
  /\ UNCHANGED <<up, job, name, kids, pipes, disk, lib, begun, requests>>

(* dlsym() finds no httprun in a bare library, and none with NULL.          *)
DlSym(t) ==
  /\ IF lib[t] = "lib" THEN Goes(t, "sym", "fork") /\ UNCHANGED answer
     ELSE Goes(t, "sym", "idle") /\ Answers(t, "error")
  /\ UNCHANGED <<up, job, name, kids, pipes, mods, requests>>

(* A thread that inserts while another searches or inserts: undefined.  If  *)
(* it does not go well the server crashes.                                  *)
Race(t, u) ==
  /\ up /\ t # u /\ pc[t] = "insert" /\ pc[u] \in {"find", "insert"}
  /\ up' = FALSE
  /\ UNCHANGED <<own, kids, pipes, mods, answer, requests>>

(* Somebody installs a module.                                              *)
Install(n) ==
  /\ disk[n] = "null" /\ disk' = [disk EXCEPT ![n] = "lib"]
  /\ UNCHANGED <<up, own, kids, pipes, loaded, lib, begun, answer, requests>>
-----------------------------------------------------------------------------
(* The child of t, program or module, writes to its pipe; a module writes   *)
(* to the socket.                                                           *)
Writes(t) ==
  /\ child[t] = "running" /\ left[t] > 0 /\ pipe[t] < PipeCap
  /\ left' = [left EXCEPT ![t] = @ - 1]
  /\ pipe' = [pipe EXCEPT ![t] = @ + 1]
  /\ UNCHANGED <<up, own, child, sigchld, writers, got, mods, answer, requests>>

Exits(t) ==
  /\ child[t] = "running" /\ left[t] = 0
  /\ child' = [child EXCEPT ![t] = "zombie"]
  /\ writers' = [u \in Threads |-> writers[u] \ {t}]
  /\ sigchld' = TRUE
  /\ UNCHANGED <<up, own, left, pipe, got, mods, answer, requests>>

(* zomb(): reaps all there are, whoever waits for them.                     *)
Zomb ==
  /\ up /\ sigchld
  /\ sigchld' = FALSE
  /\ child' = [t \in Threads |-> IF child[t] = "zombie" THEN "none" ELSE child[t]]
  /\ UNCHANGED <<up, own, left, pipes, mods, answer, requests>>

Thread(t) ==
  \/ Pipe(t) \/ Fork(t) \/ Waited(t) \/ Closes(t) \/ Reads(t) \/ ReadsEnd(t)
  \/ Find(t) \/ DlOpen(t) \/ Insert(t) \/ DlSym(t)

Child(t) == Writes(t) \/ Exits(t)

Next ==
  \/ \E t \in Threads : Request(t) \/ Thread(t) \/ ForkFails(t) \/ Child(t)
  \/ \E t, u \in Threads : Race(t, u)
  \/ \E n \in Names : Install(n)
  \/ Zomb

Spec == Init /\ [][Next]_vars

(* The server's threads run, and so do the programs, which end once they    *)
(* have written what they have to.                                          *)
FairSpec ==
  /\ Spec /\ WF_vars(Zomb)
  /\ \A t \in Threads : WF_vars(Thread(t)) /\ WF_vars(Child(t))
-----------------------------------------------------------------------------
Verdicts == {"none", "null", "lib", "bare"}
Steps == {"idle", "pipe", "fork", "wait", "close", "read", "find", "open", "insert", "sym"}

TypeOK ==
  /\ up \in BOOLEAN /\ sigchld \in BOOLEAN
  /\ pc \in [Threads -> Steps]
  /\ job \in [Threads -> Programs \cup Modules \cup {None}]
  /\ child \in [Threads -> {"none", "running", "zombie"}]
  /\ left \in [Threads -> Nat] /\ got \in [Threads -> Nat]
  /\ pipe \in [Threads -> 0 .. PipeCap]
  /\ writers \in [Threads -> SUBSET (Threads \cup {Server})]
  /\ name \in [Threads -> Names \cup {None}]
  /\ loaded \in [Names -> Verdicts] /\ disk \in [Names -> Verdicts \ {"none"}]
  /\ lib \in [Threads -> Verdicts]

(* Its child, or one that inherited the write end of its pipe, writes more  *)
(* than a pipe holds.  Nobody reads until the child has ended.              *)
Stuck(t) ==
  \E u \in writers[t] \cup {t} :
    u # Server /\ child[u] = "running" /\ job[u] \in Programs /\ Output[job[u]] > PipeCap

(* Each request is answered, unless a program writes more than a pipe       *)
(* holds: its own, or one that was started between the pipe() and the       *)
(* close() of this request.  No other program, and no zomb() that reaps the *)
(* child first, keeps it waiting.  (handle_cgi_bin)                         *)
AnsweredUnlessStuck ==
  \A t \in Threads : pc[t] # "idle" ~> (pc[t] = "idle" \/ Stuck(t) \/ ~up)

(* An answer has all that its own program wrote before the first NUL, and   *)
(* no byte, descriptor or zombie of it is left in the server for the next   *)
(* request of the thread.                                                   *)
OutputWhole ==
  \A t \in Threads :
    /\ answer[t].says = "output" => answer[t].bytes = Text[answer[t].of]
    /\ pc[t] = "idle" => pipe[t] = 0 /\ writers[t] = {} /\ child[t] = "none"

(* What was found under a name when it was first opened is kept: requests   *)
(* that begin later and have that name in pth have the same outcome,        *)
(* although threads may open it at the same time with different results.    *)
(* (loadableModulesHandler)                                                 *)
VerdictStands ==
  \A t \in Threads :
    pc[t] # "idle" /\ pc'[t] = "idle" /\ begun[t] # "none" /\ answer'[t].says # "noFork" =>
      (answer'[t].says = "ran" <=> begun[t] = "lib")

VerdictsStand == [][VerdictStands]_vars
=============================================================================
