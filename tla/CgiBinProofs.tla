---------------------------- MODULE CgiBinProofs ----------------------------
(***************************************************************************)
(* What the run of CgiBin checks for two threads and a small pipe, proved  *)
(* for any number of threads, programs and modules and any pipe: an answer *)
(* has all that its own program wrote before the first NUL, nothing of it  *)
(* is left behind, and what dlopen() said first of a name stands.          *)
(***************************************************************************)
EXTENDS CgiBin, TLAPS

Says == {"none", "noFork", "ran", "output", "error"}
Answer == [of : Programs \cup Modules \cup {None}, bytes : Nat, says : Says]

TypeInv ==
  /\ TypeOK
  /\ begun \in [Threads -> Verdicts]
  /\ answer \in [Threads -> Answer]

(* What a thread does is right for the path it was asked for.              *)
JobInv ==
  \A t \in Threads :
    /\ pc[t] \in {"find", "open", "insert", "sym"} => job[t] \in Modules
    /\ pc[t] # "idle" /\ job[t] \in Modules => name[t] \in Names
    /\ pc[t] \in {"pipe", "close", "read"} => job[t] \in Programs
    /\ pc[t] \in {"fork", "wait"} => job[t] \in Programs \cup Modules

(* The pipe of a thread that runs no program is empty and nobody has it;   *)
(* of one that does, what was read, what is in the pipe and what is to be  *)
(* written make up the output.  A child lives only while it is waited for. *)
NoPipe(t) ==
  \/ pc[t] \in {"idle", "pipe", "find", "open", "insert", "sym"}
  \/ pc[t] \in {"fork", "wait"} /\ job[t] \in Modules

PipeOK(t) ==
  /\ NoPipe(t) => pipe[t] = 0 /\ writers[t] = {}
  /\ pc[t] # "wait" => child[t] = "none"
  /\ pc[t] \in {"pipe", "fork", "find", "open", "insert", "sym"} => got[t] = 0 /\ pipe[t] = 0
  /\ pc[t] = "wait" =>
       /\ child[t] # "running" \/ job[t] \in Modules => left[t] = 0
       /\ job[t] \in Programs => got[t] = 0 /\ pipe[t] + left[t] = Output[job[t]]
  /\ pc[t] \in {"close", "read"} => got[t] + pipe[t] = Output[job[t]]

AnswerOK(t) == answer[t].says = "output" => answer[t].bytes = Text[answer[t].of]

(* A thread whose module had a verdict when its request began finds it,    *)
(* opens nothing, and runs the module only if the verdict was good.        *)
VerdictOK(t) ==
  pc[t] # "idle" =>
    /\ job[t] \in Programs => begun[t] = "none"
    /\ job[t] \in Modules /\ begun[t] # "none" => loaded[name[t]] = begun[t]
    /\ pc[t] \in {"open", "insert"} => begun[t] = "none"
    /\ pc[t] = "sym" => begun[t] \in {"none", lib[t]}
    /\ pc[t] \in {"fork", "wait"} /\ job[t] \in Modules => begun[t] \in {"none", "lib"}

PipeInv == \A t \in Threads : PipeOK(t)
AnswerInv == \A t \in Threads : AnswerOK(t)
VerdictInv == \A t \in Threads : VerdictOK(t)

IInv == TypeInv /\ JobInv /\ PipeInv /\ AnswerInv /\ VerdictInv
-----------------------------------------------------------------------------
(* It holds at the start.                                                  *)
LEMMA Initially == Init => IInv
<1> SUFFICES ASSUME Init PROVE IInv
  OBVIOUS
<1> USE DEF Init
<1>1. TypeInv
  <2>1. Nothing \in Answer
    BY DEF Nothing, Answer, Says
  <2>2. TypeOK
    <3>1. 0 \in 0 .. PipeCap /\ 0 \in Nat
      BY CgiAssumption
    <3>2. /\ pc \in [Threads -> Steps] /\ loaded \in [Names -> Verdicts]
          /\ writers \in [Threads -> SUBSET (Threads \cup {Server})]
      BY DEF Steps, Verdicts
    <3>3. disk \in [Names -> Verdicts \ {"none"}]
      BY DEF Verdicts
    <3> QED
      BY <3>1, <3>2, <3>3 DEF TypeOK, Verdicts
  <2> QED
    BY <2>1, <2>2 DEF TypeInv, Verdicts
<1>2. JobInv /\ PipeInv /\ AnswerInv /\ VerdictInv
  BY DEF JobInv, PipeInv, PipeOK, AnswerInv, AnswerOK, VerdictInv, VerdictOK, Nothing
<1> QED
  BY <1>1, <1>2 DEF IInv

(* What is answered is an answer.                                          *)
LEMMA AnswersTyped ==
  ASSUME TypeInv, NEW t \in Threads, NEW says \in Says, NEW b \in Nat,
         AnswersWith(t, says, b)
  PROVE  answer' \in [Threads -> Answer]
<1>1. [of |-> job[t], bytes |-> b, says |-> says] \in Answer
  BY DEF TypeInv, TypeOK, Answer
<1> QED
  BY <1>1 DEF TypeInv, AnswersWith

(* Types.                                                                  *)
LEMMA TypeKept == TypeInv /\ JobInv /\ [Next]_vars => TypeInv'
<1> SUFFICES ASSUME TypeInv, JobInv, [Next]_vars PROVE TypeInv'
  OBVIOUS
<1> USE CgiAssumption DEF TypeInv, TypeOK, Steps, Verdicts, Goes, own, kids, pipes, mods
<1>1. ASSUME NEW t \in Threads, Request(t) PROVE TypeInv'
  <2>1. ASSUME NEW p \in Programs, RequestProgram(t, p) PROVE TypeInv'
    BY <1>1, <2>1 DEF Request, RequestProgram
  <2>2. ASSUME NEW m \in Modules, RequestModule(t, m) PROVE TypeInv'
    <3>1. PICK n \in Pth[m] : /\ name' = [name EXCEPT ![t] = n]
                              /\ begun' = [begun EXCEPT ![t] = loaded[n]]
      BY <2>2 DEF RequestModule
    <3>2. n \in Names
      OBVIOUS
    <3> QED
      BY <1>1, <2>2, <3>1, <3>2 DEF Request, RequestModule
  <2> QED
    BY <1>1, <2>1, <2>2 DEF Request
<1>2. ASSUME NEW t \in Threads, Thread(t) PROVE TypeInv'
  <2>1. CASE Pipe(t)
    BY <2>1 DEF Pipe
  <2>2. CASE Fork(t)
    BY <2>2 DEF Fork
  <2>3. CASE Waited(t)
    <3>1. answer' \in [Threads -> Answer]
      BY <2>3, AnswersTyped DEF Waited, Answers, Says
    <3> QED
      BY <2>3, <3>1 DEF Waited
  <2>4. CASE Closes(t)
    BY <2>4 DEF Closes
  <2>5. CASE Reads(t)
    BY <2>5 DEF Reads
  <2>6. CASE ReadsEnd(t)
    <3>1. answer' \in [Threads -> Answer]
      <4>1. job[t] \in Programs
        BY <2>6 DEF ReadsEnd, JobInv
      <4>2. UpToNul(t) \in Nat
        BY <4>1 DEF UpToNul
      <4> QED
        BY <2>6, <4>2, AnswersTyped DEF ReadsEnd, Says
    <3> QED
      BY <2>6, <3>1 DEF ReadsEnd
  <2>7. CASE Find(t)
    <3>1. name[t] \in Names
      BY <2>7 DEF Find, JobInv
    <3> QED
      BY <2>7, <3>1 DEF Find
  <2>8. CASE DlOpen(t)
    <3>1. name[t] \in Names
      BY <2>8 DEF DlOpen, JobInv
    <3> QED
      BY <2>8, <3>1 DEF DlOpen
  <2>9. CASE DlSym(t)
    <3>1. answer' \in [Threads -> Answer]
      BY <2>9, AnswersTyped DEF DlSym, Answers, Says
    <3>2. pc' \in [Threads -> Steps]
      BY <2>9 DEF DlSym
    <3> QED
      BY <2>9, <3>1, <3>2 DEF DlSym
  <2>10. CASE Insert(t)
    <3>1. answer' \in [Threads -> Answer]
      BY <2>10, AnswersTyped DEF Insert, Answers, Says
    <3>2. pc' \in [Threads -> Steps]
      BY <2>10 DEF Insert
    <3>3. loaded' \in [Names -> Verdicts]
      BY <2>10 DEF Insert, Inserted
    <3> QED
      BY <2>10, <3>1, <3>2, <3>3 DEF Insert
  <2> QED
    BY <1>2, <2>1, <2>2, <2>3, <2>4, <2>5, <2>6, <2>7, <2>8, <2>10, <2>9
       DEF Thread
<1>3. ASSUME NEW t \in Threads, ForkFails(t) PROVE TypeInv'
  <2>1. answer' \in [Threads -> Answer]
    BY <1>3, AnswersTyped DEF ForkFails, Answers, Says
  <2> QED
    BY <1>3, <2>1 DEF ForkFails
<1>4. ASSUME NEW t \in Threads, Child(t) PROVE TypeInv'
  <2>1. CASE Writes(t)
    <3>1. left[t] - 1 \in Nat /\ pipe[t] + 1 \in 0 .. PipeCap
      BY <2>1 DEF Writes
    <3> QED
      BY <2>1, <3>1 DEF Writes
  <2>2. CASE Exits(t)
    BY <2>2 DEF Exits
  <2> QED
    BY <1>4, <2>1, <2>2 DEF Child
<1>5. ASSUME NEW t \in Threads, NEW u \in Threads, Race(t, u) PROVE TypeInv'
  BY <1>5 DEF Race
<1>6. ASSUME NEW n \in Names, Install(n) PROVE TypeInv'
  BY <1>6 DEF Install
<1>7. CASE Zomb
  BY <1>7 DEF Zomb
<1>8. CASE UNCHANGED vars
  BY <1>8 DEF vars
<1> QED
  BY <1>1, <1>2, <1>3, <1>4, <1>5, <1>6, <1>7, <1>8 DEF Next

(* A thread, and its child, leave the others where they are.               *)
LEMMA OthersStay ==
  ASSUME TypeInv, JobInv, NEW t \in Threads, Thread(t) \/ ForkFails(t) \/ Child(t)
  PROVE  UNCHANGED <<job, name>> /\ \A u \in Threads \ {t} : pc'[u] = pc[u]
BY DEF TypeInv, TypeOK, JobInv, Goes, own, Thread, Pipe, Fork, Waited, Closes, Reads,
       ReadsEnd, Find, DlOpen, Insert, DlSym, ForkFails, Child, Writes, Exits

(* What is asked for and where the threads are.                            *)
LEMMA JobKept == TypeInv /\ JobInv /\ [Next]_vars => JobInv'
<1> SUFFICES ASSUME TypeInv, JobInv, [Next]_vars PROVE JobInv'
  OBVIOUS
<1> USE CgiAssumption DEF TypeInv, TypeOK, JobInv, Goes, own
<1>1. ASSUME NEW t \in Threads, Request(t) PROVE JobInv'
  <2>1. ASSUME NEW p \in Programs, RequestProgram(t, p) PROVE JobInv'
    BY <2>1 DEF RequestProgram
  <2>2. ASSUME NEW m \in Modules, RequestModule(t, m) PROVE JobInv'
    <3>1. PICK n \in Pth[m] : name' = [name EXCEPT ![t] = n]
      BY <2>2 DEF RequestModule
    <3>2. n \in Names
      OBVIOUS
    <3> QED
      BY <2>2, <3>1, <3>2 DEF RequestModule
  <2> QED
    BY <1>1, <2>1, <2>2 DEF Request
<1>2. ASSUME NEW t \in Threads, Thread(t) \/ ForkFails(t) \/ Child(t) PROVE JobInv'
  <2>1. UNCHANGED <<job, name>> /\ \A u \in Threads \ {t} : pc'[u] = pc[u]
    BY <1>2, OthersStay
  <2>2. \/ pc'[t] = pc[t] \/ pc'[t] = "idle"
        \/ pc[t] = "pipe" /\ pc'[t] = "fork"
        \/ pc[t] = "fork" /\ pc'[t] = "wait"
        \/ pc[t] = "wait" /\ pc'[t] = "close" /\ job[t] \notin Modules
        \/ pc[t] = "close" /\ pc'[t] = "read"
        \/ pc[t] \in {"find", "open", "insert", "sym"} /\ pc'[t] \in {"open", "insert", "sym", "fork"}
    <3>1. CASE Pipe(t) \/ Fork(t) \/ Closes(t) \/ ReadsEnd(t) \/ DlOpen(t)
      BY <3>1 DEF Pipe, Fork, Closes, ReadsEnd, DlOpen
    <3>2. CASE Waited(t)
      BY <3>2 DEF Waited
    <3>3. CASE Find(t)
      BY <3>3 DEF Find
    <3>4. CASE Insert(t) \/ DlSym(t)
      BY <3>4 DEF Insert, DlSym
    <3>5. CASE ForkFails(t)
      BY <3>5 DEF ForkFails
    <3>6. CASE Reads(t) \/ Child(t)
      BY <3>6 DEF Reads, Child, Writes, Exits
    <3> QED
      BY <1>2, <3>1, <3>2, <3>3, <3>4, <3>5, <3>6 DEF Thread
  <2>3. pc[t] = "idle" => pc'[t] = "idle"
    BY <2>2
  <2> QED
    BY <2>1, <2>2, <2>3
<1>3. ASSUME UNCHANGED own PROVE JobInv'
  BY <1>3
<1> QED
  BY <1>1, <1>2, <1>3 DEF Next, Race, Install, Zomb, vars

(* The pipes and the children.                                             *)
LEMMA PipeKept == TypeInv /\ JobInv /\ PipeInv /\ [Next]_vars => PipeInv'
<1> SUFFICES ASSUME TypeInv, JobInv, PipeInv, [Next]_vars, NEW u \in Threads
             PROVE  PipeOK(u)'
  BY DEF PipeInv
<1>1. PipeOK(u)
  BY DEF PipeInv
<1> USE <1>1, CgiAssumption DEF TypeInv, TypeOK, JobInv, PipeOK, NoPipe, Goes
<1>2. ASSUME NEW t \in Threads, Request(t) PROVE PipeOK(u)'
  <2>1. /\ pc[t] = "idle" /\ \E to \in {"pipe", "find"} : pc' = [pc EXCEPT ![t] = to]
        /\ job' = [job EXCEPT ![t] = job'[t]] /\ got' = [got EXCEPT ![t] = 0]
        /\ UNCHANGED <<kids, writers, pipe>>
    BY <1>2 DEF Request, RequestProgram, RequestModule
  <2> QED
    BY <2>1 DEF kids
<1>3. ASSUME NEW t \in Threads, Thread(t) PROVE PipeOK(u)'
  <2>1. CASE Pipe(t)
    <3>1. CASE u = t
      BY <2>1, <3>1 DEF Pipe, kids
    <3>2. CASE u # t
      BY <2>1, <3>2 DEF Pipe, kids
    <3> QED
      BY <3>1, <3>2
  <2>2. CASE Fork(t)
    <3>1. CASE u = t
      BY <2>2, <3>1 DEF Fork
    <3>2. CASE u # t
      BY <2>2, <3>2 DEF Fork
    <3> QED
      BY <3>1, <3>2
  <2>3. CASE Waited(t)
    <3>1. CASE u = t
      BY <2>3, <3>1 DEF Waited, pipes
    <3>2. CASE u # t
      BY <2>3, <3>2 DEF Waited, pipes
    <3> QED
      BY <3>1, <3>2
  <2>4. CASE Closes(t)
    <3>1. CASE u = t
      BY <2>4, <3>1 DEF Closes, kids
    <3>2. CASE u # t
      BY <2>4, <3>2 DEF Closes, kids
    <3> QED
      BY <3>1, <3>2
  <2>5. CASE Reads(t)
    <3>1. CASE u = t
      BY <2>5, <3>1 DEF Reads, own, kids
    <3>2. CASE u # t
      BY <2>5, <3>2 DEF Reads, own, kids
    <3> QED
      BY <3>1, <3>2
  <2>6. CASE ReadsEnd(t)
    <3>1. CASE u = t
      BY <2>6, <3>1 DEF ReadsEnd, kids, pipes
    <3>2. CASE u # t
      BY <2>6, <3>2 DEF ReadsEnd, kids, pipes
    <3> QED
      BY <3>1, <3>2
  <2>7. CASE Find(t)
    <3>1. CASE u = t
      BY <2>7, <3>1 DEF Find, kids, pipes
    <3>2. CASE u # t
      BY <2>7, <3>2 DEF Find, kids, pipes
    <3> QED
      BY <3>1, <3>2
  <2>8. CASE DlSym(t)
    <3>1. CASE u = t
      BY <2>8, <3>1 DEF DlSym, kids, pipes
    <3>2. CASE u # t
      BY <2>8, <3>2 DEF DlSym, kids, pipes
    <3> QED
      BY <3>1, <3>2
  <2>9. CASE DlOpen(t)
    <3>1. CASE u = t
      BY <2>9, <3>1 DEF DlOpen, kids, pipes
    <3>2. CASE u # t
      BY <2>9, <3>2 DEF DlOpen, kids, pipes
    <3> QED
      BY <3>1, <3>2
  <2>10. CASE Insert(t)
    <3>1. CASE u = t
      BY <2>10, <3>1 DEF Insert, kids, pipes
    <3>2. CASE u # t
      BY <2>10, <3>2 DEF Insert, kids, pipes
    <3> QED
      BY <3>1, <3>2
  <2> QED
    BY <1>3, <2>1, <2>2, <2>3, <2>4, <2>5, <2>6, <2>7, <2>9, <2>10, <2>8 DEF Thread
<1>4. ASSUME NEW t \in Threads, ForkFails(t) PROVE PipeOK(u)'
  BY <1>4 DEF ForkFails, kids, pipes
<1>5. ASSUME NEW t \in Threads, Child(t) PROVE PipeOK(u)'
  <2>1. CASE Writes(t)
    <3>1. CASE u = t
      BY <2>1, <3>1 DEF Writes, own
    <3>2. CASE u # t
      BY <2>1, <3>2 DEF Writes, own
    <3> QED
      BY <3>1, <3>2
  <2>2. CASE Exits(t)
    <3>1. CASE u = t
      BY <2>2, <3>1 DEF Exits, own
    <3>2. CASE u # t
      BY <2>2, <3>2 DEF Exits, own
    <3> QED
      BY <3>1, <3>2
  <2> QED
    BY <1>5, <2>1, <2>2 DEF Child
<1>6. CASE Zomb
  BY <1>6 DEF Zomb, own, pipes
<1>7. ASSUME UNCHANGED <<own, kids, pipes>> PROVE PipeOK(u)'
  BY <1>7 DEF own, kids, pipes
<1> QED
  BY <1>2, <1>3, <1>4, <1>5, <1>6, <1>7 DEF Next, Race, Install, vars

(* The answers.                                                            *)
LEMMA AnswerKept ==
  TypeInv /\ JobInv /\ PipeInv /\ AnswerInv /\ [Next]_vars => AnswerInv'
<1> SUFFICES ASSUME TypeInv, JobInv, PipeInv, AnswerInv, [Next]_vars, NEW u \in Threads
             PROVE  AnswerOK(u)'
  BY DEF AnswerInv
<1>1. AnswerOK(u)
  BY DEF AnswerInv
<1>2. ASSUME NEW t \in Threads, NEW says \in Says \ {"output"}, Answers(t, says)
      PROVE  AnswerOK(u)'
  BY <1>1, <1>2 DEF Answers, AnswersWith, AnswerOK, TypeInv
<1>3. ASSUME NEW t \in Threads, ReadsEnd(t) PROVE AnswerOK(u)'
  <2>1. pc[t] = "read" /\ pipe[t] = 0 /\ AnswersWith(t, "output", UpToNul(t))
    BY <1>3 DEF ReadsEnd, Goes
  <2>2. got[t] = Output[job[t]] /\ job[t] \in Programs
    BY <2>1 DEF PipeInv, PipeOK, TypeInv, TypeOK, JobInv
  <2>3. UpToNul(t) = Text[job[t]]
    BY <2>2, CgiAssumption DEF UpToNul
  <2> QED
    BY <1>1, <2>1, <2>3 DEF AnswersWith, AnswerOK, TypeInv
<1>4. ASSUME UNCHANGED answer PROVE AnswerOK(u)'
  BY <1>1, <1>4 DEF AnswerOK
<1>5. ASSUME NEW t \in Threads, Waited(t) \/ Insert(t) \/ DlSym(t) \/ ForkFails(t)
      PROVE  \/ UNCHANGED answer
             \/ \E says \in Says \ {"output"} : Answers(t, says)
  BY <1>5 DEF Waited, Insert, DlSym, ForkFails, Says
<1> QED
  BY <1>2, <1>3, <1>4, <1>5 DEF Next, Request, Thread, Pipe, Fork, Closes, Reads, Find,
     DlOpen, Child, Writes, Exits, Race, Install, Zomb, vars, Says

(* What was said of a name first.                                          *)
LEMMA VerdictKept ==
  TypeInv /\ JobInv /\ VerdictInv /\ [Next]_vars => VerdictInv'
<1> SUFFICES ASSUME TypeInv, JobInv, VerdictInv, [Next]_vars, NEW u \in Threads
             PROVE  VerdictOK(u)'
  BY DEF VerdictInv
<1>1. VerdictOK(u)
  BY DEF VerdictInv
<1> USE <1>1, CgiAssumption DEF TypeInv, TypeOK, JobInv, VerdictOK, Goes
<1>2. ASSUME NEW t \in Threads, Request(t) PROVE VerdictOK(u)'
  <2>1. UNCHANGED <<loaded, lib>>
    BY <1>2 DEF Request
  <2>2. ASSUME NEW p \in Programs, RequestProgram(t, p) PROVE VerdictOK(u)'
    BY <2>1, <2>2 DEF RequestProgram
  <2>3. ASSUME NEW m \in Modules, RequestModule(t, m) PROVE VerdictOK(u)'
    <3>1. PICK n \in Pth[m] : /\ name' = [name EXCEPT ![t] = n]
                              /\ begun' = [begun EXCEPT ![t] = loaded[n]]
      BY <2>3 DEF RequestModule
    <3> QED
      BY <2>1, <2>3, <3>1 DEF RequestModule
  <2> QED
    BY <1>2, <2>2, <2>3 DEF Request
<1>3. ASSUME NEW t \in Threads, Find(t) PROVE VerdictOK(u)'
  <2>1. pc[t] = "find" /\ job[t] \in Modules /\ name[t] \in Names
    BY <1>3 DEF Find
  <2>2. UNCHANGED <<job, name, loaded, begun>> /\ lib' = [lib EXCEPT ![t] = loaded[name[t]]]
    BY <1>3 DEF Find
  <2>3. \E to \in {"open", "sym"} :
          /\ pc' = [pc EXCEPT ![t] = to]
          /\ to = "open" => loaded[name[t]] = "none"
    BY <1>3 DEF Find
  <2>4. CASE u = t
    BY <2>1, <2>2, <2>3, <2>4
  <2>5. CASE u # t
    BY <2>2, <2>3, <2>5
  <2> QED
    BY <2>4, <2>5
<1>4. ASSUME NEW t \in Threads, Insert(t) PROVE VerdictOK(u)'
  <2>1. \A n \in Names : loaded[n] # "none" => loaded'[n] = loaded[n]
    BY <1>4 DEF Insert, Inserted
  <2>2. UNCHANGED <<job, name, lib, begun>> /\ \E to \in {"sym", "idle"} : Goes(t, "insert", to)
    BY <1>4 DEF Insert
  <2> QED
    BY <2>1, <2>2
<1>5. ASSUME NEW t \in Threads, Pipe(t) \/ Fork(t) \/ Waited(t) \/ Closes(t) \/ ReadsEnd(t)
                                \/ DlOpen(t) \/ DlSym(t) \/ ForkFails(t)
      PROVE  VerdictOK(u)'
  <2>1. UNCHANGED <<job, name, loaded, begun>> /\ \A v \in Threads \ {t} : lib'[v] = lib[v]
    BY <1>5 DEF Pipe, Fork, Waited, Closes, ReadsEnd, DlOpen, DlSym, ForkFails, mods
  <2>2. \A v \in Threads \ {t} : pc'[v] = pc[v]
    BY <1>5 DEF Pipe, Fork, Waited, Closes, ReadsEnd, DlOpen, DlSym, ForkFails
  <2>3. \/ pc'[t] = "idle"
        \/ job[t] \in Programs
        \/ pc[t] = "fork" /\ pc'[t] = "wait"
        \/ pc[t] = "open" /\ pc'[t] = "insert"
        \/ pc[t] = "sym" /\ pc'[t] = "fork" /\ lib[t] = "lib"
    BY <1>5 DEF Pipe, Fork, Waited, Closes, ReadsEnd, DlOpen, DlSym, ForkFails
  <2>4. pc[t] = "idle" => pc'[t] = "idle"
    BY <1>5 DEF Pipe, Fork, Waited, Closes, ReadsEnd, DlOpen, DlSym, ForkFails
  <2> QED
    BY <2>1, <2>2, <2>3, <2>4
<1>6. ASSUME UNCHANGED <<own, loaded, lib, begun>> PROVE VerdictOK(u)'
  BY <1>6 DEF own
<1> QED
  BY <1>2, <1>3, <1>4, <1>5, <1>6 DEF Next, Thread, Reads, Child, Writes, Exits, Race,
     Install, Zomb, mods, vars

(* Every step of a thread, of a child, of zomb() and of the server keeps   *)
(* IInv.                                                                   *)
LEMMA Inductive == IInv /\ [Next]_vars => IInv'
BY TypeKept, JobKept, PipeKept, AnswerKept, VerdictKept DEF IInv

(* What the threads, the pipes, the children and the verdicts are          *)
(* throughout.                                                             *)
THEOREM Invariance == Spec => []IInv
<1>1. Init => IInv
  BY Initially
<1>2. IInv /\ [Next]_vars => IInv'
  BY Inductive
<1> QED
  BY <1>1, <1>2, PTL DEF Spec

(* Type correctness, for any number of threads, programs and modules.      *)
THEOREM TypeCorrect == Spec => []TypeOK
<1>1. IInv => TypeOK
  BY DEF IInv, TypeInv
<1> QED
  BY <1>1, Invariance, PTL

(* An answer has all that its own program wrote before the first NUL,      *)
(* however much a pipe holds and whoever else holds its ends, and a thread *)
(* that has answered leaves no byte, descriptor or child behind.           *)
THEOREM OutputIsWhole == Spec => []OutputWhole
<1>1. IInv => OutputWhole
  BY DEF IInv, PipeInv, PipeOK, NoPipe, AnswerInv, AnswerOK, OutputWhole
<1> QED
  BY <1>1, Invariance, PTL

(* A request that ends has the outcome that its name had when it began.    *)
LEMMA VerdictHonoured == IInv /\ [Next]_vars => [VerdictStands]_vars
<1> SUFFICES ASSUME IInv, [Next]_vars, NEW t \in Threads,
                    pc[t] # "idle", pc'[t] = "idle", begun[t] # "none",
                    answer'[t].says # "noFork"
             PROVE  answer'[t].says = "ran" <=> begun[t] = "lib"
  BY DEF VerdictStands
<1> USE DEF IInv, TypeInv, TypeOK, Goes
<1>1. VerdictOK(t) /\ begun[t] \in Verdicts
  BY DEF VerdictInv
<1>2. \A says \in Says : Answers(t, says) => answer'[t].says = says
  BY DEF Answers, AnswersWith
<1>3. \/ Waited(t) \/ ReadsEnd(t) \/ DlSym(t) \/ Insert(t) \/ ForkFails(t)
  <2>1. pc'[t] # pc[t]
    OBVIOUS
  <2>2. ASSUME NEW u \in Threads, Thread(u) \/ ForkFails(u), u # t
        PROVE  FALSE
    BY <2>1, <2>2, OthersStay
  <2>3. ~(Pipe(t) \/ Fork(t) \/ Closes(t) \/ Reads(t) \/ Find(t) \/ DlOpen(t))
    BY <2>1 DEF Pipe, Fork, Closes, Reads, Find, DlOpen, own
  <2>4. ASSUME NEW u \in Threads, Request(u)
        PROVE  FALSE
    BY <2>1, <2>4 DEF Request, RequestProgram, RequestModule
  <2>5. \E u \in Threads : Thread(u) \/ ForkFails(u)
    BY <2>1, <2>4 DEF Next, Child, Writes, Exits, Race, Install, Zomb, own, vars
  <2> QED
    BY <2>2, <2>3, <2>5 DEF Thread
<1>4. CASE Waited(t)
  <2>1. job[t] \in Modules /\ Answers(t, "ran") /\ pc[t] = "wait"
    BY <1>4 DEF Waited
  <2> QED
    BY <1>1, <1>2, <2>1 DEF VerdictOK, Verdicts, Says
<1>5. CASE ReadsEnd(t)
  BY <1>1, <1>5 DEF ReadsEnd, VerdictOK, JobInv
<1>6. CASE DlSym(t)
  <2>1. pc[t] = "sym" /\ lib[t] # "lib" /\ Answers(t, "error")
    BY <1>6 DEF DlSym
  <2>2. begun[t] = lib[t]
    BY <1>1, <2>1 DEF VerdictOK
  <2> QED
    BY <1>2, <2>1, <2>2 DEF Says
<1>7. CASE Insert(t)
  BY <1>1, <1>7 DEF Insert, VerdictOK
<1>8. CASE ForkFails(t)
  BY <1>2, <1>8 DEF ForkFails, Says
<1> QED
  BY <1>3, <1>4, <1>5, <1>6, <1>7, <1>8

(* The verdict of a name, once there, stands for all later requests,       *)
(* however many threads open it at a time.                                 *)
THEOREM VerdictsAlwaysStand == Spec => VerdictsStand
<1>1. IInv /\ [Next]_vars => [VerdictStands]_vars
  BY VerdictHonoured
<1> QED
  BY <1>1, Invariance, PTL DEF Spec, VerdictsStand
=============================================================================
