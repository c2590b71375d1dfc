------------------------------ MODULE Sockets ------------------------------
(***************************************************************************)
(* The connections of a GETweb server: what a client may do to its end of  *)
(* a connection, and what the server's accept, recv, send and close find   *)
(* at the other end (src/tcp.cc, src/tls.cc).  ForkServer, ThreadServer    *)
(* and PoolServer extend this module with the processes or threads that    *)
(* make those calls, and with what handle() forks: a program or a module   *)
(* (src/routes/cgi_bin.cc), which starts with a copy of every descriptor   *)
(* of the process that forked it, the listening socket and the other       *)
(* connections included; none of them is close-on-exec.                    *)
(*                                                                         *)
(* Bytes are abstracted to how far a client got: nothing, the TLS          *)
(* handshake, a request that handle() can parse, or one it cannot.         *)
(***************************************************************************)
EXTENDS Naturals, Sequences, Functions

CONSTANTS
  Conns,    \* connections; one that has ended may be opened again
  Prompt,   \* those whose client sends a whole request and then waits
  Faulty,   \* those whose client may reset, or send what handle() cannot parse
  Https,    \* TRUE for -s: TLSSocketAcceptor instead of TCPSocketAcceptor
  ListenQ   \* the argument of listen(): 50 in tcp.cc, 1 in tls.cc

ASSUME SocketsAssumption ==
  /\ Prompt \subseteq Conns
  /\ Faulty \subseteq Conns \ Prompt
  /\ Https \in BOOLEAN
  /\ ListenQ \in Nat \ {0}

VARIABLES
  link,     \* link[c]: the client's end of c
  prog,     \* prog[c]: how much the client has sent on c
  backlog,  \* established connections that no accept() has returned yet
  holders,  \* holders[c]: the processes or threads with an open descriptor of c
  copies,   \* copies[c]: those of them whose program has a copy of it
  handled,  \* handled[c]: the number of handle() calls that returned for c
  up,       \* the process that accepts is alive
  listening \* some process has the listening socket open

sockVars == <<link, prog, backlog, holders, copies, handled, up, listening>>

(* "deaf": the client does not read, and the buffers between are full.     *)
Links == {"none", "up", "deaf", "eof", "reset"}
Progress == {"new", "shaken", "sent", "garbled"}

SocketsInit ==
  /\ link = [c \in Conns |-> "none"]
  /\ prog = [c \in Conns |-> "new"]
  /\ backlog = <<>>
  /\ holders = [c \in Conns |-> {}]
  /\ copies = [c \in Conns |-> {}]
  /\ handled = [c \in Conns |-> 0]
  /\ up = TRUE /\ listening = TRUE

Queued(c) == c \in Range(backlog)

(* The server has closed c: accept() returned it and nobody has it open.   *)
Closed(c) ==
  link[c] # "none" /\ ~Queued(c) /\ holders[c] = {} /\ copies[c] = {}

(* The program that p has forked in handle() is still there.  It has a     *)
(* copy of the connection p was handling, at least.                        *)
Programs == UNION Range(copies)
Running(p) == p \in Programs
-----------------------------------------------------------------------------
(* The clients. *)

Connect(c) ==
  /\ listening /\ link[c] = "none" /\ Len(backlog) < ListenQ
  /\ link' = [link EXCEPT ![c] = "up"]
  /\ backlog' = Append(backlog, c)
  /\ UNCHANGED <<prog, holders, copies, handled, up, listening>>

Shake(c) ==
  /\ Https /\ link[c] = "up" /\ prog[c] = "new"
  /\ prog' = [prog EXCEPT ![c] = "shaken"]
  /\ UNCHANGED <<link, backlog, holders, copies, handled, up, listening>>

Send(c) ==
  /\ link[c] = "up" /\ prog[c] = (IF Https THEN "shaken" ELSE "new")
  /\ \/ prog' = [prog EXCEPT ![c] = "sent"]
     \/ c \in Faulty /\ prog' = [prog EXCEPT ![c] = "garbled"]
  /\ UNCHANGED <<link, backlog, holders, copies, handled, up, listening>>

(* A client that has sent its request does not read the answer; perhaps it *)
(* does later, until the end of the stream.                                *)
StopsReading(c) ==
  /\ c \notin Prompt /\ link[c] = "up" /\ prog[c] \in {"sent", "garbled"}
  /\ link' = [link EXCEPT ![c] = "deaf"]
  /\ UNCHANGED <<prog, backlog, holders, copies, handled, up, listening>>

Resumes(c) ==
  /\ link[c] = "deaf"
  /\ link' = [link EXCEPT ![c] = "eof"]
  /\ UNCHANGED <<prog, backlog, holders, copies, handled, up, listening>>

(* An orderly shutdown, before or after the request was sent.              *)
Shutdown(c) ==
  /\ c \notin Prompt /\ link[c] = "up"
  /\ link' = [link EXCEPT ![c] = "eof"]
  /\ UNCHANGED <<prog, backlog, holders, copies, handled, up, listening>>

Reset(c) ==
  /\ c \in Faulty /\ link[c] \in {"up", "deaf", "eof"}
  /\ link' = [link EXCEPT ![c] = "reset"]
  /\ UNCHANGED <<prog, backlog, holders, copies, handled, up, listening>>

(* The client sees the end of the stream; the connection may be reused.    *)
Depart(c) ==
  /\ Closed(c)
  /\ link' = [link EXCEPT ![c] = "none"]
  /\ prog' = [prog EXCEPT ![c] = "new"]
  /\ handled' = [handled EXCEPT ![c] = 0]
  /\ UNCHANGED <<backlog, holders, copies, up, listening>>

ClientStep(c) ==
  \/ Connect(c) \/ Shake(c) \/ Send(c) \/ StopsReading(c) \/ Resumes(c)
  \/ Shutdown(c) \/ Reset(c) \/ Depart(c)
-----------------------------------------------------------------------------
(* What the server's calls do and find. *)

(* accept() by p.  The connection it returns is the oldest one.            *)
AcceptBy(p) ==
  /\ backlog # <<>>
  /\ backlog' = Tail(backlog)
  /\ holders' = [holders EXCEPT ![Head(backlog)] = {p}]
  /\ UNCHANGED <<link, prog, copies, handled, up, listening>>

(* SSL_accept(), which accept_connection() calls before it returns, is     *)
(* over when the handshake is, or when the client has gone.                *)
HandshakeOver(c) ==
  Https => prog[c] # "new" \/ link[c] \in {"eof", "reset"}

(* It also writes, and nobody ignores SIGPIPE: a client that resets in the *)
(* middle of the handshake may end the process that calls it.              *)
HandshakeBreaks(c) == Https /\ link[c] = "reset"

(* handle() starts with parse_request(), which blocks until one of these.  *)
ReadsRequest(c) == prog[c] \in {"sent", "garbled"}
ReadsNothing(c) == prog[c] \in {"new", "shaken"} /\ link[c] = "eof"

(* getc() throws ConnectionError, or handle() dereferences a token or a    *)
(* header that is not there.  Reading the missing token is undefined, so   *)
(* "garbled" satisfies ReadsRequest too.                                   *)
ReadFails(c) ==
  \/ link[c] = "reset"
  \/ prog[c] = "garbled"
  \/ Https /\ prog[c] = "new" /\ link[c] = "eof"

(* write() fails by ConnectionError or SIGPIPE; TLSSocket::write ignores   *)
(* the result of SSL_write, so with -s it may also return.  It blocks      *)
(* while the client does not read.                                         *)
WriteFails(c) == link[c] = "reset"
WriteReturns(c) == link[c] \in {"up", "eof"} \/ (Https /\ link[c] = "reset")

(* handle() forks a program or a module while its process has S open.      *)
StartProgram(p, S) ==
  /\ copies' = [c \in Conns |-> IF c \in S THEN copies[c] \cup {p} ELSE copies[c]]
  /\ UNCHANGED <<link, prog, backlog, holders, handled, up, listening>>

(* Some process ends; the kernel closes the listening socket, with what    *)
(* nobody has accepted, unless another still has it.                       *)
Listens(still) ==
  /\ listening' = still
  /\ backlog' = IF still THEN backlog ELSE <<>>

(* The program of p ends, and waitpid() returns.                           *)
StopProgram(p, still) ==
  /\ Running(p)
  /\ copies' = [c \in Conns |-> copies[c] \ {p}]
  /\ Listens(still \/ Programs \ {p} # {})
  /\ UNCHANGED <<link, prog, holders, handled, up>>

(* The server process is gone, and what it had open; its programs go on.   *)
ProcessDies ==
  /\ up' = FALSE
  /\ Listens(Programs # {})
  /\ holders' = [c \in Conns |-> {}]
  /\ UNCHANGED <<link, prog, copies, handled>>
-----------------------------------------------------------------------------
(* The state of the connections, for processes or threads taken from P.    *)
SocketsTypeOK(P) ==
  /\ link \in [Conns -> Links]
  /\ prog \in [Conns -> Progress]
  /\ backlog \in Seq(Conns)
  /\ holders \in [Conns -> SUBSET P]
  /\ copies \in [Conns -> SUBSET P]
  /\ handled \in [Conns -> Nat]
  /\ up \in BOOLEAN /\ listening \in BOOLEAN

(* A connection waits in the backlog at most once, opened by its client    *)
(* and not yet seen by the server.                                         *)
BacklogOK ==
  /\ IsInjective(backlog)
  /\ \A c \in Range(backlog) :
       link[c] # "none" /\ holders[c] = {} /\ copies[c] = {} /\ handled[c] = 0
-----------------------------------------------------------------------------
(* The connections as Service sees them, whoever accepts and handles them. *)
Status(c) ==
  CASE link[c] = "none" -> "none"
    [] Queued(c) -> "queued"
    [] Closed(c) -> "closed"
    [] OTHER -> "open"

Served(c) == handled[c] > 0

Svc == INSTANCE Service WITH
  status <- [c \in Conns |-> Status(c)],
  queue <- backlog,
  served <- [c \in Conns |-> Served(c)]
=============================================================================
