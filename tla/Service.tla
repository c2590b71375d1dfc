------------------------------ MODULE Service ------------------------------
(***************************************************************************)
(* What every concurrency mode of GETweb promises of its connections, and  *)
(* no more: they are accepted in the order they were established, handled  *)
(* at most once and only while open, and closed by the server.  Nothing    *)
(* here says how many are open at a time or who handles them.  When no     *)
(* process accepts any more, the listening socket may still be open in     *)
(* another process: connections are established that nobody will accept.   *)
(***************************************************************************)
EXTENDS Naturals, Sequences

CONSTANT Conns

VARIABLES
  status,    \* status[c]: not open, waiting for accept, open, closed by the server
  queue,     \* the waiting connections, oldest first
  served,    \* served[c]: c has been handled
  up,        \* the server accepts connections
  listening  \* the listening socket is open

vars == <<status, queue, served, up, listening>>

Init ==
  /\ status = [c \in Conns |-> "none"]
  /\ queue = <<>>
  /\ served = [c \in Conns |-> FALSE]
  /\ up = TRUE /\ listening = TRUE

Connect(c) ==
  /\ listening /\ status[c] = "none"
  /\ status' = [status EXCEPT ![c] = "queued"]
  /\ queue' = Append(queue, c)
  /\ UNCHANGED <<served, up, listening>>

Accept ==
  /\ up /\ queue # <<>>
  /\ status' = [status EXCEPT ![Head(queue)] = "open"]
  /\ queue' = Tail(queue)
  /\ UNCHANGED <<served, up, listening>>

Handle(c) ==
  /\ status[c] = "open" /\ ~served[c]
  /\ served' = [served EXCEPT ![c] = TRUE]
  /\ UNCHANGED <<status, queue, up, listening>>

Depart(c) ==
  /\ status[c] = "closed"
  /\ status' = [status EXCEPT ![c] = "none"]
  /\ served' = [served EXCEPT ![c] = FALSE]
  /\ UNCHANGED <<queue, up, listening>>

(* The last descriptors of the connections in S are closed.  The process   *)
(* that did it may have ended; if it was the one that accepts, nobody does *)
(* from now on, and if it was the last one with the listening socket, the  *)
(* waiting connections are closed too.                                     *)
Close(S) ==
  /\ up' \in {up, FALSE} /\ listening' \in {listening, FALSE}
  /\ up' => listening'
  /\ queue' = IF listening' THEN queue ELSE <<>>
  /\ status' = [c \in Conns |->
                  IF c \in S \/ (status[c] = "queued" /\ ~listening')
                  THEN "closed" ELSE status[c]]
  /\ UNCHANGED served

Next ==
  \/ Accept
  \/ \E c \in Conns : Connect(c) \/ Handle(c) \/ Depart(c)
  \/ \E S \in SUBSET {c \in Conns : status[c] = "open"} : Close(S)

Spec == Init /\ [][Next]_vars
=============================================================================
