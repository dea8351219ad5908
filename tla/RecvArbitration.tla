-------------------------- MODULE RecvArbitration --------------------------
(***************************************************************************)
(* Which client recvReq reads from.  The receive loop of NetworkedServer,  *)
(* one go at a time: select reports who is readable, the scan starts at    *)
(* recvClientHead, the head moves on by one, and a client whose stream has *)
(* ended is erased.  All of it happens under recvLock, so a go is one step *)
(* here.  A history variable counts how often a waiting client is passed.   *)
(***************************************************************************)
EXTENDS ClientFds, FiniteSets

CONSTANTS
  NumClients,  \* TBENCH_NCLIENTS
  Mortal       \* clients that may leave

Clients == 1..NumClients

ASSUME ArbitrationAssumption ==
  NumClients \in Nat \ {0} /\ Mortal \subseteq Clients

VARIABLES
  fdMem, fdCount, recvClientHead,  \* clientFds and the head of the queue
  ready,    \* clients with bytes to read, or that have closed
  gone,     \* clients that have closed their end
  passed    \* passed[c]: how often another was read from while c stayed ready

recvVars == <<fdMem, fdCount, recvClientHead, ready, gone, passed>>

Listed == Elements(fdMem, fdCount)
Waiting(c) == c \in ready \cap Listed
Picked == PickFd(fdMem, fdCount, recvClientHead, ready)

RecvInit ==
  /\ fdMem = [i \in Clients |-> i]
  /\ fdCount = NumClients
  /\ recvClientHead = 0
  /\ ready = {} /\ gone = {}
  /\ passed = [c \in Clients |-> 0]

\* A request of c arrives.
Arrival(c) ==
  /\ c \in Listed \ (ready \cup gone)
  /\ ready' = ready \cup {c}
  /\ UNCHANGED <<fdMem, fdCount, recvClientHead, gone, passed>>

\* c closes its end; what it sent before can still be read.
Leave(c) ==
  /\ c \in Mortal \ gone
  /\ gone' = gone \cup {c}
  /\ ready' = ready \cup {c}
  /\ UNCHANGED <<fdMem, fdCount, recvClientHead, passed>>

\* What a go does whatever it finds: the head moves, and whoever waits and is
\* not chosen has been passed.
TakeTurn ==
  /\ ready \cap Listed # {}
  /\ recvClientHead' = NextHead(fdCount, recvClientHead)
  /\ passed' = [c \in Clients |->
       IF Waiting(c) /\ c # Picked THEN passed[c] + 1 ELSE 0]

\* A request is read; there may or may not be more behind it.
ReadRequest ==
  /\ TakeTurn
  /\ \/ UNCHANGED ready
     \/ Picked \notin gone /\ ready' = ready \ {Picked}
  /\ UNCHANGED <<fdMem, fdCount, gone>>

\* The end of the stream is read, and the client is erased.
Erase ==
  /\ TakeTurn
  /\ Picked \in gone
  /\ fdMem' = MoveDown(fdMem, fdCount, FindFd(fdMem, fdCount, Picked))
  /\ fdCount' = fdCount - 1
  /\ UNCHANGED <<ready, gone>>

\* "All clients exited": the process is over.
AllGone == fdCount = 0 /\ UNCHANGED recvVars

RecvNext ==
  \/ \E c \in Clients : Arrival(c) \/ Leave(c)
  \/ ReadRequest \/ Erase \/ AllGone

RecvSpec == RecvInit /\ [][RecvNext]_recvVars
-----------------------------------------------------------------------------
\* The vector lists distinct clients: those whose end has not been read.
RecvTypeOK ==
  /\ fdCount \in 0..NumClients
  /\ fdMem \in [Clients -> Clients]
  /\ recvClientHead \in Clients \cup {0}
  /\ ready \subseteq Clients /\ gone \subseteq ready
  /\ passed \in [Clients -> Nat]

\* A client with a request waiting is passed over a bounded number of times.
\* With nobody leaving the head is at it within NumClients goes; an erase in
\* front of it can move it out of the way of the head once more, and shortens
\* the next round by one.
BypassBound == (NumClients * (NumClients - 1)) \div 2
BoundedBypass == \A c \in Clients : Waiting(c) => passed[c] <= BypassBound

\* While nobody leaves, the wait is one round.
SteadyBypass ==
  fdCount = NumClients
    => \A c \in Clients : Waiting(c) => passed[c] < NumClients
=============================================================================
