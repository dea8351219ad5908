----------------------------- MODULE ClientFds -----------------------------
(***************************************************************************)
(* The networked server keeps its connections in the vector clientFds.     *)
(* Two threads use that vector under two different locks: recvReq holds    *)
(* recvLock when it scans it and when removeClient erases from it, sendResp*)
(* and finish hold sendLock when they walk it.  What the walk reads after  *)
(* an erase is decided by the memory behind the vector, so the vector is   *)
(* represented by that memory (mem, as long as the initial vector) and by  *)
(* its current size n.  Only mem[1..n] are elements; the cells behind keep *)
(* what the last move left in them.                                        *)
(***************************************************************************)
EXTENDS Integers, Sequences

(* An operator whose name ends in _Faulty is what the operator behind it    *)
(* would be with a plausible mistake in it; no specification uses it.      *)

\* The elements of the vector.
Elements(mem, n) == {mem[i] : i \in 1..n}

\* std::find(clientFds.begin(), clientFds.end(), fd): the first such index.
FindFd_Faulty(mem, n, fd) == n
FindFd(mem, n, fd) ==
  CHOOSE i \in 1..n : mem[i] = fd /\ \A j \in 1..(i-1) : mem[j] # fd

\* First half of clientFds.erase(it): the elements behind the erased one move
\* one cell down; the cell of the old last element keeps its value.
MoveDown(mem, n, i) ==
  [k \in DOMAIN mem |-> IF i <= k /\ k < n THEN mem[k+1] ELSE mem[k]]

\* The index (head + i) % clientFds.size() of the scan, counted from 1.
ScanIndex(n, head, i) == ((head + i) % n) + 1

\* The descriptor the scan settles on: the first readable one from head on.
PickFd(mem, n, head, ready) ==
  LET first == CHOOSE i \in 0..(n-1) :
                 /\ mem[ScanIndex(n, head, i)] \in ready
                 /\ \A j \in 0..(i-1) : mem[ScanIndex(n, head, j)] \notin ready
  IN  mem[ScanIndex(n, head, first)]

\* recvClientHead after one go of the receive loop.
NextHead_FaultyWrap(n, head) == head + 1
NextHead_FaultyStep(n, head) == (head + 2) % n
NextHead_FaultyStuck(n, head) == head
NextHead(n, head) == (head + 1) % n
=============================================================================
