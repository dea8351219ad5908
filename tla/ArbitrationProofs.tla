------------------------ MODULE ArbitrationProofs ------------------------
(***************************************************************************)
(* Theorems about RecvArbitration: how often the receive loop passes over  *)
(* a waiting client, for any number of clients that may leave at any time. *)
(***************************************************************************)
EXTENDS RecvArbitration, WellFoundedInduction, TLAPS

\* The cell the next scan begins with, counted from 0: after an erase the head
\* may be at the size.
Start(n, head) == IF head = n THEN 0 ELSE head

\* How many elements the scan meets before the one in cell p.
Ahead(n, head, p) ==
  IF p - 1 >= Start(n, head) THEN p - 1 - Start(n, head) ELSE n + p - 1 - Start(n, head)

\* What is left of the bound, doubled, when n clients are listed: an erase in
\* front of the head may put n - 2 others ahead of the next client in turn.
Room(n) == NumClients * (NumClients - 1) - (n - 1) * (n - 2)

DistinctInv == \A i, j \in 1..fdCount : fdMem[i] = fdMem[j] => i = j
PassedInv == \A c \in Clients : ~Waiting(c) => passed[c] = 0

\* The times a client has been passed and those ahead of it now are within the
\* room there is.
TurnInv == \A p \in 1..fdCount :
             2 * (passed[fdMem[p]] + Ahead(fdCount, recvClientHead, p)) <= Room(fdCount)

ArbInv == RecvTypeOK /\ recvClientHead <= fdCount /\ DistinctInv /\ PassedInv /\ TurnInv
-----------------------------------------------------------------------------
(* The scan, in terms of cells.                                            *)

\* A set of naturals has a least element.
LEMMA LeastNatural ==
  ASSUME NEW S \in SUBSET Nat, S # {}
  PROVE  \E x \in S : \A y \in S : ~(y < x)
  <1> DEFINE Less == {pair \in Nat \X Nat : pair[1] < pair[2]}
  <1>1. IsWellFoundedOn(Less, Nat)
    BY NatLessThanWellFounded DEF OpToRel
  <1> HIDE DEF Less
  <1>2. \E x \in S : \A y \in S : ~(<<y, x>> \in Less)
    BY <1>1, WFMin
  <1> QED
    BY <1>2 DEF Less

\* (head + i) % n goes back to the front once at most.
LEMMA ScanWraps ==
  ASSUME NEW n \in Nat \ {0}, NEW head \in 0..n, NEW i \in 0..(n-1)
  PROVE  ScanIndex(n, head, i) = IF head + i < n THEN head + i + 1 ELSE head + i - n + 1
  <1>1. ASSUME NEW x \in 0..(n-1) PROVE x % n = x
    BY Z3
  <1>2. ASSUME NEW x \in 0..(n-1) PROVE (n + x) % n = x
    BY Z3
  <1>3. CASE head + i < n
    <2>1. (head + i) % n = head + i
      BY <1>1, <1>3
    <2> QED
      BY <1>3, <2>1 DEF ScanIndex
  <1>4. CASE ~(head + i < n)
    <2>1. PICK x \in 0..(n-1) : head + i = n + x
      <3>1. head + i - n \in 0..(n-1) /\ head + i = n + (head + i - n)
        BY <1>4
      <3> QED
        BY <3>1
    <2>2. (head + i) % n = x
      BY <1>2, <2>1
    <2> QED
      BY <1>4, <2>1, <2>2 DEF ScanIndex
  <1> QED
    BY <1>3, <1>4

\* The scan meets the cell p after those ahead of it, and no other cell then.
LEMMA ScanMeets ==
  ASSUME NEW n \in Nat \ {0}, NEW head \in 0..n
  PROVE  /\ \A p \in 1..n : /\ Ahead(n, head, p) \in 0..(n-1)
                            /\ ScanIndex(n, head, Ahead(n, head, p)) = p
         /\ \A i \in 0..(n-1) : /\ ScanIndex(n, head, i) \in 1..n
                                /\ Ahead(n, head, ScanIndex(n, head, i)) = i
  <1>1. ASSUME NEW p \in 1..n
        PROVE  /\ Ahead(n, head, p) \in 0..(n-1)
               /\ ScanIndex(n, head, Ahead(n, head, p)) = p
    <2>1. Ahead(n, head, p) \in 0..(n-1)
      BY DEF Ahead, Start
    <2>2. ScanIndex(n, head, Ahead(n, head, p))
            = IF head + Ahead(n, head, p) < n THEN head + Ahead(n, head, p) + 1
                                              ELSE head + Ahead(n, head, p) - n + 1
      BY <2>1, ScanWraps
    <2> QED
      BY <2>1, <2>2 DEF Ahead, Start
  <1>2. ASSUME NEW i \in 0..(n-1)
        PROVE  /\ ScanIndex(n, head, i) \in 1..n
               /\ Ahead(n, head, ScanIndex(n, head, i)) = i
    BY ScanWraps DEF Ahead, Start
  <1> QED
    BY <1>1, <1>2

\* The client that recvReq reads from is the readable one that the fewest are
\* ahead of.
LEMMA PickedIsNext ==
  ASSUME NEW mem, NEW n \in Nat \ {0}, NEW head \in 0..n, NEW set,
         Elements(mem, n) \cap set # {}
  PROVE  \E q \in 1..n :
           /\ PickFd(mem, n, head, set) = mem[q] /\ mem[q] \in set
           /\ \A p \in 1..n : mem[p] \in set => Ahead(n, head, q) <= Ahead(n, head, p)
  <1> DEFINE Hits == {i \in 0..(n-1) : mem[ScanIndex(n, head, i)] \in set}
             First(i) == /\ mem[ScanIndex(n, head, i)] \in set
                         /\ \A j \in 0..(i-1) : mem[ScanIndex(n, head, j)] \notin set
  <1>1. PICK k \in 1..n : mem[k] \in set
    BY DEF Elements
  <1>2. Hits # {} /\ Hits \in SUBSET Nat
    <2>1. /\ Ahead(n, head, k) \in 0..(n-1)
          /\ mem[ScanIndex(n, head, Ahead(n, head, k))] \in set
      BY <1>1, ScanMeets
    <2> QED
      BY <2>1
  <1>3. PICK i \in Hits : \A j \in Hits : ~(j < i)
    BY <1>2, LeastNatural
  <1>4. \E x \in 0..(n-1) : First(x)
    BY <1>3
  <1> DEFINE first == CHOOSE x \in 0..(n-1) : First(x)
             q == ScanIndex(n, head, first)
  <1>5. first \in 0..(n-1) /\ First(first)
    BY <1>4
  <1>6. PickFd(mem, n, head, set) = mem[q]
    BY DEF PickFd
  <1> HIDE DEF first
  <1>7. q \in 1..n /\ Ahead(n, head, q) = first
    BY <1>5, ScanMeets
  <1>8. ASSUME NEW p \in 1..n, mem[p] \in set
        PROVE  first <= Ahead(n, head, p)
    <2>1. Ahead(n, head, p) \in 0..(n-1) /\ mem[ScanIndex(n, head, Ahead(n, head, p))] \in set
      BY <1>8, ScanMeets
    <2>2. ~(Ahead(n, head, p) \in 0..(first-1))
      BY <1>5, <2>1
    <2> QED
      BY <1>5, <2>1, <2>2
  <1> QED
    BY <1>5, <1>6, <1>7, <1>8

\* One go brings the head behind the cell it started from.
LEMMA HeadMoves ==
  ASSUME NEW n \in Nat \ {0}, NEW head \in 0..n
  PROVE  NextHead(n, head) = IF Start(n, head) + 1 = n THEN 0 ELSE Start(n, head) + 1
  <1>1. ASSUME NEW x \in 0..(n-1) PROVE x % n = x
    BY Z3
  <1>2. n % n = 0
    BY Z3
  <1>3. CASE head + 1 < n
    BY <1>1, <1>3 DEF NextHead, Start
  <1>4. CASE head + 1 = n
    BY <1>2, <1>4 DEF NextHead, Start
  <1>5. CASE head = n
    <2>1. (n + 1) % n = IF n = 1 THEN 0 ELSE 1
      BY Z3
    <2> QED
      BY <1>5, <2>1 DEF NextHead, Start
  <1> QED
    BY <1>3, <1>4, <1>5

\* Without an erase, one fewer is ahead of whoever was not first.
LEMMA TurnsComeNearer ==
  ASSUME NEW n \in Nat \ {0}, NEW head \in 0..n, NEW p \in 1..n, Ahead(n, head, p) > 0
  PROVE  Ahead(n, NextHead(n, head), p) = Ahead(n, head, p) - 1
  BY HeadMoves DEF Ahead, Start

\* With an erase of a cell ahead of it the same holds, but the next in turn
\* may move in front of the head and be the last.
LEMMA EraseAhead ==
  ASSUME NEW n \in Nat \ {0}, NEW head \in 0..n, NEW q \in 1..n, NEW k \in 1..(n-1),
         NEW p \in 1..n, p = IF q <= k THEN k + 1 ELSE k,
         Ahead(n, head, q) < Ahead(n, head, p)
  PROVE  LET d == Ahead(n - 1, NextHead(n, head), k)
         IN  /\ d \in 0..(n - 2)
             /\ d <= Ahead(n, head, p) - 1 \/ Ahead(n, head, p) = 1
  BY HeadMoves DEF Ahead, Start
-----------------------------------------------------------------------------
(* The invariant.                                                          *)

\* What RecvTypeOK says of a go: the client chosen, its cell, and the numbers.
LEMMA TurnTypes ==
  ASSUME ArbInv, TakeTurn
  PROVE  /\ fdCount \in 1..NumClients /\ NumClients \in Nat
         /\ recvClientHead \in 0..fdCount
         /\ recvClientHead' = NextHead(fdCount, recvClientHead)
         /\ recvClientHead' \in 0..(fdCount - 1)
         /\ \E q \in 1..fdCount :
              /\ Picked = fdMem[q] /\ fdMem[q] \in ready
              /\ \A p \in 1..fdCount :
                   fdMem[p] \in ready => Ahead(fdCount, recvClientHead, q)
                                           <= Ahead(fdCount, recvClientHead, p)
  <1>1. /\ NumClients \in Nat \ {0} /\ fdCount \in 0..NumClients
        /\ recvClientHead \in Nat /\ recvClientHead <= fdCount
    BY ArbitrationAssumption DEF ArbitrationAssumption, ArbInv, RecvTypeOK, Clients
  <1>2. Elements(fdMem, fdCount) \cap ready # {}
    BY DEF TakeTurn, Listed
  <1>3. fdCount # 0
    BY <1>2 DEF Elements
  <1>4. fdCount \in Nat \ {0} /\ recvClientHead \in 0..fdCount
    BY <1>1, <1>3
  <1>5. recvClientHead' = NextHead(fdCount, recvClientHead)
    BY DEF TakeTurn
  <1>6. recvClientHead' \in 0..(fdCount - 1)
    BY <1>4, <1>5, HeadMoves DEF Start
  <1> QED
    BY <1>1, <1>2, <1>4, <1>5, <1>6, PickedIsNext DEF Picked

\* The counters of a go: nobody who does not wait is counted for.
LEMMA PassedMoves ==
  ASSUME ArbInv, TakeTurn
  PROVE  /\ passed' \in [Clients -> Nat]
         /\ \A c \in Clients : Waiting(c) /\ c # Picked => passed'[c] = passed[c] + 1
         /\ \A c \in Clients : ~(Waiting(c) /\ c # Picked) => passed'[c] = 0
  <1>1. passed \in [Clients -> Nat]
    BY DEF ArbInv, RecvTypeOK
  <1>2. passed' = [c \in Clients |-> IF Waiting(c) /\ c # Picked THEN passed[c] + 1 ELSE 0]
    BY DEF TakeTurn
  <1>3. ASSUME NEW c \in Clients
        PROVE  (IF Waiting(c) /\ c # Picked THEN passed[c] + 1 ELSE 0) \in Nat
    BY <1>1
  <1> QED
    BY <1>2, <1>3

\* A cell's client is one of the clients.
LEMMA CellsListClients ==
  ASSUME RecvTypeOK, NEW p \in 1..fdCount
  PROVE  fdMem[p] \in Clients /\ fdMem[p] \in Listed /\ passed[fdMem[p]] \in Nat
  BY ArbitrationAssumption
     DEF ArbitrationAssumption, RecvTypeOK, Clients, Listed, Elements

\* What is left of the bound always holds a whole round.
LEMMA RoomForRound ==
  ASSUME NumClients \in Nat, NEW n \in 1..NumClients
  PROVE  /\ Room(n) \in Int
         /\ 2 * (n - 1) <= Room(n)
         /\ n > 1 => Room(n - 1) = Room(n) + 2 * (n - 2)
  <1>1. n * (n - 1) <= NumClients * (NumClients - 1)
    <2>1. PICK d \in Nat : NumClients = n + d
      <3>1. NumClients - n \in Nat /\ NumClients = n + (NumClients - n)
        OBVIOUS
      <3> QED
        BY <3>1
    <2>2. (n + d) * (n + d - 1) = n * (n - 1) + d * (2 * n - 1) + d * d
      BY Z3
    <2>3. d * (2 * n - 1) \in Nat /\ d * d \in Nat
      BY Z3
    <2> QED
      BY <2>1, <2>2, <2>3
  <1>2. n * (n - 1) - (n - 1) * (n - 2) = 2 * (n - 1)
    BY Z3
  <1>3. (n - 1) * (n - 2) - (n - 2) * (n - 3) = 2 * (n - 2)
    BY Z3
  <1> QED
    BY <1>1, <1>2, <1>3 DEF Room

\* A go that erases nobody.
LEMMA ReadKeeps ==
  ASSUME ArbInv, ReadRequest
  PROVE  ArbInv'
  <1>0. /\ TakeTurn /\ fdMem' = fdMem /\ fdCount' = fdCount /\ gone' = gone
        /\ (ready' = ready \/ (Picked \notin gone /\ ready' = ready \ {Picked}))
    BY DEF ReadRequest
  <1>1. /\ fdCount \in 1..NumClients /\ NumClients \in Nat
        /\ recvClientHead \in 0..fdCount
        /\ recvClientHead' = NextHead(fdCount, recvClientHead)
        /\ recvClientHead' \in 0..(fdCount - 1)
    BY <1>0, TurnTypes
  <1>2. PICK q \in 1..fdCount :
          /\ Picked = fdMem[q] /\ fdMem[q] \in ready
          /\ \A p \in 1..fdCount :
               fdMem[p] \in ready => Ahead(fdCount, recvClientHead, q)
                                       <= Ahead(fdCount, recvClientHead, p)
    BY <1>0, TurnTypes
  <1>3. RecvTypeOK /\ DistinctInv /\ PassedInv /\ TurnInv
    BY DEF ArbInv
  <1>4. RecvTypeOK'
    <2>1. recvClientHead' \in Clients \cup {0}
      BY <1>1 DEF Clients
    <2> QED
      BY <1>0, <1>3, <2>1, PassedMoves DEF RecvTypeOK
  <1>5. DistinctInv'
    BY <1>0, <1>3 DEF DistinctInv
  <1>6. PassedInv'
    <2> SUFFICES ASSUME NEW c \in Clients, ~Waiting(c)' PROVE passed'[c] = 0
      BY DEF PassedInv
    <2>1. ~(Waiting(c) /\ c # Picked)
      BY <1>0 DEF Waiting, Listed
    <2> QED
      BY <1>0, <2>1, PassedMoves
  <1>7. TurnInv'
    <2> SUFFICES ASSUME NEW p \in 1..fdCount
                 PROVE  2 * (passed'[fdMem[p]] + Ahead(fdCount, recvClientHead', p))
                          <= Room(fdCount)
      BY <1>0 DEF TurnInv
    <2> DEFINE c == fdMem[p]
               a == Ahead(fdCount, recvClientHead, p)
               b == Ahead(fdCount, recvClientHead', p)
    <2>1. c \in Clients /\ c \in Listed /\ passed[c] \in Nat
      BY <1>3, CellsListClients
    <2>2. fdCount \in Nat \ {0} /\ recvClientHead' \in 0..fdCount
      BY <1>1
    <2>3. b \in 0..(fdCount - 1) /\ a \in 0..(fdCount - 1)
      BY <1>1, <2>2, ScanMeets
    <2>4. 2 * (fdCount - 1) <= Room(fdCount) /\ Room(fdCount) \in Int
      BY <1>1, RoomForRound
    <2>5. 2 * (passed[c] + a) <= Room(fdCount)
      BY <1>3 DEF TurnInv
    <2>6. CASE Waiting(c) /\ c # Picked
      <3>1. passed'[c] = passed[c] + 1
        BY <1>0, <2>1, <2>6, PassedMoves
      <3>2. a # 0
        <4>1. Ahead(fdCount, recvClientHead, q) \in 0..(fdCount - 1)
              /\ ScanIndex(fdCount, recvClientHead, Ahead(fdCount, recvClientHead, q)) = q
              /\ ScanIndex(fdCount, recvClientHead, a) = p
          BY <1>1, <2>2, ScanMeets
        <4>2. Ahead(fdCount, recvClientHead, q) <= a
          BY <1>2, <2>6 DEF Waiting
        <4>3. Ahead(fdCount, recvClientHead, q) # a
          BY <1>2, <2>6, <4>1
        <4> HIDE DEF a
        <4> QED
          BY <2>3, <4>1, <4>2, <4>3
      <3>3. b = a - 1
        BY <1>1, <2>2, <2>3, <3>2, TurnsComeNearer
      <3> HIDE DEF a, b, c
      <3>4. 2 * (passed'[c] + b) <= Room(fdCount)
        BY <2>1, <2>3, <2>5, <3>1, <3>3
      <3> QED
        BY <3>4 DEF b, c
    <2>7. CASE ~(Waiting(c) /\ c # Picked)
      <3>1. passed'[c] = 0
        BY <1>0, <2>1, <2>7, PassedMoves
      <3> HIDE DEF a, b, c
      <3>2. 2 * (passed'[c] + b) <= Room(fdCount)
        BY <1>1, <2>3, <2>4, <3>1
      <3> QED
        BY <3>2 DEF b, c
    <2> QED
      BY <2>6, <2>7
  <1> QED
    BY <1>0, <1>1, <1>4, <1>5, <1>6, <1>7 DEF ArbInv

\* A go that erases the client it chose.
LEMMA RemoveKeeps ==
  ASSUME ArbInv, Erase
  PROVE  ArbInv'
  <1>0. /\ TakeTurn /\ fdCount' = fdCount - 1 /\ gone' = gone /\ ready' = ready
        /\ fdMem' = MoveDown(fdMem, fdCount, FindFd(fdMem, fdCount, Picked))
    BY DEF Erase
  <1>1. /\ fdCount \in 1..NumClients /\ NumClients \in Nat
        /\ recvClientHead \in 0..fdCount
        /\ recvClientHead' = NextHead(fdCount, recvClientHead)
        /\ recvClientHead' \in 0..(fdCount - 1)
    BY <1>0, TurnTypes
  <1>2. PICK q \in 1..fdCount :
          /\ Picked = fdMem[q] /\ fdMem[q] \in ready
          /\ \A p \in 1..fdCount :
               fdMem[p] \in ready => Ahead(fdCount, recvClientHead, q)
                                       <= Ahead(fdCount, recvClientHead, p)
    BY <1>0, TurnTypes
  <1>3. RecvTypeOK /\ DistinctInv /\ PassedInv /\ TurnInv
    BY DEF ArbInv
  <1>4. FindFd(fdMem, fdCount, Picked) = q
    <2>1. \A i \in 1..fdCount : fdMem[i] = Picked <=> i = q
      BY <1>2, <1>3 DEF DistinctInv
    <2>2. \A j \in 1..(q-1) : j \in 1..fdCount /\ j # q
      BY <1>1
    <2>3. q \in 1..fdCount /\ fdMem[q] = Picked /\ \A j \in 1..(q-1) : fdMem[j] # Picked
      BY <2>1, <2>2
    <2>4. \A i \in 1..fdCount :
            (fdMem[i] = Picked /\ \A j \in 1..(i-1) : fdMem[j] # Picked) <=> i = q
      BY <2>1, <2>3
    <2> QED
      BY <2>3, <2>4 DEF FindFd
  <1>5. /\ fdMem' \in [Clients -> Clients]
        /\ \A k \in 1..(fdCount - 1) :
             \E p \in 1..fdCount : /\ p = IF q <= k THEN k + 1 ELSE k
                                   /\ p # q /\ fdMem'[k] = fdMem[p]
    <2>1. fdMem \in [Clients -> Clients]
      BY <1>3 DEF RecvTypeOK
    <2>2. fdMem' = [k \in Clients |-> IF q <= k /\ k < fdCount THEN fdMem[k+1] ELSE fdMem[k]]
      BY <1>0, <1>4, <2>1 DEF MoveDown
    <2>3. ASSUME NEW k \in Clients, q <= k, k < fdCount PROVE k + 1 \in Clients
      BY <1>1, <2>3 DEF Clients
    <2>4. fdMem' \in [Clients -> Clients]
      BY <2>1, <2>2, <2>3
    <2>5. ASSUME NEW k \in 1..(fdCount - 1)
          PROVE  \E p \in 1..fdCount : /\ p = IF q <= k THEN k + 1 ELSE k
                                       /\ p # q /\ fdMem'[k] = fdMem[p]
      <3>1. k \in Clients /\ k < fdCount
        BY <1>1 DEF Clients
      <3>2. fdMem'[k] = IF q <= k THEN fdMem[k+1] ELSE fdMem[k]
        BY <2>2, <3>1
      <3>3. CASE q <= k
        <4>1. k + 1 \in 1..fdCount /\ k + 1 # q
          BY <1>1, <3>3
        <4> QED
          BY <3>2, <3>3, <4>1
      <3>4. CASE ~(q <= k)
        <4>1. k \in 1..fdCount /\ k # q
          BY <1>1, <3>4
        <4> QED
          BY <3>2, <3>4, <4>1
      <3> QED
        BY <3>3, <3>4
    <2> QED
      BY <2>4, <2>5
  <1>6. RecvTypeOK'
    <2>1. recvClientHead' \in Clients \cup {0} /\ fdCount' \in 0..NumClients
      BY <1>0, <1>1 DEF Clients
    <2> QED
      BY <1>0, <1>3, <1>5, <2>1, PassedMoves DEF RecvTypeOK
  <1>7. recvClientHead' <= fdCount'
    BY <1>0, <1>1
  <1>8. DistinctInv'
    <2> SUFFICES ASSUME NEW k \in 1..(fdCount - 1), NEW l \in 1..(fdCount - 1),
                        fdMem'[k] = fdMem'[l]
                 PROVE  k = l
      BY <1>0 DEF DistinctInv
    <2>1. PICK p \in 1..fdCount : p = (IF q <= k THEN k + 1 ELSE k) /\ fdMem'[k] = fdMem[p]
      BY <1>5
    <2>2. PICK r \in 1..fdCount : r = (IF q <= l THEN l + 1 ELSE l) /\ fdMem'[l] = fdMem[r]
      BY <1>5
    <2>3. p = r
      BY <1>3, <2>1, <2>2 DEF DistinctInv
    <2> QED
      BY <2>1, <2>2, <2>3
  <1>9. PassedInv'
    <2> SUFFICES ASSUME NEW c \in Clients, Waiting(c), c # Picked PROVE Waiting(c)'
      BY <1>0, PassedMoves DEF PassedInv
    <2>1. PICK p \in 1..fdCount : fdMem[p] = c
      BY DEF Waiting, Listed, Elements
    <2>2. p # q
      BY <1>2, <2>1
    <2>3. \E k \in 1..(fdCount - 1) : p = IF q <= k THEN k + 1 ELSE k
      <3>1. CASE p < q
        <4>1. p \in 1..(fdCount - 1) /\ ~(q <= p)
          BY <1>1, <3>1
        <4> QED
          BY <4>1
      <3>2. CASE p > q
        <4>1. p - 1 \in 1..(fdCount - 1) /\ q <= p - 1 /\ p = (p - 1) + 1
          BY <1>1, <3>2
        <4> QED
          BY <4>1
      <3> QED
        BY <2>2, <3>1, <3>2
    <2>4. PICK k \in 1..(fdCount - 1) : p = IF q <= k THEN k + 1 ELSE k
      BY <2>3
    <2>5. fdMem'[k] = c
      BY <1>5, <2>1, <2>4
    <2> QED
      BY <1>0, <2>5 DEF Waiting, Listed, Elements
  <1>10. TurnInv'
    <2> SUFFICES ASSUME NEW k \in 1..(fdCount - 1)
                 PROVE  2 * (passed'[fdMem'[k]] + Ahead(fdCount - 1, recvClientHead', k))
                          <= Room(fdCount - 1)
      BY <1>0 DEF TurnInv
    <2>1. PICK p \in 1..fdCount :
            /\ p = IF q <= k THEN k + 1 ELSE k
            /\ p # q /\ fdMem'[k] = fdMem[p]
      BY <1>5
    <2> DEFINE c == fdMem[p]
               a == Ahead(fdCount, recvClientHead, p)
               b == Ahead(fdCount - 1, recvClientHead', k)
               f == Ahead(fdCount, recvClientHead, q)
    <2>2. c \in Clients /\ passed[c] \in Nat /\ c # Picked
      BY <1>2, <1>3, <2>1, CellsListClients DEF DistinctInv
    <2>3. fdCount \in Nat \ {0} /\ fdCount - 1 \in Nat \ {0} /\ recvClientHead' \in 0..(fdCount - 1)
      BY <1>1
    <2>4. /\ a \in 0..(fdCount - 1) /\ f \in 0..(fdCount - 1)
          /\ ScanIndex(fdCount, recvClientHead, a) = p
          /\ ScanIndex(fdCount, recvClientHead, f) = q
      BY <1>1, <2>3, ScanMeets
    <2>5. b \in 0..(fdCount - 2)
      <3>1. b \in 0..(fdCount - 1 - 1)
        BY <2>3, ScanMeets
      <3> QED
        BY <2>3, <3>1
    <2>6. /\ 2 * (fdCount - 1) <= Room(fdCount) /\ Room(fdCount) \in Int
          /\ Room(fdCount - 1) = Room(fdCount) + 2 * (fdCount - 2)
      BY <1>1, <2>3, RoomForRound
    <2>7. 2 * (passed[c] + a) <= Room(fdCount)
      BY <1>3 DEF TurnInv
    <2>8. CASE Waiting(c)
      <3>1. passed'[c] = passed[c] + 1
        BY <1>0, <2>2, <2>8, PassedMoves
      <3>2. f < a
        <4>1. f <= a
          BY <1>2, <2>8 DEF Waiting
        <4>2. f # a
          BY <2>1, <2>4
        <4> HIDE DEF a, f
        <4> QED
          BY <2>4, <4>1, <4>2
      <3>3. b <= a - 1 \/ a = 1
        BY <1>1, <2>1, <2>3, <3>2, EraseAhead
      <3> HIDE DEF a, b, c, f
      <3>4. 2 * (passed'[c] + b) <= Room(fdCount - 1)
        BY <2>2, <2>3, <2>4, <2>5, <2>6, <2>7, <3>1, <3>3
      <3> QED
        BY <2>1, <3>4 DEF b, c
    <2>9. CASE ~Waiting(c)
      <3>1. passed'[c] = 0
        BY <1>0, <2>2, <2>9, PassedMoves
      <3> HIDE DEF a, b, c, f
      <3>2. 2 * (passed'[c] + b) <= Room(fdCount - 1)
        BY <2>3, <2>5, <2>6, <3>1
      <3> QED
        BY <2>1, <3>2 DEF b, c
    <2> QED
      BY <2>8, <2>9
  <1> QED
    BY <1>6, <1>7, <1>8, <1>9, <1>10 DEF ArbInv

\* The scan starts at the first client, and nobody has been passed.
LEMMA ArbInvInit == RecvInit => ArbInv
  <1> SUFFICES ASSUME RecvInit PROVE ArbInv
    OBVIOUS
  <1>0. NumClients \in Nat \ {0} /\ fdCount = NumClients /\ recvClientHead = 0
        /\ fdMem = [i \in Clients |-> i] /\ passed = [c \in Clients |-> 0]
    BY ArbitrationAssumption DEF ArbitrationAssumption, RecvInit
  <1>1. RecvTypeOK
    <2>1. fdMem \in [Clients -> Clients] /\ passed \in [Clients -> Nat]
      BY <1>0
    <2> QED
      BY <1>0, <2>1 DEF RecvInit, RecvTypeOK
  <1>2. DistinctInv /\ recvClientHead <= fdCount
    BY <1>0 DEF DistinctInv, Clients
  <1>3. PassedInv
    BY <1>0 DEF PassedInv
  <1>4. ASSUME NEW p \in 1..fdCount
        PROVE  2 * (passed[fdMem[p]] + Ahead(fdCount, recvClientHead, p)) <= Room(fdCount)
    <2>1. passed[fdMem[p]] = 0
      BY <1>0 DEF Clients
    <2>2. Ahead(fdCount, recvClientHead, p) \in 0..(fdCount - 1)
      BY <1>0, ScanMeets
    <2>3. 2 * (fdCount - 1) <= Room(fdCount) /\ Room(fdCount) \in Int
      BY <1>0, RoomForRound
    <2> DEFINE a == Ahead(fdCount, recvClientHead, p)
    <2> HIDE DEF a
    <2>4. 2 * (0 + a) <= Room(fdCount)
      BY <1>0, <2>2, <2>3 DEF a
    <2> QED
      BY <2>1, <2>4 DEF a
  <1> QED
    BY <1>1, <1>2, <1>3, <1>4 DEF ArbInv, TurnInv

\* Every step keeps it; arrivals and closes begin with a count of zero.
LEMMA ArbInvStep == ArbInv /\ [RecvNext]_recvVars => ArbInv'
  <1> SUFFICES ASSUME ArbInv, [RecvNext]_recvVars PROVE ArbInv'
    OBVIOUS
  <1>1. ASSUME NEW c \in Clients, ready' = ready \cup {c}, gone' \in {gone, gone \cup {c}},
               UNCHANGED <<fdMem, fdCount, recvClientHead, passed>>
        PROVE  ArbInv'
    <2>1. RecvTypeOK' /\ (recvClientHead <= fdCount)'
      BY <1>1 DEF ArbInv, RecvTypeOK
    <2>2. DistinctInv' /\ TurnInv'
      BY <1>1 DEF ArbInv, DistinctInv, TurnInv
    <2>3. PassedInv'
      BY <1>1 DEF ArbInv, PassedInv, Waiting, Listed
    <2> QED
      BY <2>1, <2>2, <2>3 DEF ArbInv
  <1>2. ASSUME NEW c \in Clients, Arrival(c) PROVE ArbInv'
    BY <1>1, <1>2 DEF Arrival
  <1>3. ASSUME NEW c \in Clients, Leave(c) PROVE ArbInv'
    BY <1>1, <1>3 DEF Leave
  <1>4. CASE UNCHANGED recvVars
    BY <1>4 DEF ArbInv, RecvTypeOK, DistinctInv, PassedInv, TurnInv, Waiting, Listed, recvVars
  <1> QED
    BY <1>2, <1>3, <1>4, ReadKeeps, RemoveKeeps DEF RecvNext, AllGone

\* The invariant holds whatever arrives and whoever leaves.
LEMMA ArbInvAlways == RecvSpec => []ArbInv
  BY ArbInvInit, ArbInvStep, PTL DEF RecvSpec
-----------------------------------------------------------------------------
\* A waiting client's count, and that at most the room is passed.
LEMMA WaitingCount ==
  ASSUME ArbInv, NEW c \in Clients, Waiting(c)
  PROVE  fdCount \in 1..NumClients /\ passed[c] \in Nat /\ 2 * passed[c] <= Room(fdCount)
  <1>1. PICK p \in 1..fdCount : fdMem[p] = c
    BY DEF Waiting, Listed, Elements
  <1>2. /\ NumClients \in Nat /\ fdCount \in 0..NumClients
        /\ recvClientHead \in Nat /\ recvClientHead <= fdCount
    BY ArbitrationAssumption DEF ArbitrationAssumption, ArbInv, RecvTypeOK, Clients
  <1>3. fdCount \in 1..NumClients /\ fdCount \in Nat \ {0} /\ recvClientHead \in 0..fdCount
    BY <1>2
  <1> DEFINE a == Ahead(fdCount, recvClientHead, p)
  <1>4. a \in 0..(fdCount - 1)
    BY <1>3, ScanMeets
  <1>5. passed[c] \in Nat
    BY DEF ArbInv, RecvTypeOK
  <1>6. 2 * (passed[c] + a) <= Room(fdCount)
    BY <1>1 DEF ArbInv, TurnInv
  <1>7. Room(fdCount) \in Int
    BY <1>2, <1>3, RoomForRound
  <1> HIDE DEF a
  <1>8. 2 * passed[c] <= Room(fdCount)
    BY <1>3, <1>4, <1>5, <1>6, <1>7
  <1> QED
    BY <1>3, <1>5, <1>8

\* server.h, "avoids unfairly favoring some clients": a client with a request
\* waiting is passed over at most n(n-1)/2 times, whoever leaves meanwhile.
THEOREM NobodyIsPassedForEver == RecvSpec => []BoundedBypass
  <1>1. ArbInv => BoundedBypass
    <2> SUFFICES ASSUME ArbInv, NEW c \in Clients, Waiting(c)
                 PROVE  passed[c] <= BypassBound
      BY DEF BoundedBypass
    <2>1. fdCount \in 1..NumClients /\ passed[c] \in Nat /\ 2 * passed[c] <= Room(fdCount)
      BY WaitingCount
    <2>2. NumClients \in Nat
      BY ArbitrationAssumption DEF ArbitrationAssumption
    <2> DEFINE whole == NumClients * (NumClients - 1)
    <2>3. whole \in Int
      BY <2>2
    <2>4. (fdCount - 1) * (fdCount - 2) >= 0
      <3>1. CASE fdCount = 1
        BY <3>1
      <3>2. CASE fdCount # 1
        <4>1. fdCount - 1 \in Nat /\ fdCount - 2 \in Nat
          BY <2>1, <2>2, <3>2
        <4> DEFINE u == fdCount - 1
                   v == fdCount - 2
        <4> HIDE DEF u, v
        <4>2. u \in Nat /\ v \in Nat
          BY <4>1 DEF u, v
        <4>3. u * v >= 0
          BY <4>2, Z3
        <4> QED
          BY <4>3 DEF u, v
      <3> QED
        BY <3>1, <3>2
    <2> DEFINE less == (fdCount - 1) * (fdCount - 2)
    <2>5. less \in Int
      BY <2>1, <2>2
    <2>6. Room(fdCount) = whole - less
      BY DEF Room
    <2>7. BypassBound = whole \div 2
      BY DEF BypassBound
    <2> HIDE DEF whole, less
    <2>8. 2 * passed[c] <= whole
      BY <2>1, <2>3, <2>4, <2>5, <2>6 DEF less
    <2>9. passed[c] <= whole \div 2
      BY <2>1, <2>3, <2>8
    <2> QED
      BY <2>7, <2>9
  <1> QED
    BY <1>1, ArbInvAlways, PTL

\* While nobody has left, every waiting client is read from within one round.
THEOREM OneRoundWhileAllStay == RecvSpec => []SteadyBypass
  <1>1. ArbInv => SteadyBypass
    <2> SUFFICES ASSUME ArbInv, fdCount = NumClients, NEW c \in Clients, Waiting(c)
                 PROVE  passed[c] < NumClients
      BY DEF SteadyBypass
    <2>1. fdCount \in 1..NumClients /\ passed[c] \in Nat /\ 2 * passed[c] <= Room(fdCount)
      BY WaitingCount
    <2>2. NumClients \in Nat
      BY ArbitrationAssumption DEF ArbitrationAssumption
    <2>3. NumClients * (NumClients - 1) - (NumClients - 1) * (NumClients - 2)
            = 2 * (NumClients - 1)
      BY <2>2, Z3
    <2>4. Room(fdCount) = 2 * (NumClients - 1)
      BY <2>3 DEF Room
    <2> QED
      BY <2>1, <2>2, <2>4
  <1> QED
    BY <1>1, ArbInvAlways, PTL
=============================================================================
