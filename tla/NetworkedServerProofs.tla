----------------------- MODULE NetworkedServerProofs -----------------------
(***************************************************************************)
(* Proofs about NetworkedServer, for any number of workers and clients.    *)
(***************************************************************************)
EXTENDS NetworkedServer, FiniteSetTheorems, WellFoundedInduction, TLAPS

\* The number of server threads, nthreads, is a positive integer.
LEMMA WorkersFinite == IsFiniteSet(Workers) /\ Cardinality(Workers) \in Nat \ {0}
  BY ServerAssumption, FS_CardinalityType, FS_EmptySet DEF ServerAssumption

-----------------------------------------------------------------------------
(* The vector of connections.                                              *)

\* A non-empty set of naturals has a least element.
LEMMA LeastNatural ==
  ASSUME NEW S \in SUBSET Nat, S # {}
  PROVE  \E x \in S : \A y \in S : ~(y < x)
  <1> DEFINE R == {ss \in Nat \X Nat : ss[1] < ss[2]}
  <1>1. IsWellFoundedOn(R, Nat)
    BY NatLessThanWellFounded DEF OpToRel
  <1> HIDE DEF R
  <1>2. \E x \in S : \A y \in S : ~(<<y, x>> \in R)
    BY <1>1, WFMin
  <1> QED
    BY <1>2 DEF R

\* The index (recvClientHead + i) % clientFds.size() is below the size.
LEMMA ModInRange ==
  ASSUME NEW n \in Nat \ {0}, NEW x \in Nat
  PROVE  x % n \in 0..(n-1)
  BY Z3

\* The scan of recvReq visits every element of the vector, wherever it starts.
LEMMA ScanVisits ==
  ASSUME NEW n \in Nat \ {0}, NEW head \in 0..n, NEW k \in 1..n
  PROVE  \E i \in 0..(n-1) : ScanIndex(n, head, i) = k
  <1>1. ASSUME NEW x \in 0..(n-1) PROVE x % n = x
    BY Z3
  <1>2. ASSUME NEW x \in 0..(n-1) PROVE (n + x) % n = x
    BY Z3
  <1>3. CASE k - 1 >= head
    <2>1. (head + (k - 1 - head)) % n = k - 1
      BY <1>1
    <2>2. k - 1 - head \in 0..(n-1)
      BY <1>3
    <2>3. ScanIndex(n, head, k - 1 - head) = k
      BY <2>1 DEF ScanIndex
    <2> QED
      BY <2>2, <2>3
  <1>4. CASE k - 1 < head
    <2>1. (head + (n + k - 1 - head)) % n = k - 1
      BY <1>2
    <2>2. n + k - 1 - head \in 0..(n-1)
      BY <1>4
    <2>3. ScanIndex(n, head, n + k - 1 - head) = k
      BY <2>1 DEF ScanIndex
    <2> QED
      BY <2>2, <2>3
  <1> QED
    BY <1>3, <1>4

\* The assertion fd != -1 of recvReq: when select has reported a descriptor
\* of the vector, the scan settles on one that is in it and was reported.
LEMMA PickIsReady ==
  ASSUME NEW mem, NEW n \in Nat \ {0}, NEW head \in 0..n, NEW ready,
         Elements(mem, n) \cap ready # {}
  PROVE  PickFd(mem, n, head, ready) \in Elements(mem, n) \cap ready
  <1> DEFINE Hits == {i \in 0..(n-1) : mem[ScanIndex(n, head, i)] \in ready}
             First(i) == /\ mem[ScanIndex(n, head, i)] \in ready
                         /\ \A j \in 0..(i-1) : mem[ScanIndex(n, head, j)] \notin ready
  <1>1. PICK k \in 1..n : mem[k] \in ready
    BY DEF Elements
  <1>2. Hits # {} /\ Hits \in SUBSET Nat
    <2>1. PICK i \in 0..(n-1) : ScanIndex(n, head, i) = k
      BY ScanVisits
    <2> QED
      BY <1>1, <2>1
  <1>3. PICK i \in Hits : \A j \in Hits : ~(j < i)
    BY <1>2, LeastNatural
  <1>4. First(i)
    BY <1>3
  <1>5. \E x \in 0..(n-1) : First(x)
    BY <1>3, <1>4
  <1> DEFINE first == CHOOSE x \in 0..(n-1) : First(x)
  <1>6. first \in 0..(n-1) /\ First(first)
    BY <1>5
  <1>7. PickFd(mem, n, head, ready) = mem[ScanIndex(n, head, first)]
    BY DEF PickFd
  <1>8. ScanIndex(n, head, first) \in 1..n
    <2>1. head + first \in Nat
      BY <1>6
    <2>2. (head + first) % n \in 0..(n-1)
      BY <2>1, ModInRange
    <2> QED
      BY <2>2 DEF ScanIndex
  <1> HIDE DEF first
  <1> QED
    BY <1>6, <1>7, <1>8 DEF Elements

\* What recvReq relies on when it has selected: the vector is not empty, and
\* the client it reads from is one of its elements.
LEMMA SelectedClient ==
  ASSUME TypeOK, NEW w \in Workers, Selects(w)
  PROVE  /\ fdCount \in 1..NumClients
         /\ Picked \in Elements(fdMem, fdCount) \cap Readable
         /\ Picked \in Clients
         /\ NextHead(fdCount, recvClientHead) \in 0..(fdCount - 1)
  <1>1. /\ NumClients \in Nat \ {0} /\ fdCount \in 0..NumClients
        /\ recvClientHead \in 0..fdCount
    BY ServerAssumption DEF TypeOK, VectorTypes, ServerAssumption
  <1>2. Elements(fdMem, fdCount) \cap Readable # {}
    BY DEF Selects
  <1>3. fdCount # 0
    BY <1>2 DEF Elements
  <1>4. fdCount \in 1..NumClients /\ fdCount \in Nat \ {0}
    BY <1>1, <1>3
  <1>5. Picked \in Elements(fdMem, fdCount) \cap Readable
    BY <1>1, <1>2, <1>4, PickIsReady DEF Picked
  <1>6. NextHead(fdCount, recvClientHead) \in 0..(fdCount - 1)
    <2>1. recvClientHead + 1 \in Nat
      BY <1>1
    <2> QED
      BY <1>4, <2>1, ModInRange DEF NextHead
  <1> QED
    BY <1>4, <1>5, <1>6 DEF Readable
-----------------------------------------------------------------------------
(* Type correctness, the two locks and the thread slots.  The three are    *)
(* proved together: the size of the vector is decremented by the owner of  *)
(* recvLock alone, and the slot numbers stay small because they are        *)
(* distinct.                                                               *)

\* The state the constructors leave has the types of TypeOK.
LEMMA TypeInit == Init => TypeOK
  BY ServerAssumption, WorkersFinite
     DEF Init, TypeOK, ThreadTypes, RequestTypes, VectorTypes, StreamTypes, ClientTypes,
         ServerAssumption, Idle, Finish, Messages, Slots, Clients, Cut

\* A worker that registers still finds a slot.
LEMMA SlotIsLeft ==
  ASSUME SlotsDistinct, NEW w \in Workers \ Registered
  PROVE  curTid \in Slots /\ curTid + 1 \in 0..Cardinality(Workers)
  <1>1. IsFiniteSet(Registered) /\ Cardinality(Registered) \in Nat
    BY WorkersFinite, FS_Subset, FS_CardinalityType DEF Registered
  <1>2. Registered \in SUBSET Workers /\ Registered # Workers
    BY DEF Registered
  <1>3. Cardinality(Registered) <= Cardinality(Workers)
        /\ Cardinality(Registered) # Cardinality(Workers)
    BY <1>2, WorkersFinite, FS_Subset
  <1>4. Cardinality(Registered) < Cardinality(Workers)
    BY <1>1, <1>3, WorkersFinite
  <1> QED
    BY <1>1, <1>4, WorkersFinite DEF SlotsDistinct, Slots

\* sendfull appends one message to the stream of one client, or fails.
LEMMA DeliverTypes ==
  ASSUME StreamTypes, server = "up", NEW c, NEW msg \in Messages, Deliver(c, msg)
  PROVE  /\ s2c' \in [Clients -> Seq(Messages)]
         /\ server' \in {"up", "send failed"}
  <1>1. ASSUME NEW d \in Clients PROVE Append(s2c[d], msg) \in Seq(Messages)
    BY DEF StreamTypes
  <1>2. CASE s2c' = [s2c EXCEPT ![c] = Append(@, msg)] /\ UNCHANGED server
    <2>1. \A d \in Clients : s2c'[d] = IF d = c THEN Append(s2c[d], msg) ELSE s2c[d]
      BY <1>2 DEF StreamTypes
    <2>2. s2c' \in [Clients -> Seq(Messages)]
      BY <1>1, <1>2, <2>1 DEF StreamTypes
    <2> QED
      BY <1>2, <2>2
  <1>3. CASE UNCHANGED s2c /\ server' \in {"up", "send failed"}
    BY <1>3 DEF StreamTypes
  <1> QED
    BY <1>2, <1>3 DEF Deliver

\* The start of a broadcast and the end of it.
LEMMA BroadcastTypes ==
  ASSUME TypeOK, NEW w \in Workers, NEW msg \in Messages,
         NEW at \in {"broadcast", "finish"}, Broadcast(w, msg, at)
  PROVE  /\ bcast' \in [msg : Messages, it : 0..(NumClients + 1), end : 0..NumClients]
         /\ pc' = [pc EXCEPT ![w] = at]
  BY ServerAssumption DEF Broadcast, TypeOK, VectorTypes, ServerAssumption

\* Every step of a server thread or of a client keeps the types; the proof has
\* one step per operation.
LEMMA TypeStep ==
  ASSUME TypeOK, LocksExclusive, SlotsDistinct, [Next]_vars
  PROVE  TypeOK'
  <1> USE ServerAssumption DEF ServerAssumption, TypeOK
  <1>1. ASSUME NEW w \in Workers, WorkerStep(w) PROVE TypeOK'
    <2>0. server = "up"
      BY <1>1 DEF WorkerStep
    <2>1. CASE Arrive(w)
      BY <2>1 DEF Arrive, Free, QuotaOpen, ThreadTypes, RequestTypes, VectorTypes, StreamTypes, ClientTypes,
         Goto, idVars, lockVars, fdVars, countVars, clientVars
    <2>2. CASE ThreadStart(w)
      <3>1. w \in Workers \ Registered
        BY <2>2 DEF ThreadStart, Goto, Registered
      <3>2. ThreadTypes'
        BY <2>2, <3>1, SlotIsLeft DEF ThreadStart, NextTid, Goto, ThreadTypes, lockVars
      <3>3. RequestTypes' /\ StreamTypes' /\ ClientTypes'
        BY <2>2 DEF ThreadStart, RequestTypes, StreamTypes, ClientTypes, countVars, clientVars
      <3>4. VectorTypes'
        BY <2>2 DEF ThreadStart, Goto, VectorTypes, ThreadTypes, fdVars
      <3> QED
        BY <3>2, <3>3, <3>4
    <2>3. CASE CheckQuota(w)
      BY <2>3 DEF CheckQuota, Free, QuotaOpen, ThreadTypes, RequestTypes, VectorTypes, StreamTypes, ClientTypes,
         Goto, idVars, lockVars, fdVars, countVars, clientVars
    <2>4. CASE CountRequest(w)
      <3>0. RequestTypes'
        BY <2>4 DEF CountRequest, RequestTypes
      <3>1. ThreadTypes'
        BY <2>4 DEF CountRequest, Goto, ThreadTypes, idVars, lockVars
      <3>2. VectorTypes' /\ StreamTypes' /\ ClientTypes'
        BY <2>4 DEF CountRequest, Goto, ThreadTypes, VectorTypes, StreamTypes, ClientTypes,
                 fdVars, clientVars
      <3> QED
        BY <3>0, <3>1, <3>2
    <2>5. CASE LockRecv(w)
      BY <2>5 DEF LockRecv, Free, QuotaOpen, ThreadTypes, RequestTypes, VectorTypes, StreamTypes, ClientTypes,
         Goto, idVars, lockVars, fdVars, countVars, clientVars
    <2>6. CASE RecvRequest(w)
      <3>1. /\ Picked \in Clients
            /\ NextHead(fdCount, recvClientHead) \in 0..(fdCount - 1)
        BY <2>6, SelectedClient DEF RecvRequest
      <3>2. /\ c2s[Picked] \in Seq(Nat \cup {Cut}) /\ c2s[Picked] # <<>>
            /\ Head(c2s[Picked]) \in Nat
            /\ Tail(c2s[Picked]) \in Seq(Nat \cup {Cut})
        BY <2>6, <3>1 DEF RecvRequest, StreamTypes
      <3>3. ThreadTypes'
        BY <2>6 DEF RecvRequest, Goto, ThreadTypes, idVars
      <3>4. RequestTypes'
        BY <2>6, <3>1, <3>2 DEF RecvRequest, SlotOf, RequestTypes, ThreadTypes, countVars
      <3>5. VectorTypes'
        <4>1. \A v \in Workers : pc'[v] # "shrink"
          BY <2>6 DEF RecvRequest, Selects, Goto, ThreadTypes, LocksExclusive
        <4> QED
          BY <2>6, <3>1, <4>1 DEF RecvRequest, VectorTypes
      <3>6. StreamTypes'
        BY <2>6, <3>1, <3>2 DEF RecvRequest, StreamTypes
      <3>7. ClientTypes'
        BY <2>6 DEF RecvRequest, ClientTypes, clientVars
      <3> QED
        BY <3>3, <3>4, <3>5, <3>6, <3>7
    <2>7. CASE RecvEof(w)
      <3>1. /\ Picked \in Clients /\ fdCount \in 1..NumClients
            /\ NextHead(fdCount, recvClientHead) \in 0..(fdCount - 1)
        BY <2>7, SelectedClient DEF RecvEof
      <3>2. ThreadTypes'
        BY <2>7 DEF RecvEof, Goto, ThreadTypes, idVars, lockVars
      <3>3. RequestTypes' /\ ClientTypes'
        BY <2>7 DEF RecvEof, RequestTypes, ClientTypes, countVars, clientVars
      <3>4. fdMem' \in [Clients -> Clients]
        <4> DEFINE i == FindFd(fdMem, fdCount, Picked)
        <4>1. fdMem' = [k \in Clients |->
                          IF i <= k /\ k < fdCount THEN fdMem[k+1] ELSE fdMem[k]]
          BY <2>7 DEF RecvEof, MoveDown, VectorTypes
        <4>2. ASSUME NEW k \in Clients, k < fdCount PROVE fdMem[k+1] \in Clients
          BY <3>1, <4>2 DEF VectorTypes, Clients
        <4> HIDE DEF i
        <4> QED
          BY <4>1, <4>2 DEF VectorTypes
      <3>5. VectorTypes'
        BY <2>7, <3>1, <3>4 DEF RecvEof, VectorTypes
      <3>6. StreamTypes'
        BY <2>7, <3>1 DEF RecvEof, StreamTypes
      <3> QED
        BY <3>2, <3>3, <3>5, <3>6
    <2>8. CASE Shrink(w)
      <3>1. pc[w] = "shrink" /\ recvClientHead < fdCount
        BY <2>8 DEF Shrink, Goto, VectorTypes
      <3>2. \A v \in Workers \ {w} : pc[v] # "shrink"
        BY <3>1 DEF LocksExclusive
      <3>3. ThreadTypes'
        BY <2>8 DEF Shrink, Goto, ThreadTypes, idVars, lockVars
      <3>4. RequestTypes' /\ StreamTypes' /\ ClientTypes'
        BY <2>8 DEF Shrink, RequestTypes, StreamTypes, ClientTypes, countVars, clientVars
      <3>5. \A v \in Workers : pc'[v] # "shrink"
        BY <2>8, <3>2 DEF Shrink, Goto, ThreadTypes
      <3>6. VectorTypes'
        BY <2>8, <3>1, <3>5 DEF Shrink, VectorTypes
      <3> QED
        BY <3>3, <3>4, <3>6
    <2>9. CASE RecvTruncated(w)
      BY <2>9 DEF RecvTruncated, Free, QuotaOpen, ThreadTypes, RequestTypes, VectorTypes, StreamTypes, ClientTypes,
         Goto, idVars, lockVars, fdVars, countVars, clientVars
    <2>10. CASE AllClientsGone(w)
      BY <2>10 DEF AllClientsGone, Free, QuotaOpen, ThreadTypes, RequestTypes, VectorTypes, StreamTypes, ClientTypes,
         Goto, idVars, lockVars, fdVars, countVars, clientVars
    <2>11. CASE LockSend(w)
      BY <2>11 DEF LockSend, Free, QuotaOpen, ThreadTypes, RequestTypes, VectorTypes, StreamTypes, ClientTypes,
         Goto, idVars, lockVars, fdVars, countVars, clientVars
    <2>12. CASE Respond(w)
      <3>1. RespMsg(slot[tid[w]].id) \in Messages /\ RoiBegin \in Messages
            /\ Finish \in Messages
        BY DEF RespMsg, RoiBegin, Finish, Messages, RequestTypes, ThreadTypes
      <3>2. /\ s2c' \in [Clients -> Seq(Messages)]
            /\ server' \in {"up", "send failed"}
        BY <2>12, <2>0, <3>1, DeliverTypes DEF Respond
      <3>3. /\ bcast' \in [msg : Messages, it : 0..(NumClients + 1), end : 0..NumClients]
            /\ pc' = [pc EXCEPT ![w] = "broadcast"] \/ pc' = [pc EXCEPT ![w] = "count"]
            /\ sendLock' \in {sendLock, NoThread}
        BY <2>12, <3>1, BroadcastTypes DEF Respond, RequestTypes
      <3>4. ThreadTypes'
        BY <2>12, <3>2, <3>3 DEF Respond, ThreadTypes, idVars
      <3>5. RequestTypes'
        BY <2>12, <3>3 DEF Respond, RequestTypes
      <3>6. VectorTypes'
        BY <2>12, <3>3 DEF Respond, VectorTypes, ThreadTypes, fdVars
      <3>7. StreamTypes' /\ ClientTypes'
        BY <2>12, <3>2 DEF Respond, StreamTypes, ClientTypes, clientVars
      <3> QED
        BY <3>4, <3>5, <3>6, <3>7
    <2>13. CASE BroadcastSend(w)
      <3>1. /\ s2c' \in [Clients -> Seq(Messages)]
            /\ server' \in {"up", "send failed"}
        BY <2>13, <2>0, DeliverTypes DEF BroadcastSend, RequestTypes
      <3>2. ThreadTypes'
        BY <2>13, <3>1 DEF BroadcastSend, ThreadTypes, idVars, lockVars
      <3>3. RequestTypes'
        BY <2>13 DEF BroadcastSend, RequestTypes, countVars
      <3>4. VectorTypes' /\ StreamTypes' /\ ClientTypes'
        BY <2>13, <3>1 DEF BroadcastSend, VectorTypes, StreamTypes, ClientTypes, fdVars, clientVars
      <3> QED
        BY <3>2, <3>3, <3>4
    <2>14. CASE BroadcastEnd(w)
      <3>1. pc' = [pc EXCEPT ![w] = "count"] \/ pc' = [pc EXCEPT ![w] = "return"]
        BY <2>14 DEF BroadcastEnd, Goto
      <3>2. ThreadTypes'
        BY <2>14, <3>1 DEF BroadcastEnd, ThreadTypes, idVars
      <3>3. RequestTypes'
        BY <2>14 DEF BroadcastEnd, RequestTypes, countVars, Idle, Finish, Messages
      <3>4. VectorTypes'
        BY <2>14, <3>1 DEF BroadcastEnd, VectorTypes, ThreadTypes, fdVars
      <3>5. StreamTypes' /\ ClientTypes'
        BY <2>14 DEF BroadcastEnd, StreamTypes, ClientTypes, clientVars
      <3> QED
        BY <3>2, <3>3, <3>4, <3>5
    <2>15. CASE JoinAndFinish(w)
      <3>1. /\ bcast' \in [msg : Messages, it : 0..(NumClients + 1), end : 0..NumClients]
            /\ pc' = [pc EXCEPT ![w] = "finish"]
        BY <2>15, BroadcastTypes DEF JoinAndFinish, Finish, Messages
      <3>2. ThreadTypes'
        BY <2>15, <3>1 DEF JoinAndFinish, ThreadTypes, idVars
      <3>3. RequestTypes'
        BY <2>15, <3>1 DEF JoinAndFinish, RequestTypes, countVars
      <3>4. VectorTypes'
        BY <2>15, <3>1 DEF JoinAndFinish, VectorTypes, ThreadTypes, fdVars
      <3>5. StreamTypes' /\ ClientTypes'
        BY <2>15 DEF JoinAndFinish, StreamTypes, ClientTypes, clientVars
      <3> QED
        BY <3>2, <3>3, <3>4, <3>5
    <2>16. CASE MainReturns(w)
      BY <2>16 DEF MainReturns, Free, QuotaOpen, ThreadTypes, RequestTypes, VectorTypes, StreamTypes, ClientTypes,
         Goto, idVars, lockVars, fdVars, countVars, clientVars
    <2> QED
      BY <1>1, <2>1, <2>2, <2>3, <2>4, <2>5, <2>6, <2>7, <2>8,
         <2>9, <2>10, <2>11, <2>12, <2>13, <2>14, <2>15, <2>16 DEF WorkerStep
  <1>2. ASSUME NEW c \in Clients, ClientSend(c) PROVE TypeOK'
    <2>1. started[c] \in Nat /\ started[c] + 1 \in 0..Supply
      BY <1>2 DEF ClientSend, ClientTypes
    <2>2. ThreadTypes' /\ RequestTypes' /\ VectorTypes'
      BY <1>2 DEF ClientSend, ThreadTypes, RequestTypes, VectorTypes, serverVars,
                  idVars, lockVars, fdVars, countVars
    <2>3. StreamTypes'
      BY <1>2, <2>1 DEF ClientSend, StreamTypes
    <2>4. ClientTypes'
      BY <1>2, <2>1 DEF ClientSend, ClientTypes
    <2> QED
      BY <2>2, <2>3, <2>4
  <1>3. ASSUME NEW c \in Clients, ClientReceive(c) \/ ClientKilled(c) PROVE TypeOK'
    <2>1. ThreadTypes' /\ RequestTypes' /\ VectorTypes'
      BY <1>3 DEF ClientReceive, ClientResponse, ClientRoiBegin, ClientFinish, ClientKilled,
                  ThreadTypes, RequestTypes, VectorTypes, serverVars,
                  idVars, lockVars, fdVars, countVars
    <2>2. s2c' \in [Clients -> Seq(Messages)]
      <3>1. s2c[c] # <<>> => Tail(s2c[c]) \in Seq(Messages)
        BY DEF StreamTypes
      <3>2. UNCHANGED s2c \/ (s2c[c] # <<>> /\ s2c' = [s2c EXCEPT ![c] = Tail(@)])
        BY <1>3 DEF ClientReceive, ClientResponse, ClientRoiBegin, ClientFinish,
                    ClientKilled, Receives
      <3> QED
        BY <3>1, <3>2 DEF StreamTypes
    <2>3. c2s' \in [Clients -> Seq(Nat \cup {Cut})]
      <3>1. Append(c2s[c], Cut) \in Seq(Nat \cup {Cut})
        BY DEF StreamTypes
      <3>2. UNCHANGED c2s \/ c2s' = [c2s EXCEPT ![c] = Append(@, Cut)]
        BY <1>3 DEF ClientReceive, ClientResponse, ClientRoiBegin, ClientFinish,
                    ClientKilled, Leaves
      <3> QED
        BY <3>1, <3>2 DEF StreamTypes
    <2>4. ClientTypes'
      <3>1. CASE ClientResponse(c)
        <4>1. inFlight' \in [Clients -> SUBSET Nat] /\ UNCHANGED <<phase, started>>
          BY <3>1 DEF ClientResponse, ClientTypes
        <4>2. samples' = [samples EXCEPT ![c] = samples[c] + 1] \/ UNCHANGED samples
          BY <3>1 DEF ClientResponse, ClientTypes
        <4>3. samples' \in [Clients -> Nat]
          BY <4>2 DEF ClientTypes
        <4> QED
          BY <4>1, <4>3 DEF ClientTypes
      <3>2. CASE ClientRoiBegin(c)
        <4>1. /\ \E how \in {"ROI", "ABORTED"} : phase' = [phase EXCEPT ![c] = how]
              /\ samples' = [samples EXCEPT ![c] = 0] \/ UNCHANGED samples
              /\ UNCHANGED <<started, inFlight>>
          BY <3>2 DEF ClientRoiBegin, Leaves
        <4> QED
          BY <4>1 DEF ClientTypes
      <3>3. CASE ClientFinish(c) \/ ClientKilled(c)
        BY <3>3 DEF ClientFinish, ClientKilled, Leaves, ClientTypes
      <3> QED
        BY <1>3, <3>1, <3>2, <3>3 DEF ClientReceive
    <2> QED
      BY <2>1, <2>2, <2>3, <2>4 DEF StreamTypes
  <1>4. ASSUME NEW c \in Clients, ResetLoses(c) PROVE TypeOK'
    <2>1. ASSUME NEW S, NEW s \in Seq(S), s # <<>> PROVE Front(s) \in Seq(S)
      BY <2>1 DEF Front
    <2>2. /\ c2s[c] # <<>> => Front(c2s[c]) \in Seq(Nat \cup {Cut})
          /\ s2c[c] # <<>> => Front(s2c[c]) \in Seq(Messages)
      BY <2>1 DEF StreamTypes
    <2>3. StreamTypes'
      BY <1>4, <2>2 DEF ResetLoses, StreamTypes
    <2>4. ThreadTypes' /\ RequestTypes' /\ VectorTypes' /\ ClientTypes'
      BY <1>4 DEF ResetLoses, ThreadTypes, RequestTypes, VectorTypes, ClientTypes,
                  serverVars, clientVars, idVars, lockVars, fdVars, countVars
    <2> QED
      BY <2>3, <2>4
  <1>5. CASE UNCHANGED vars
    BY <1>5 DEF ThreadTypes, RequestTypes, VectorTypes, StreamTypes, ClientTypes, vars,
                serverVars, clientVars, idVars, lockVars, fdVars, countVars
  <1> QED
    BY <1>1, <1>2, <1>3, <1>4, <1>5 DEF Next, Stopped
-----------------------------------------------------------------------------
(* The locks.                                                              *)

\* The steps of the clients and of the network leave the server alone.
LEMMA ClientStepsServer ==
  ASSUME NEW c \in Clients,
         ClientSend(c) \/ ClientReceive(c) \/ ClientKilled(c) \/ ResetLoses(c)
  PROVE  UNCHANGED serverVars
  BY DEF ClientSend, ClientReceive, ClientResponse, ClientRoiBegin, ClientFinish,
         ClientKilled, ResetLoses

\* Every step keeps the ownership of recvLock and sendLock in agreement with
\* where each worker is.
LEMMA LocksStep ==
  ASSUME TypeOK, LocksExclusive, [Next]_vars
  PROVE  LocksExclusive'
  <1> USE ServerAssumption DEF ServerAssumption, ThreadTypes, LocksExclusive
  <1>0. ThreadTypes
    BY DEF TypeOK
  <1>1. ASSUME NEW w \in Workers, WorkerStep(w) PROVE LocksExclusive'
    <2>1. CASE Arrive(w)
      BY <1>0, <2>1 DEF Arrive, Free, Goto, lockVars
    <2>2. CASE ThreadStart(w)
      BY <1>0, <2>2 DEF ThreadStart, Free, Goto, lockVars
    <2>3. CASE CheckQuota(w)
      BY <1>0, <2>3 DEF CheckQuota, Free, Goto, lockVars
    <2>4. CASE CountRequest(w)
      BY <1>0, <2>4 DEF CountRequest, Free, Goto, lockVars
    <2>5. CASE LockRecv(w)
      BY <1>0, <2>5 DEF LockRecv, Free, Goto, lockVars
    <2>6. CASE RecvRequest(w)
      BY <1>0, <2>6 DEF RecvRequest, Free, Goto, lockVars, Selects
    <2>7. CASE RecvEof(w)
      BY <1>0, <2>7 DEF RecvEof, Free, Goto, lockVars, Selects
    <2>8. CASE Shrink(w)
      BY <1>0, <2>8 DEF Shrink, Free, Goto, lockVars
    <2>9. CASE RecvTruncated(w)
      BY <1>0, <2>9 DEF RecvTruncated, Free, Goto, lockVars
    <2>10. CASE AllClientsGone(w)
      BY <1>0, <2>10 DEF AllClientsGone, Free, Goto, lockVars
    <2>11. CASE LockSend(w)
      BY <1>0, <2>11 DEF LockSend, Free, Goto, lockVars
    <2>12. CASE Respond(w)
      BY <1>0, <2>12 DEF Respond, Free, Goto, lockVars, Broadcast
    <2>13. CASE BroadcastSend(w)
      BY <1>0, <2>13 DEF BroadcastSend, Free, Goto, lockVars
    <2>14. CASE BroadcastEnd(w)
      BY <1>0, <2>14 DEF BroadcastEnd, Free, Goto, lockVars
    <2>15. CASE JoinAndFinish(w)
      BY <1>0, <2>15 DEF JoinAndFinish, Free, Goto, lockVars, Broadcast, AllJoined
    <2>16. CASE MainReturns(w)
      BY <1>0, <2>16 DEF MainReturns, Free, Goto, lockVars
    <2> QED
      BY <1>1, <2>1, <2>2, <2>3, <2>4, <2>5, <2>6, <2>7, <2>8,
         <2>9, <2>10, <2>11, <2>12, <2>13, <2>14, <2>15, <2>16 DEF WorkerStep
  <1>2. CASE UNCHANGED serverVars
    BY <1>2 DEF serverVars, lockVars
  <1> QED
    BY <1>1, <1>2, ClientStepsServer DEF Next, Stopped, vars
-----------------------------------------------------------------------------
(* The thread slots.                                                       *)

\* Every step keeps the slots of the registered workers distinct: curTid++ hands
\* out a number nobody has.
LEMMA SlotsStep ==
  ASSUME TypeOK, SlotsDistinct, [Next]_vars
  PROVE  SlotsDistinct'
  <1>0. ThreadTypes
    BY DEF TypeOK
  <1>1. CASE Registered' = Registered /\ UNCHANGED idVars
    BY <1>1 DEF SlotsDistinct, idVars
  <1>2. ASSUME NEW w \in Workers, ThreadStart(w) PROVE SlotsDistinct'
    <2>1. /\ w \notin Registered /\ w \in Workers
          /\ Registered' = Registered \cup {w}
      BY <1>0, <1>2 DEF ThreadStart, Goto, Registered, ThreadTypes
    <2>2. IsFiniteSet(Registered) /\ Cardinality(Registered) \in Nat
      BY WorkersFinite, FS_Subset, FS_CardinalityType DEF Registered
    <2>3. Cardinality(Registered') = Cardinality(Registered) + 1
      BY <2>1, <2>2, FS_AddElement
    <2>4. /\ curTid' = curTid + 1
          /\ tid'[w] = curTid
          /\ \A v \in Registered : tid'[v] = tid[v] /\ tid[v] \in Nat
      <3>1. tid \in [Workers -> Nat] /\ Registered \subseteq Workers
        <4>1. Slots \subseteq Nat
          BY WorkersFinite DEF Slots
        <4> QED
          BY <1>0, <4>1 DEF ThreadTypes, Registered
      <3>2. curTid' = curTid + 1 /\ tid' = [tid EXCEPT ![w] = curTid]
        BY <1>2 DEF ThreadStart, NextTid
      <3> QED
        BY <2>1, <3>1, <3>2
    <2>5. \A v \in Registered : tid'[v] < curTid
      BY <2>4 DEF SlotsDistinct
    <2> QED
      BY <2>1, <2>2, <2>3, <2>4, <2>5 DEF SlotsDistinct
  <1>3. ASSUME NEW w \in Workers, WorkerStep(w), ~ThreadStart(w)
        PROVE  Registered' = Registered /\ UNCHANGED idVars
    <2>1. CASE Arrive(w)
      BY <1>0, <2>1 DEF Arrive, Goto, Registered, ThreadTypes
    <2>2. CASE CheckQuota(w)
      BY <1>0, <2>2 DEF CheckQuota, Goto, Registered, ThreadTypes
    <2>3. CASE CountRequest(w)
      BY <1>0, <2>3 DEF CountRequest, Goto, Registered, ThreadTypes
    <2>4. CASE LockRecv(w)
      BY <1>0, <2>4 DEF LockRecv, Goto, Registered, ThreadTypes
    <2>5. CASE RecvRequest(w)
      BY <1>0, <2>5 DEF RecvRequest, Goto, Registered, ThreadTypes, Selects
    <2>6. CASE RecvEof(w)
      BY <1>0, <2>6 DEF RecvEof, Goto, Registered, ThreadTypes, Selects
    <2>7. CASE Shrink(w)
      BY <1>0, <2>7 DEF Shrink, Goto, Registered, ThreadTypes
    <2>8. CASE RecvTruncated(w)
      BY <1>0, <2>8 DEF RecvTruncated, Goto, Registered, ThreadTypes
    <2>9. CASE AllClientsGone(w)
      BY <1>0, <2>9 DEF AllClientsGone, Goto, Registered, ThreadTypes
    <2>10. CASE LockSend(w)
      BY <1>0, <2>10 DEF LockSend, Goto, Registered, ThreadTypes
    <2>11. CASE Respond(w)
      BY <1>0, <2>11 DEF Respond, Goto, Registered, ThreadTypes, Broadcast
    <2>12. CASE BroadcastSend(w)
      BY <1>0, <2>12 DEF BroadcastSend, Goto, Registered, ThreadTypes
    <2>13. CASE BroadcastEnd(w)
      BY <1>0, <2>13 DEF BroadcastEnd, Goto, Registered, ThreadTypes
    <2>14. CASE JoinAndFinish(w)
      BY <1>0, <2>14 DEF JoinAndFinish, Goto, Registered, ThreadTypes, Broadcast, AllJoined
    <2>15. CASE MainReturns(w)
      BY <1>0, <2>15 DEF MainReturns, Goto, Registered, ThreadTypes
    <2> QED
      BY <1>3, <2>1, <2>2, <2>3, <2>4, <2>5, <2>6, <2>7, <2>8,
         <2>9, <2>10, <2>11, <2>12, <2>13, <2>14, <2>15 DEF WorkerStep
  <1>4. CASE UNCHANGED serverVars
    BY <1>1, <1>4 DEF serverVars, Registered
  <1> QED
    BY <1>1, <1>2, <1>3, <1>4, ClientStepsServer DEF Next, Stopped, vars
-----------------------------------------------------------------------------
(* The quota.  A worker in the body of the loop has reserved the increment *)
(* it is going to make: numReqsProcessed plus the number of these workers  *)
(* grows only when a worker passes the test of the loop, where the counter *)
(* is below the quota and the worker itself is not one of them.            *)

\* The workers inside the body of the loop of _run can be counted.
LEMMA InBodyFinite ==
  IsFiniteSet(InBody) /\ Cardinality(InBody) \in Nat
  BY WorkersFinite, FS_Subset, FS_CardinalityType DEF InBody

\* Every step keeps processed plus committed requests below quota plus workers.
LEMMA QuotaStep ==
  ASSUME TypeOK, QuotaReserved, [Next]_vars
  PROVE  QuotaReserved'
  <1> USE ServerAssumption, WorkersFinite DEF ServerAssumption
  <1>0. ThreadTypes /\ numReqsProcessed \in Nat
    BY DEF TypeOK, RequestTypes
  <1>1. CASE InBody' = InBody /\ UNCHANGED numReqsProcessed
    BY <1>1 DEF QuotaReserved
  <1>2. ASSUME NEW w \in Workers, CheckQuota(w) PROVE QuotaReserved'
    <2>1. CASE numReqsProcessed < NumReqsToProcess /\ Goto(w, "check", "recv")
      <3>1. w \in Workers \ InBody /\ InBody' = InBody \cup {w}
        BY <1>0, <2>1 DEF Goto, InBody, ThreadTypes
      <3>2. Cardinality(InBody') = Cardinality(InBody) + 1
        BY <3>1, InBodyFinite, FS_AddElement
      <3>3. Cardinality(InBody) < Cardinality(Workers)
        <4>1. InBody \in SUBSET Workers /\ InBody # Workers
          BY <3>1 DEF InBody
        <4>2. /\ Cardinality(InBody) <= Cardinality(Workers)
              /\ Cardinality(InBody) # Cardinality(Workers)
          BY <4>1, FS_Subset
        <4> QED
          BY <4>2, InBodyFinite
      <3>4. numReqsProcessed' = numReqsProcessed
        BY <1>2 DEF CheckQuota, countVars
      <3> QED
        BY <1>0, <2>1, <3>2, <3>3, <3>4, InBodyFinite DEF QuotaReserved
    <2>2. CASE Goto(w, "check", "done")
      <3>1. InBody' = InBody
        BY <1>0, <2>2 DEF Goto, InBody, ThreadTypes
      <3> QED
        BY <1>1, <1>2, <3>1 DEF CheckQuota, countVars
    <2> QED
      BY <1>2, <2>1, <2>2 DEF CheckQuota, QuotaOpen
  <1>3. ASSUME NEW w \in Workers, CountRequest(w) PROVE QuotaReserved'
    <2>1. w \in InBody /\ InBody' = InBody \ {w}
      BY <1>0, <1>3 DEF CountRequest, Goto, InBody, ThreadTypes
    <2>2. Cardinality(InBody') = Cardinality(InBody) - 1
      BY <2>1, InBodyFinite, FS_RemoveElement
    <2> QED
      BY <1>0, <1>3, <2>2, InBodyFinite DEF CountRequest, QuotaReserved
  <1>4. ASSUME NEW w \in Workers, WorkerStep(w), ~CheckQuota(w), ~CountRequest(w)
        PROVE  InBody' = InBody /\ UNCHANGED numReqsProcessed
    <2>1. CASE Arrive(w)
      BY <1>0, <2>1 DEF Arrive, Goto, InBody, ThreadTypes, countVars
    <2>2. CASE ThreadStart(w)
      BY <1>0, <2>2 DEF ThreadStart, Goto, InBody, ThreadTypes, countVars
    <2>3. CASE LockRecv(w)
      BY <1>0, <2>3 DEF LockRecv, Goto, InBody, ThreadTypes, countVars
    <2>4. CASE RecvRequest(w)
      BY <1>0, <2>4 DEF RecvRequest, Goto, InBody, ThreadTypes, countVars, Selects
    <2>5. CASE RecvEof(w)
      BY <1>0, <2>5 DEF RecvEof, Goto, InBody, ThreadTypes, countVars, Selects
    <2>6. CASE Shrink(w)
      BY <1>0, <2>6 DEF Shrink, Goto, InBody, ThreadTypes, countVars
    <2>7. CASE RecvTruncated(w)
      BY <1>0, <2>7 DEF RecvTruncated, Goto, InBody, ThreadTypes, countVars
    <2>8. CASE AllClientsGone(w)
      BY <1>0, <2>8 DEF AllClientsGone, Goto, InBody, ThreadTypes, countVars
    <2>9. CASE LockSend(w)
      BY <1>0, <2>9 DEF LockSend, Goto, InBody, ThreadTypes, countVars
    <2>10. CASE Respond(w)
      BY <1>0, <2>10 DEF Respond, Goto, InBody, ThreadTypes, countVars, Broadcast
    <2>11. CASE BroadcastSend(w)
      BY <1>0, <2>11 DEF BroadcastSend, Goto, InBody, ThreadTypes, countVars
    <2>12. CASE BroadcastEnd(w)
      BY <1>0, <2>12 DEF BroadcastEnd, Goto, InBody, ThreadTypes, countVars
    <2>13. CASE JoinAndFinish(w)
      BY <1>0, <2>13 DEF JoinAndFinish, Goto, InBody, ThreadTypes, countVars, Broadcast, AllJoined
    <2>14. CASE MainReturns(w)
      BY <1>0, <2>14 DEF MainReturns, Goto, InBody, ThreadTypes, countVars
    <2> QED
      BY <1>4, <2>1, <2>2, <2>3, <2>4, <2>5, <2>6, <2>7, <2>8,
         <2>9, <2>10, <2>11, <2>12, <2>13, <2>14 DEF WorkerStep
  <1>5. CASE UNCHANGED serverVars
    BY <1>1, <1>5 DEF serverVars, countVars, InBody
  <1> QED
    BY <1>1, <1>2, <1>3, <1>4, <1>5, ClientStepsServer DEF Next, Stopped, vars
-----------------------------------------------------------------------------
(* The theorems.                                                           *)

\* The inductive invariant.
IndInv == TypeOK /\ LocksExclusive /\ SlotsDistinct /\ QuotaReserved

\* The inductive invariant holds when the process starts.
LEMMA IndInvInit == Init => IndInv
  <1> SUFFICES ASSUME Init PROVE IndInv
    OBVIOUS
  <1> USE ServerAssumption, WorkersFinite DEF ServerAssumption
  <1>1. TypeOK
    BY TypeInit
  <1>2. LocksExclusive
    BY DEF Init, LocksExclusive
  <1>3. Registered = {} /\ InBody = {}
    BY DEF Init, Registered, InBody
  <1>4. SlotsDistinct
    BY <1>3, FS_EmptySet DEF Init, SlotsDistinct
  <1>5. QuotaReserved
    BY <1>3, FS_EmptySet DEF Init, QuotaReserved
  <1> QED
    BY <1>1, <1>2, <1>4, <1>5 DEF IndInv

\* The inductive invariant is kept by every step.
LEMMA IndInvStep == IndInv /\ [Next]_vars => IndInv'
  BY TypeStep, LocksStep, SlotsStep, QuotaStep DEF IndInv

\* The inductive invariant holds of every reachable state of the server.
LEMMA IndInvHolds == Spec => []IndInv
  BY IndInvInit, IndInvStep, PTL DEF Spec

\* Every variable keeps its type; in particular the receive queue's head, the
\* size of clientFds and the slot numbers stay in range for any number of
\* clients that leave.
THEOREM TypeCorrect == Spec => []TypeOK
  BY IndInvHolds, PTL DEF IndInv

\* Whoever is inside recvReq or sendResp owns the lock, so requests are read
\* and responses written by one worker at a time.
THEOREM OneWorkerPerLock == Spec => []LocksExclusive
  BY IndInvHolds, PTL DEF IndInv

\* No two workers share a slot of reqInfo, reqbuf and activeFds.
THEOREM SlotsAreDistinct == Spec => []SlotsDistinct
  BY IndInvHolds, PTL DEF IndInv

\* The processed requests, with those the workers are committed to, exceed the
\* quota by less than the number of workers.
THEOREM QuotaIsReserved == Spec => []QuotaReserved
  BY IndInvHolds, PTL DEF IndInv

\* The server processes at most numReqsToProcess + nthreads - 1 requests.
THEOREM QuotaIsMet == Spec => []QuotaOvershoot
  <1>1. IndInv => QuotaOvershoot
    BY InBodyFinite, WorkersFinite, ServerAssumption
       DEF IndInv, TypeOK, RequestTypes, QuotaReserved, QuotaOvershoot, ServerAssumption
  <1> QED
    BY <1>1, IndInvHolds, PTL
=============================================================================
