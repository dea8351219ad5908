----------------------- MODULE NetworkedServiceProofs -----------------------
(***************************************************************************)
(* NetworkedServer implements ExactlyOnce, and what that needs: no live    *)
(* client is dropped from clientFds, and no request is in two places.      *)
(* Further, what a clean return of main leaves behind; whom the broadcasts *)
(* of ROI_BEGIN and FINISH reach; and how many latencies are recorded.     *)
(* For any number of workers and, where nothing else is said, of clients.  *)
(***************************************************************************)
EXTENDS NetworkedServerProofs

-----------------------------------------------------------------------------
(* The vector clientFds.                                                   *)

\* Only a client that has left sends a truncated message.
CutInv ==
  \A c \in Clients : Connected(c) => \A i \in DOMAIN c2s[c] : c2s[c][i] # Cut

\* The elements of the vector, without the cell that an erase is about to give up.
Erasing == \E w \in Workers : pc[w] = "shrink"
Listed == IF Erasing THEN fdCount - 1 ELSE fdCount

\* No element is there twice, and every live client is one.
ListInv ==
  /\ \A i, j \in 1..Listed : fdMem[i] = fdMem[j] => i = j
  /\ \A c \in Clients : Connected(c) => \E i \in 1..Listed : fdMem[i] = c

\* Clients never come back.
LEMMA StaysGone ==
  ASSUME TypeOK, [Next]_vars, NEW c \in Clients, Connected(c)'
  PROVE  Connected(c)
  <1>1. UNCHANGED phase \/ \E d \in Clients, how \in {"ROI", "ABORTED", "FINISHED", "KILLED"} :
                              Connected(d) /\ phase' = [phase EXCEPT ![d] = how]
    <2>1. ASSUME NEW w \in Workers, WorkerStep(w) PROVE UNCHANGED phase
      BY <2>1 DEF WorkerStep, Arrive, ThreadStart, CheckQuota, CountRequest, LockRecv,
           RecvRequest, RecvEof, Shrink, RecvTruncated, AllClientsGone, LockSend, Respond,
           BroadcastSend, BroadcastEnd, JoinAndFinish, MainReturns, clientVars
    <2>2. ASSUME NEW d \in Clients,
                 ClientSend(d) \/ ClientReceive(d) \/ ClientKilled(d) \/ ResetLoses(d)
          PROVE  UNCHANGED phase \/ \E how \in {"ROI", "ABORTED", "FINISHED", "KILLED"} :
                              Connected(d) /\ phase' = [phase EXCEPT ![d] = how]
      BY <2>2 DEF ClientSend, ClientReceive, ClientResponse, ClientRoiBegin, ClientFinish,
           ClientKilled, ResetLoses, Leaves, Receives, clientVars
    <2>3. CASE UNCHANGED vars
      BY <2>3 DEF vars, clientVars
    <2> QED
      BY <2>1, <2>2, <2>3 DEF Next, Stopped
  <1> QED
    BY <1>1 DEF TypeOK, ClientTypes, Connected

\* A message is cut off only by a client that leaves with it.
LEMMA CutStep ==
  ASSUME TypeOK, CutInv, [Next]_vars
  PROVE  CutInv'
  <1> SUFFICES ASSUME NEW c \in Clients, Connected(c)', NEW i \in DOMAIN c2s'[c]
               PROVE  c2s'[c][i] # Cut
    BY DEF CutInv
  <1>1. Connected(c) /\ c2s[c] \in Seq(Nat \cup {Cut}) /\ c2s \in [Clients -> Seq(Nat \cup {Cut})]
    BY StaysGone DEF TypeOK, StreamTypes
  <1>2. \A j \in DOMAIN c2s[c] : c2s[c][j] # Cut
    BY <1>1 DEF CutInv
  <1>3. ASSUME NEW w \in Workers, WorkerStep(w) PROVE c2s'[c][i] # Cut
    <2>1. CASE RecvRequest(w)
      BY <1>1, <1>2, <2>1, SelectedClient DEF RecvRequest
    <2>2. CASE RecvEof(w)
      BY <1>1, <1>2, <2>2, SelectedClient DEF RecvEof
    <2>3. CASE ~RecvRequest(w) /\ ~RecvEof(w)
      <3>1. UNCHANGED c2s
        BY <1>3, <2>3 DEF WorkerStep, Arrive, ThreadStart, CheckQuota, CountRequest, LockRecv,
             Shrink, RecvTruncated, AllClientsGone, LockSend, Respond,
             BroadcastSend, BroadcastEnd, JoinAndFinish, MainReturns
      <3> QED
        BY <1>2, <3>1
    <2> QED
      BY <2>1, <2>2, <2>3
  <1>4. ASSUME NEW d \in Clients, ClientSend(d) PROVE c2s'[c][i] # Cut
    <2>1. started[d] \in Nat /\ started[d] # Cut
      BY ServerAssumption DEF TypeOK, ClientTypes, ServerAssumption, Cut
    <2> QED
      BY <1>1, <1>2, <1>4, <2>1 DEF ClientSend
  <1>5. ASSUME NEW d \in Clients, ClientReceive(d) \/ ClientKilled(d) PROVE c2s'[c][i] # Cut
    <2>1. UNCHANGED c2s \/ \E how \in {"ABORTED", "FINISHED", "KILLED"} : Leaves(d, how)
      BY <1>5 DEF ClientReceive, ClientResponse, ClientRoiBegin, ClientFinish, ClientKilled
    <2>2. ASSUME NEW how \in {"ABORTED", "FINISHED", "KILLED"}, Leaves(d, how)
          PROVE  c2s'[c] = c2s[c]
      <3>1. c # d
        BY <2>2 DEF Leaves, Connected, TypeOK, ClientTypes
      <3> QED
        BY <1>1, <2>2, <3>1 DEF Leaves
    <2> QED
      BY <1>2, <2>1, <2>2
  <1>6. ASSUME NEW d \in Clients, ResetLoses(d) PROVE c2s'[c][i] # Cut
    <2>1. UNCHANGED c2s \/ (~Connected(d) /\ c2s' = [c2s EXCEPT ![d] = Front(@)])
      BY <1>6 DEF ResetLoses
    <2>2. c2s'[c] = c2s[c]
      BY <1>1, <2>1
    <2> QED
      BY <1>2, <2>2
  <1>7. CASE UNCHANGED vars
    BY <1>2, <1>7 DEF vars
  <1> QED
    BY <1>3, <1>4, <1>5, <1>6, <1>7 DEF Next, Stopped

\* std::find finds an element of the vector.
LEMMA FindFinds ==
  ASSUME NEW mem, NEW n \in Nat, NEW fd, fd \in Elements(mem, n)
  PROVE  FindFd(mem, n, fd) \in 1..n /\ mem[FindFd(mem, n, fd)] = fd
  <1> DEFINE Hits == {i \in 1..n : mem[i] = fd}
             First(i) == mem[i] = fd /\ \A j \in 1..(i-1) : mem[j] # fd
  <1>1. Hits # {} /\ Hits \in SUBSET Nat
    BY DEF Elements
  <1>2. PICK i \in Hits : \A j \in Hits : ~(j < i)
    BY <1>1, LeastNatural
  <1>3. i \in 1..n /\ First(i)
    BY <1>2
  <1>4. FindFd(mem, n, fd) = CHOOSE k \in 1..n : First(k)
    BY DEF FindFd
  <1> HIDE DEF First
  <1>5. FindFd(mem, n, fd) \in 1..n /\ First(FindFd(mem, n, fd))
    BY <1>3, <1>4
  <1> QED
    BY <1>5 DEF First

\* recvReq erases a client that has left.
LEMMA ErasesGone ==
  ASSUME TypeOK, CutInv, NEW w \in Workers, RecvEof(w)
  PROVE  ~Connected(Picked)
  <1>1. Picked \in Clients /\ Picked \in Readable
    BY SelectedClient DEF RecvEof
  <1>2. CASE c2s[Picked] = <<>>
    BY <1>1, <1>2 DEF Readable
  <1>3. CASE c2s[Picked] = <<Cut>>
    <2>1. 1 \in DOMAIN c2s[Picked] /\ c2s[Picked][1] = Cut
      BY <1>3
    <2> QED
      BY <1>1, <2>1 DEF CutInv
  <1> QED
    BY <1>2, <1>3 DEF RecvEof

\* Only recvReq, under recvLock, changes the vector.
LEMMA VectorKept ==
  ASSUME TypeOK, NEW w \in Workers, WorkerStep(w), ~RecvEof(w), ~Shrink(w)
  PROVE  /\ UNCHANGED <<fdMem, fdCount, phase>>
         /\ \A v \in Workers : pc'[v] = "shrink" <=> pc[v] = "shrink"
  <1>0. ThreadTypes
    BY DEF TypeOK
  <1>1. UNCHANGED <<fdMem, fdCount, phase>>
    BY DEF WorkerStep, Arrive, ThreadStart, CheckQuota, CountRequest, LockRecv,
           RecvRequest, RecvTruncated, AllClientsGone, LockSend, Respond,
           BroadcastSend, BroadcastEnd, JoinAndFinish, MainReturns, clientVars, fdVars
  <1>2. \/ UNCHANGED pc
        \/ \E from, to : Goto(w, from, to) /\ from # "shrink" /\ to # "shrink"
        \/ \E to : pc[w] # "shrink" /\ to # "shrink" /\ pc' = [pc EXCEPT ![w] = to]
    <2>1. CASE Arrive(w) \/ ThreadStart(w) \/ CheckQuota(w) \/ CountRequest(w) \/ LockRecv(w)
               \/ LockSend(w)
      BY <2>1 DEF Arrive, ThreadStart, CheckQuota, CountRequest, LockRecv, LockSend, Goto
    <2>2. CASE RecvRequest(w) \/ BroadcastEnd(w)
      BY <2>2 DEF RecvRequest, BroadcastEnd, Goto
    <2>3. CASE RecvTruncated(w) \/ AllClientsGone(w) \/ BroadcastSend(w) \/ MainReturns(w)
      BY <2>3 DEF RecvTruncated, AllClientsGone, BroadcastSend, MainReturns
    <2>4. CASE Respond(w) \/ JoinAndFinish(w)
      BY <2>4 DEF Respond, JoinAndFinish, Broadcast, AllJoined
    <2> QED
      BY <2>1, <2>2, <2>3, <2>4 DEF WorkerStep
  <1> QED
    BY <1>0, <1>1, <1>2 DEF Goto, ThreadTypes

\* Both halves of an erase take out the client that left, and nobody else.
LEMMA ListStep ==
  ASSUME TypeOK, LocksExclusive, CutInv, ListInv, [Next]_vars
  PROVE  ListInv'
  <1>0. /\ fdMem \in [Clients -> Clients] /\ fdCount \in 0..NumClients
        /\ NumClients \in Nat /\ Clients = 1..NumClients /\ ThreadTypes
    BY ServerAssumption DEF TypeOK, VectorTypes, ServerAssumption, Clients
  <1>1. CASE UNCHANGED <<fdMem, fdCount>> /\ Erasing' = Erasing
    BY <1>1, StaysGone DEF ListInv, Listed
  <1>2. ASSUME NEW w \in Workers, RecvEof(w) PROVE ListInv'
    <2> DEFINE e == FindFd(fdMem, fdCount, Picked)
    <2>1. /\ fdCount \in 1..NumClients /\ e \in 1..fdCount /\ fdMem[e] = Picked
          /\ ~Connected(Picked)
      <3>1. fdCount \in 1..NumClients /\ Picked \in Elements(fdMem, fdCount)
        BY <1>2, SelectedClient DEF RecvEof
      <3>2. fdCount \in Nat
        BY <3>1
      <3> QED
        BY <1>2, <3>1, <3>2, FindFinds, ErasesGone
    <2>2. pc[w] = "select" /\ pc'[w] = "shrink"
      BY <1>0, <1>2 DEF RecvEof, Goto, Selects, ThreadTypes
    <2>3. ~Erasing /\ Erasing'
      BY <2>2 DEF Erasing, LocksExclusive
    <2>4. Listed = fdCount /\ Listed' = fdCount - 1
      BY <1>2, <2>3 DEF Listed, RecvEof
    <2>5. \A k \in Clients : fdMem'[k] = IF e <= k /\ k < fdCount THEN fdMem[k+1] ELSE fdMem[k]
      BY <1>0, <1>2 DEF RecvEof, MoveDown
    <2> HIDE DEF e
    <2>6. \A k \in 1..(fdCount - 1) : fdMem'[k] = IF e <= k THEN fdMem[k+1] ELSE fdMem[k]
      BY <1>0, <2>1, <2>5
    <2>7. ASSUME NEW i \in 1..(fdCount - 1), NEW j \in 1..(fdCount - 1), fdMem'[i] = fdMem'[j]
          PROVE  i = j
      <3> DEFINE from(k) == IF e <= k THEN k + 1 ELSE k
      <3>1. from(i) \in 1..fdCount /\ from(j) \in 1..fdCount
        BY <2>1
      <3>2. fdMem[from(i)] = fdMem[from(j)]
        BY <2>6, <2>7
      <3>3. from(i) = from(j)
        BY <2>4, <3>1, <3>2 DEF ListInv
      <3> QED
        BY <2>1, <3>3
    <2>8. ASSUME NEW c \in Clients, Connected(c)' PROVE \E i \in 1..(fdCount - 1) : fdMem'[i] = c
      <3>1. Connected(c) /\ c # Picked
        BY <2>1, <2>8, StaysGone
      <3>2. PICK i \in 1..fdCount : fdMem[i] = c
        BY <2>4, <3>1 DEF ListInv
      <3>3. CASE i < e
        BY <2>1, <2>6, <3>2, <3>3
      <3>4. CASE e < i
        <4>1. i - 1 \in 1..(fdCount - 1) /\ e <= i - 1 /\ (i - 1) + 1 = i
          BY <2>1, <3>4
        <4> QED
          BY <2>6, <3>2, <4>1
      <3>5. i # e
        BY <2>1, <3>1, <3>2
      <3> QED
        BY <2>1, <3>3, <3>4, <3>5
    <2> QED
      BY <2>4, <2>7, <2>8 DEF ListInv
  <1>3. ASSUME NEW w \in Workers, Shrink(w) PROVE ListInv'
    <2>1. pc[w] = "shrink" /\ \A v \in Workers : pc'[v] # "shrink"
      BY <1>0, <1>3 DEF Shrink, Goto, ThreadTypes, LocksExclusive
    <2>2. Erasing /\ ~Erasing'
      BY <2>1 DEF Erasing
    <2>3. Listed' = Listed /\ UNCHANGED fdMem
      BY <1>3, <2>2 DEF Shrink, Listed
    <2> QED
      BY <2>3, StaysGone DEF ListInv
  <1>4. ASSUME NEW w \in Workers, WorkerStep(w), ~RecvEof(w), ~Shrink(w) PROVE ListInv'
    BY <1>1, <1>4, VectorKept DEF Erasing
  <1>5. CASE UNCHANGED serverVars
    BY <1>1, <1>5 DEF serverVars, fdVars, Erasing
  <1> QED
    BY <1>2, <1>3, <1>4, <1>5, ClientStepsServer DEF Next, Stopped, vars

\* ListInv says what LiveClientsListed does.
LEMMA ListImplies == TypeOK /\ ListInv => LiveClientsListed
  <1> SUFFICES ASSUME TypeOK, ListInv PROVE LiveClientsListed
    OBVIOUS
  <1>1. fdCount \in Nat /\ Listed \in {fdCount, fdCount - 1}
    BY ServerAssumption DEF TypeOK, VectorTypes, Listed, ServerAssumption
  <1>2. ASSUME NEW c \in Clients, Connected(c) PROVE c \in Elements(fdMem, fdCount)
    <2>1. PICK i \in 1..Listed : fdMem[i] = c
      BY <1>2 DEF ListInv
    <2>2. i \in 1..fdCount
      BY <1>1
    <2> QED
      BY <2>1, <2>2 DEF Elements
  <1>3. ASSUME \A w \in Workers : pc[w] # "shrink"
        PROVE  Cardinality(Elements(fdMem, fdCount)) = fdCount
    <2> DEFINE f == [i \in 1..fdCount |-> fdMem[i]]
    <2>1. Listed = fdCount
      BY <1>3 DEF Listed, Erasing
    <2>2. f \in Bijection(1..fdCount, Elements(fdMem, fdCount))
      BY <2>1 DEF ListInv, Elements, Bijection, Injection, Surjection, IsInjective
    <2> QED
      BY <1>1, <2>2, FS_CountingElements DEF ExistsBijection
  <1> QED
    BY <1>2, <1>3 DEF LiveClientsListed
-----------------------------------------------------------------------------
(* The return of main.                                                     *)

\* Workers that have answered their request and not counted it.
Answered == {w \in Workers : pc[w] \in {"broadcast", "count"}}

\* finishedReqs and numReqsProcessed differ by these workers. main joins the others
\* before it broadcasts FINISH, and every thread that is through found the quota met.
ReturnInv ==
  /\ finishedReqs = numReqsProcessed + Cardinality(Answered)
  /\ \A w \in Workers :
       /\ pc[w] \in {"finish", "return"} =>
            w = Main /\ \A v \in Workers \ {Main} : pc[v] = "done"
       /\ pc[w] \in {"done", "finish", "return"} => numReqsProcessed >= NumReqsToProcess
  /\ server = "returned" => pc[Main] = "return"

\* The workers that have answered and not counted can be counted.
LEMMA AnsweredFinite == IsFiniteSet(Answered) /\ Cardinality(Answered) \in Nat
  BY WorkersFinite, FS_Subset, FS_CardinalityType DEF Answered

\* The steps outside Respond and CountRequest leave both counts alone.
LEMMA CountsKept ==
  ASSUME TypeOK, NEW w \in Workers, WorkerStep(w), ~Respond(w), ~CountRequest(w)
  PROVE  Answered' = Answered /\ UNCHANGED countVars
  <1>0. ThreadTypes
    BY DEF TypeOK
  <1>1. CASE Arrive(w) \/ ThreadStart(w) \/ CheckQuota(w) \/ LockRecv(w) \/ LockSend(w) \/ Shrink(w)
    BY <1>0, <1>1 DEF Arrive, ThreadStart, CheckQuota, LockRecv, LockSend, Shrink, Goto,
                      Answered, ThreadTypes
  <1>2. CASE RecvRequest(w) \/ RecvEof(w)
    BY <1>0, <1>2 DEF RecvRequest, RecvEof, Goto, Answered, ThreadTypes
  <1>3. CASE RecvTruncated(w) \/ AllClientsGone(w) \/ BroadcastSend(w) \/ MainReturns(w)
    BY <1>3 DEF RecvTruncated, AllClientsGone, BroadcastSend, MainReturns, Answered
  <1>4. CASE BroadcastEnd(w)
    BY <1>0, <1>4 DEF BroadcastEnd, Goto, Answered, ThreadTypes
  <1>5. CASE JoinAndFinish(w)
    BY <1>0, <1>5 DEF JoinAndFinish, Broadcast, AllJoined, Answered, ThreadTypes
  <1> QED
    BY <1>1, <1>2, <1>3, <1>4, <1>5 DEF WorkerStep

\* Every step keeps the difference of the two counters, and the order in which the
\* threads end.
LEMMA ReturnStep ==
  ASSUME TypeOK, ReturnInv, [Next]_vars
  PROVE  ReturnInv'
  <1>0. /\ ThreadTypes /\ numReqsProcessed \in Nat /\ finishedReqs \in Nat
        /\ NumReqsToProcess \in Nat /\ Main \in Workers
    BY ServerAssumption DEF TypeOK, RequestTypes, ServerAssumption
  <1>1. ASSUME NEW w \in Workers, WorkerStep(w) PROVE ReturnInv'
    <2>0. server = "up"
      BY <1>1 DEF WorkerStep
    <2>1. (finishedReqs = numReqsProcessed + Cardinality(Answered))'
      <3>1. CASE Respond(w)
        <4>1. w \notin Answered /\ Answered' = Answered \cup {w}
          BY <1>0, <3>1 DEF Respond, Broadcast, Answered, ThreadTypes
        <4>2. Cardinality(Answered') = Cardinality(Answered) + 1
          BY <4>1, AnsweredFinite, FS_AddElement
        <4> QED
          BY <1>0, <3>1, <4>2, AnsweredFinite DEF Respond, ReturnInv
      <3>2. CASE CountRequest(w)
        <4>1. w \in Answered /\ Answered' = Answered \ {w}
          BY <1>0, <3>2 DEF CountRequest, Goto, Answered, ThreadTypes
        <4>2. Cardinality(Answered') = Cardinality(Answered) - 1
          BY <4>1, AnsweredFinite, FS_RemoveElement
        <4> QED
          BY <1>0, <3>2, <4>2, AnsweredFinite DEF CountRequest, ReturnInv
      <3>3. CASE ~Respond(w) /\ ~CountRequest(w)
        BY <1>1, <3>3, CountsKept DEF ReturnInv, countVars
      <3> QED
        BY <3>1, <3>2, <3>3
    <2>2. numReqsProcessed' \in Nat /\ numReqsProcessed' >= numReqsProcessed
      <3>1. CASE CountRequest(w)
        BY <1>0, <3>1 DEF CountRequest
      <3>2. CASE Respond(w)
        BY <1>0, <3>2 DEF Respond
      <3> QED
        BY <1>0, <1>1, <3>1, <3>2, CountsKept DEF countVars
    <2>3. \/ \E to \in {"barrier", "check", "recv", "select", "shrink", "serve", "respond",
                        "count", "broadcast"} :
               pc[w] \notin {"done", "finish", "return"} /\ pc' = [pc EXCEPT ![w] = to]
          \/ UNCHANGED pc
          \/ numReqsProcessed >= NumReqsToProcess /\ Goto(w, "check", "done")
          \/ Goto(w, "finish", "return")
          \/ /\ w = Main /\ pc' = [pc EXCEPT ![w] = "finish"]
             /\ \A v \in Workers : pc[v] = "done"
      <3>1. CASE Arrive(w) \/ ThreadStart(w) \/ CountRequest(w) \/ LockRecv(w) \/ LockSend(w)
                   \/ Shrink(w) \/ BroadcastEnd(w)
        BY <3>1 DEF Arrive, ThreadStart, CountRequest, LockRecv, LockSend, Shrink, BroadcastEnd,
                    Goto
      <3>2. CASE RecvRequest(w) \/ RecvEof(w) \/ Respond(w)
        BY <3>2 DEF RecvRequest, RecvEof, Respond, Broadcast, Goto
      <3>3. CASE RecvTruncated(w) \/ AllClientsGone(w) \/ BroadcastSend(w) \/ MainReturns(w)
        BY <3>3 DEF RecvTruncated, AllClientsGone, BroadcastSend, MainReturns
      <3>4. CASE JoinAndFinish(w)
        BY <3>4 DEF JoinAndFinish, Broadcast, AllJoined
      <3>5. CASE CheckQuota(w)
        <4>1. CASE QuotaOpen /\ Goto(w, "check", "recv")
          BY <4>1 DEF Goto
        <4>2. CASE ~QuotaOpen /\ Goto(w, "check", "done")
          BY <1>0, <4>2 DEF QuotaOpen
        <4> QED
          BY <3>5, <4>1, <4>2 DEF CheckQuota
      <3> QED
        BY <1>1, <3>1, <3>2, <3>3, <3>4, <3>5 DEF WorkerStep
    <2>5. ASSUME NEW v \in Workers, pc'[v] \in {"finish", "return"}
          PROVE  v = Main /\ \A u \in Workers \ {Main} : pc'[u] = "done"
      BY <1>0, <2>3, <2>5 DEF ReturnInv, Goto, ThreadTypes
    <2>6. ASSUME NEW v \in Workers, pc'[v] \in {"done", "finish", "return"}
          PROVE  numReqsProcessed' >= NumReqsToProcess
      <3>1. numReqsProcessed >= NumReqsToProcess
        BY <1>0, <2>3, <2>6 DEF ReturnInv, Goto, ThreadTypes
      <3> QED
        BY <1>0, <2>2, <3>1
    <2>4. server' = "returned" => pc'[Main] = "return"
      <3>1. CASE MainReturns(w)
        BY <3>1 DEF MainReturns, ReturnInv
      <3>2. CASE ~MainReturns(w)
        <4>1. server' # "returned"
          BY <1>1, <2>0, <3>2 DEF WorkerStep, Arrive, ThreadStart, CheckQuota, CountRequest,
               LockRecv, RecvRequest, RecvEof, Shrink, RecvTruncated, AllClientsGone, LockSend,
               Respond, BroadcastSend, BroadcastEnd, JoinAndFinish, Deliver
        <4> QED
          BY <4>1
      <3> QED
        BY <3>1, <3>2
    <2> QED
      BY <2>1, <2>4, <2>5, <2>6 DEF ReturnInv
  <1>2. CASE UNCHANGED serverVars
    BY <1>2 DEF serverVars, countVars, ReturnInv, Answered
  <1> QED
    BY <1>1, <1>2, ClientStepsServer DEF Next, Stopped, vars

\* When main returns nobody is between an answer and its count.
LEMMA ReturnImplies == TypeOK /\ ReturnInv => CleanReturn
  <1> SUFFICES ASSUME TypeOK, ReturnInv, server = "returned"
               PROVE  /\ finishedReqs = numReqsProcessed /\ finishedReqs >= NumReqsToProcess
                      /\ \A w \in Workers \ {Main} : pc[w] = "done"
    BY DEF CleanReturn
  <1>1. pc[Main] = "return" /\ Main \in Workers
    BY ServerAssumption DEF ReturnInv, ServerAssumption
  <1>2. \A w \in Workers \ {Main} : pc[w] = "done"
    BY <1>1 DEF ReturnInv
  <1>3. Answered = {}
    BY <1>1, <1>2 DEF Answered
  <1>4. Cardinality(Answered) = 0
    BY <1>3, FS_EmptySet
  <1> QED
    BY <1>1, <1>2, <1>4 DEF ReturnInv, TypeOK, RequestTypes
-----------------------------------------------------------------------------
(* The two streams of a connection, as sets of requests.                   *)

\* The requests on a stream of requests, and whether each is there once.
IdsOn(s) == {s[i] : i \in {j \in DOMAIN s : s[j] # Cut}}
EachOnce(s) == \A i, j \in DOMAIN s : s[i] # Cut /\ s[i] = s[j] => i = j

\* The requests answered on a stream of responses, and whether each is there once.
IdsIn(s) == {s[i].id : i \in {j \in DOMAIN s : s[j].type = "RESPONSE"}}
AnsweredOnce(s) ==
  \A i, j \in DOMAIN s :
    s[i].type = "RESPONSE" /\ s[j].type = "RESPONSE" /\ s[i].id = s[j].id => i = j

\* A message behind the others.
LEMMA AppendIndices ==
  ASSUME NEW S, NEW s \in Seq(S), NEW x \in S
  PROVE  /\ DOMAIN Append(s, x) = (DOMAIN s) \cup {Len(s) + 1}
         /\ Len(s) + 1 \notin DOMAIN s
         /\ Append(s, x)[Len(s) + 1] = x
         /\ \A i \in DOMAIN s : Append(s, x)[i] = s[i]
  OBVIOUS

\* The first message is gone.
LEMMA TailIndices ==
  ASSUME NEW S, NEW s \in Seq(S), s # <<>>
  PROVE  /\ Tail(s) \in Seq(S) /\ Head(s) \in S
         /\ 1 \in DOMAIN s /\ s[1] = Head(s)
         /\ \A i \in DOMAIN Tail(s) : i \in Nat /\ i # 0 /\ i + 1 \in DOMAIN s
                                      /\ Tail(s)[i] = s[i+1]
         /\ \A i \in DOMAIN s : i # 1 => i - 1 \in DOMAIN Tail(s) /\ Tail(s)[i-1] = s[i]
         /\ \A i \in DOMAIN s : i \in Nat
  OBVIOUS

\* The last message is lost.
LEMMA FrontIndices ==
  ASSUME NEW S, NEW s \in Seq(S), s # <<>>
  PROVE  /\ Front(s) \in Seq(S)
         /\ Len(s) \in DOMAIN s /\ s[Len(s)] \in S
         /\ DOMAIN Front(s) = (DOMAIN s) \ {Len(s)}
         /\ \A i \in DOMAIN Front(s) : Front(s)[i] = s[i]
  BY DEF Front

\* A request is sent.
LEMMA QueueAppend ==
  ASSUME NEW s \in Seq(Nat \cup {Cut}), NEW x \in Nat \cup {Cut}
  PROVE  /\ IdsOn(Append(s, x)) = IdsOn(s) \cup ({x} \ {Cut})
         /\ EachOnce(s) /\ x \notin IdsOn(s) => EachOnce(Append(s, x))
  <1>1. /\ DOMAIN Append(s, x) = (DOMAIN s) \cup {Len(s) + 1}
        /\ Len(s) + 1 \notin DOMAIN s
        /\ Append(s, x)[Len(s) + 1] = x
        /\ \A i \in DOMAIN s : Append(s, x)[i] = s[i]
    BY AppendIndices
  <1> DEFINE t == Append(s, x)
             n == Len(s) + 1
  <1> HIDE DEF t, n
  <1>2. /\ DOMAIN t = (DOMAIN s) \cup {n} /\ n \notin DOMAIN s /\ t[n] = x
        /\ \A i \in DOMAIN s : t[i] = s[i]
    BY <1>1 DEF t, n
  <1>3. IdsOn(t) = IdsOn(s) \cup ({x} \ {Cut})
    BY <1>2 DEF IdsOn
  <1>4. EachOnce(s) /\ x \notin IdsOn(s) => EachOnce(t)
    BY <1>2 DEF IdsOn, EachOnce
  <1> QED
    BY <1>3, <1>4 DEF t

\* A request is read.
LEMMA QueueTail ==
  ASSUME NEW s \in Seq(Nat \cup {Cut}), s # <<>>
  PROVE  /\ IdsOn(s) = IdsOn(Tail(s)) \cup ({Head(s)} \ {Cut})
         /\ EachOnce(s) => EachOnce(Tail(s)) /\ (Head(s) # Cut => Head(s) \notin IdsOn(Tail(s)))
  <1> DEFINE t == Tail(s)
             h == Head(s)
  <1>1. /\ 1 \in DOMAIN s /\ s[1] = h
        /\ \A i \in DOMAIN t : i \in Nat /\ i # 0 /\ i + 1 \in DOMAIN s /\ t[i] = s[i+1]
        /\ \A i \in DOMAIN s : i # 1 => i - 1 \in DOMAIN t /\ t[i-1] = s[i]
        /\ \A i \in DOMAIN s : i \in Nat
    BY TailIndices
  <1> HIDE DEF t, h
  <1>2. IdsOn(s) = IdsOn(t) \cup ({h} \ {Cut})
    <2>1. ASSUME NEW id \in IdsOn(s) PROVE id \in IdsOn(t) \cup ({h} \ {Cut})
      <3>1. PICK i \in DOMAIN s : s[i] = id /\ s[i] # Cut
        BY DEF IdsOn
      <3>2. CASE i = 1
        BY <1>1, <3>1, <3>2
      <3>3. CASE i # 1
        BY <1>1, <3>1, <3>3 DEF IdsOn
      <3> QED
        BY <3>2, <3>3
    <2>2. ASSUME NEW id \in IdsOn(t) \cup ({h} \ {Cut}) PROVE id \in IdsOn(s)
      BY <1>1, <2>2 DEF IdsOn
    <2> QED
      BY <2>1, <2>2
  <1>3. ASSUME EachOnce(s) PROVE EachOnce(t)
    <2>1. ASSUME NEW i \in DOMAIN t, NEW j \in DOMAIN t, t[i] # Cut, t[i] = t[j]
          PROVE  i = j
      <3>1. i + 1 = j + 1
        BY <1>1, <1>3, <2>1 DEF EachOnce
      <3> QED
        BY <1>1, <3>1
    <2> QED
      BY <2>1 DEF EachOnce
  <1>4. ASSUME EachOnce(s), h # Cut, h \in IdsOn(t) PROVE FALSE
    <2>1. PICK i \in DOMAIN t : t[i] = h
      BY <1>4 DEF IdsOn
    <2>2. i + 1 = 1
      BY <1>1, <1>4, <2>1 DEF EachOnce
    <2> QED
      BY <1>1, <2>2
  <1> QED
    BY <1>2, <1>3, <1>4 DEF t, h

\* The last request is lost.
LEMMA QueueFront ==
  ASSUME NEW s \in Seq(Nat \cup {Cut}), s # <<>>
  PROVE  /\ IdsOn(s) = IdsOn(Front(s)) \cup ({s[Len(s)]} \ {Cut})
         /\ EachOnce(s) =>
              EachOnce(Front(s)) /\ (s[Len(s)] # Cut => s[Len(s)] \notin IdsOn(Front(s)))
  <1> DEFINE t == Front(s)
             n == Len(s)
  <1>1. /\ n \in DOMAIN s /\ DOMAIN t = (DOMAIN s) \ {n}
        /\ \A i \in DOMAIN t : t[i] = s[i]
    BY FrontIndices
  <1> HIDE DEF t, n
  <1>2. IdsOn(s) = IdsOn(t) \cup ({s[n]} \ {Cut})
    BY <1>1 DEF IdsOn
  <1>3. EachOnce(s) => EachOnce(t) /\ (s[n] # Cut => s[n] \notin IdsOn(t))
    BY <1>1 DEF IdsOn, EachOnce
  <1> QED
    BY <1>2, <1>3 DEF t, n

\* A message is sent to a client.
LEMMA AnswersAppend ==
  ASSUME NEW s \in Seq(Messages), NEW m \in Messages
  PROVE  /\ IdsIn(Append(s, m)) =
              IdsIn(s) \cup (IF m.type = "RESPONSE" THEN {m.id} ELSE {})
         /\ AnsweredOnce(s) /\ (m.type = "RESPONSE" => m.id \notin IdsIn(s))
              => AnsweredOnce(Append(s, m))
  <1>1. /\ DOMAIN Append(s, m) = (DOMAIN s) \cup {Len(s) + 1}
        /\ Len(s) + 1 \notin DOMAIN s
        /\ Append(s, m)[Len(s) + 1] = m
        /\ \A i \in DOMAIN s : Append(s, m)[i] = s[i]
    BY AppendIndices
  <1> DEFINE t == Append(s, m)
             n == Len(s) + 1
  <1> HIDE DEF t, n
  <1>2. /\ DOMAIN t = (DOMAIN s) \cup {n} /\ n \notin DOMAIN s /\ t[n] = m
        /\ \A i \in DOMAIN s : t[i] = s[i]
    BY <1>1 DEF t, n
  <1>3. IdsIn(t) = IdsIn(s) \cup (IF m.type = "RESPONSE" THEN {m.id} ELSE {})
    BY <1>2 DEF IdsIn
  <1>4. AnsweredOnce(s) /\ (m.type = "RESPONSE" => m.id \notin IdsIn(s)) => AnsweredOnce(t)
    BY <1>2 DEF IdsIn, AnsweredOnce
  <1> QED
    BY <1>3, <1>4 DEF t

\* A client reads a message.
LEMMA AnswersTail ==
  ASSUME NEW s \in Seq(Messages), s # <<>>
  PROVE  /\ IdsIn(s) = IdsIn(Tail(s)) \cup (IF Head(s).type = "RESPONSE" THEN {Head(s).id} ELSE {})
         /\ AnsweredOnce(s) =>
              /\ AnsweredOnce(Tail(s))
              /\ Head(s).type = "RESPONSE" => Head(s).id \notin IdsIn(Tail(s))
  <1> DEFINE t == Tail(s)
             h == Head(s)
  <1>1. /\ 1 \in DOMAIN s /\ s[1] = h
        /\ \A i \in DOMAIN t : i \in Nat /\ i # 0 /\ i + 1 \in DOMAIN s /\ t[i] = s[i+1]
        /\ \A i \in DOMAIN s : i # 1 => i - 1 \in DOMAIN t /\ t[i-1] = s[i]
        /\ \A i \in DOMAIN s : i \in Nat
    BY TailIndices
  <1> HIDE DEF t, h
  <1>2. IdsIn(s) = IdsIn(t) \cup (IF h.type = "RESPONSE" THEN {h.id} ELSE {})
    <2>1. ASSUME NEW id \in IdsIn(s) PROVE id \in IdsIn(t) \/ (h.type = "RESPONSE" /\ id = h.id)
      BY <1>1, <2>1 DEF IdsIn
    <2>2. ASSUME NEW id \in IdsIn(t) PROVE id \in IdsIn(s)
      BY <1>1, <2>2 DEF IdsIn
    <2>3. h.type = "RESPONSE" => h.id \in IdsIn(s)
      BY <1>1 DEF IdsIn
    <2> QED
      BY <2>1, <2>2, <2>3
  <1>3. ASSUME AnsweredOnce(s) PROVE AnsweredOnce(t)
    <2>1. ASSUME NEW i \in DOMAIN t, NEW j \in DOMAIN t,
                 t[i].type = "RESPONSE", t[j].type = "RESPONSE", t[i].id = t[j].id
          PROVE  i = j
      <3>1. i + 1 = j + 1
        BY <1>1, <1>3, <2>1 DEF AnsweredOnce
      <3> QED
        BY <1>1, <3>1
    <2> QED
      BY <2>1 DEF AnsweredOnce
  <1>4. ASSUME AnsweredOnce(s), h.type = "RESPONSE", h.id \in IdsIn(t) PROVE FALSE
    <2>1. PICK i \in DOMAIN t : t[i].type = "RESPONSE" /\ t[i].id = h.id
      BY <1>4 DEF IdsIn
    <2>2. i + 1 = 1
      BY <1>1, <1>4, <2>1 DEF AnsweredOnce
    <2> QED
      BY <1>1, <2>2
  <1> QED
    BY <1>2, <1>3, <1>4 DEF t, h

\* A message to a client is lost.
LEMMA AnswersFront ==
  ASSUME NEW s \in Seq(Messages), s # <<>>
  PROVE  /\ IdsIn(Front(s)) \subseteq IdsIn(s)
         /\ AnsweredOnce(s) => AnsweredOnce(Front(s))
  <1> DEFINE t == Front(s)
             n == Len(s)
  <1>1. /\ n \in DOMAIN s /\ DOMAIN t = (DOMAIN s) \ {n}
        /\ \A i \in DOMAIN t : t[i] = s[i]
    BY FrontIndices
  <1> HIDE DEF t, n
  <1> QED
    BY <1>1 DEF IdsIn, AnsweredOnce, t
-----------------------------------------------------------------------------
(* Where the requests are.                                                 *)

\* No request is in two places, the next one of a client is in none, and those of a
\* live client are in its inFlightReqs.
PlacesInv ==
  \A c \in Clients :
    /\ OnePlace(c)
    /\ \A id \in SentIds(c) \cup ServedIds(c) \cup ReplyIds(c) : id < started[c]
    /\ server = "up" /\ Connected(c) =>
         inFlight[c] = SentIds(c) \cup ServedIds(c) \cup ReplyIds(c)

\* A request that is served has come from a client.
ServedInv == \A w \in Serving : slot[tid[w]].fd \in Clients

\* A broadcast sends notices to elements of the vector.
LoopInv ==
  \A w \in Workers : pc[w] \in {"broadcast", "finish"} =>
    bcast.it >= 1 /\ bcast.msg.type # "RESPONSE"

\* The requests of a client are on the streams of its connection or in a slot.
LEMMA PlaceTypes ==
  ASSUME TypeOK, NEW c \in Clients
  PROVE  /\ c2s[c] \in Seq(Nat \cup {Cut}) /\ s2c[c] \in Seq(Messages)
         /\ SentIds(c) = IdsOn(c2s[c]) /\ ReplyIds(c) = IdsIn(s2c[c])
         /\ SentIds(c) \subseteq Nat
         /\ started[c] \in Nat
         /\ OnePlace(c) <=>
              /\ EachOnce(c2s[c]) /\ AnsweredOnce(s2c[c])
              /\ \A v, w \in ServedBy(c) : slot[tid[v]].id = slot[tid[w]].id => v = w
              /\ SentIds(c) \cap ServedIds(c) = {}
              /\ (SentIds(c) \cup ServedIds(c)) \cap ReplyIds(c) = {}
  <1>1. /\ c2s[c] \in Seq(Nat \cup {Cut}) /\ s2c[c] \in Seq(Messages)
        /\ started[c] \in Nat
    BY ServerAssumption DEF TypeOK, StreamTypes, ClientTypes, ServerAssumption
  <1>2. SentIds(c) = IdsOn(c2s[c]) /\ ReplyIds(c) = IdsIn(s2c[c])
    BY DEF SentIds, Queued, IdsOn, ReplyIds, Replied, IdsIn
  <1>3. SentIds(c) \subseteq Nat
    BY <1>1 DEF SentIds, Queued
  <1>4. (\A i, j \in Queued(c) : c2s[c][i] = c2s[c][j] => i = j) <=> EachOnce(c2s[c])
    BY DEF Queued, EachOnce
  <1>5. (\A i, j \in Replied(c) : s2c[c][i].id = s2c[c][j].id => i = j) <=> AnsweredOnce(s2c[c])
    BY DEF Replied, AnsweredOnce
  <1> QED
    BY <1>1, <1>2, <1>3, <1>4, <1>5 DEF OnePlace

\* Where the streams of a client and the workers that serve it are untouched, its
\* requests stay where they are.
LEMMA PlacesSame ==
  ASSUME NEW c \in Clients, c2s'[c] = c2s[c], s2c'[c] = s2c[c], ServedBy(c)' = ServedBy(c),
         \A v \in ServedBy(c) : slot'[tid'[v]] = slot[tid[v]]
  PROVE  /\ SentIds(c)' = SentIds(c) /\ ServedIds(c)' = ServedIds(c)
         /\ ReplyIds(c)' = ReplyIds(c) /\ (OnePlace(c)' <=> OnePlace(c))
  <1>1. Queued(c)' = Queued(c) /\ Replied(c)' = Replied(c)
    BY DEF Queued, Replied
  <1>2. SentIds(c)' = SentIds(c) /\ ReplyIds(c)' = ReplyIds(c)
    BY <1>1 DEF SentIds, ReplyIds
  <1>3. ServedIds(c)' = ServedIds(c)
    BY DEF ServedIds
  <1>4. OnePlace(c)' <=> OnePlace(c)
    BY <1>1, <1>2, <1>3 DEF OnePlace
  <1> QED
    BY <1>2, <1>3, <1>4

\* Outside recvReq and sendResp no worker takes or answers a request.
LEMMA ServedKept ==
  ASSUME TypeOK, NEW w \in Workers, WorkerStep(w), ~RecvRequest(w), ~Respond(w)
  PROVE  Serving' = Serving /\ \A v \in Serving : slot'[tid'[v]] = slot[tid[v]]
  <1>0. ThreadTypes
    BY DEF TypeOK
  <1>1. CASE ThreadStart(w)
    BY <1>0, <1>1 DEF ThreadStart, Goto, Serving, ThreadTypes
  <1>2. CASE Arrive(w) \/ CheckQuota(w) \/ CountRequest(w) \/ LockRecv(w) \/ LockSend(w) \/ Shrink(w)
    BY <1>0, <1>2 DEF Arrive, CheckQuota, CountRequest, LockRecv, LockSend, Shrink, Goto,
                      Serving, ThreadTypes, idVars
  <1>3. CASE RecvEof(w) \/ BroadcastEnd(w)
    BY <1>0, <1>3 DEF RecvEof, BroadcastEnd, Goto, Serving, ThreadTypes, idVars
  <1>4. CASE RecvTruncated(w) \/ AllClientsGone(w) \/ BroadcastSend(w) \/ MainReturns(w)
    BY <1>4 DEF RecvTruncated, AllClientsGone, BroadcastSend, MainReturns, Serving, idVars
  <1>5. CASE JoinAndFinish(w)
    BY <1>0, <1>5 DEF JoinAndFinish, Broadcast, AllJoined, Serving, ThreadTypes, idVars
  <1> QED
    BY <1>1, <1>2, <1>3, <1>4, <1>5 DEF WorkerStep

\* A worker files its request in its own slot.
LEMMA ServedTaken ==
  ASSUME TypeOK, SlotsDistinct, NEW w \in Workers, RecvRequest(w)
  PROVE  /\ w \notin Serving /\ Serving' = Serving \cup {w}
         /\ \A v \in Serving : slot'[tid'[v]] = slot[tid[v]]
         /\ slot'[tid'[w]] = [fd |-> Picked, id |-> Head(c2s[Picked])]
  <1>0. ThreadTypes /\ slot \in [Slots -> [fd : Clients \cup {0}, id : Nat]]
    BY DEF TypeOK, RequestTypes
  <1>1. w \notin Serving /\ Serving' = Serving \cup {w} /\ w \in Registered
    BY <1>0 DEF RecvRequest, Goto, Serving, Registered, ThreadTypes
  <1>2. tid[w] \in Slots /\ tid' = tid
        /\ slot' = [slot EXCEPT ![tid[w]] = [fd |-> Picked, id |-> Head(c2s[Picked])]]
    BY <1>0 DEF RecvRequest, SlotOf, ThreadTypes, idVars
  <1>3. \A v \in Serving : tid[v] # tid[w]
    BY <1>1 DEF SlotsDistinct, Serving, Registered
  <1> QED
    BY <1>0, <1>1, <1>2, <1>3

\* recvReq moves a request from the stream to the worker's slot.
LEMMA RecvPlaces ==
  ASSUME TypeOK, TypeOK', SlotsDistinct, PlacesInv, NEW w \in Workers, RecvRequest(w),
         NEW c \in Clients
  PROVE  /\ OnePlace(c)'
         /\ (SentIds(c) \cup ServedIds(c))' = SentIds(c) \cup ServedIds(c)
         /\ ReplyIds(c)' = ReplyIds(c)
  <1> DEFINE id == Head(c2s[Picked])
  <1>1. /\ Picked \in Clients /\ c2s[Picked] # <<>> /\ id # Cut
        /\ c2s' = [c2s EXCEPT ![Picked] = Tail(@)] /\ UNCHANGED s2c
        /\ c2s \in [Clients -> Seq(Nat \cup {Cut})]
    BY SelectedClient DEF RecvRequest, TypeOK, StreamTypes
  <1>2. /\ w \notin Serving /\ Serving' = Serving \cup {w}
        /\ \A v \in Serving : slot'[tid'[v]] = slot[tid[v]]
        /\ slot'[tid'[w]] = [fd |-> Picked, id |-> id]
    BY ServedTaken
  <1> HIDE DEF id
  <1>3. OnePlace(c)
    BY DEF PlacesInv
  <1>4. /\ SentIds(c)' = IdsOn(c2s'[c]) /\ ReplyIds(c)' = ReplyIds(c)
        /\ EachOnce(c2s'[c]) /\ AnsweredOnce(s2c'[c])
           /\ (\A u, v \in ServedBy(c)' : slot'[tid'[u]].id = slot'[tid'[v]].id => u = v)
           /\ (SentIds(c) \cap ServedIds(c) = {})'
           /\ ((SentIds(c) \cup ServedIds(c)) \cap ReplyIds(c) = {})'
           => OnePlace(c)'
    BY <1>1 DEF OnePlace, SentIds, Queued, ReplyIds, Replied, IdsOn, EachOnce, AnsweredOnce
  <1>5. CASE c # Picked
    <2>1. c2s'[c] = c2s[c]
      BY <1>1, <1>5
    <2>2. ServedBy(c)' = ServedBy(c) /\ ServedIds(c)' = ServedIds(c)
      BY <1>2, <1>5 DEF ServedBy, ServedIds
    <2>3. \A v \in ServedBy(c) : slot'[tid'[v]] = slot[tid[v]]
      BY <1>2 DEF ServedBy
    <2> QED
      BY <1>1, <1>3, <2>1, <2>2, <2>3, PlacesSame
  <1>6. CASE c = Picked
    <2>1. /\ IdsOn(c2s[c]) = IdsOn(c2s'[c]) \cup {id}
          /\ EachOnce(c2s'[c]) /\ id \notin IdsOn(c2s'[c])
      <3>1. c2s[c] \in Seq(Nat \cup {Cut}) /\ c2s[c] # <<>> /\ EachOnce(c2s[c])
            /\ Head(c2s[c]) = id /\ c2s'[c] = Tail(c2s[c])
        BY <1>1, <1>3, <1>6, PlaceTypes DEF id
      <3> QED
        BY <1>1, <3>1, QueueTail
    <2>2. ServedBy(c)' = ServedBy(c) \cup {w}
      BY <1>2, <1>6 DEF ServedBy
    <2>3. /\ \A v \in ServedBy(c) : slot'[tid'[v]] = slot[tid[v]]
          /\ slot'[tid'[w]].id = id
      BY <1>2 DEF ServedBy
    <2>4. ServedIds(c)' = ServedIds(c) \cup {id}
      BY <2>2, <2>3 DEF ServedIds
    <2>5. id \notin ServedIds(c) /\ id \notin ReplyIds(c)
      BY <1>3, <2>1, PlaceTypes
    <2>6. \A u, v \in ServedBy(c)' : slot'[tid'[u]].id = slot'[tid'[v]].id => u = v
      <3>1. \A v \in ServedBy(c) : slot[tid[v]].id # id
        BY <2>5 DEF ServedIds
      <3>2. \A u, v \in ServedBy(c) : slot[tid[u]].id = slot[tid[v]].id => u = v
        BY <1>3 DEF OnePlace
      <3> QED
        BY <2>2, <2>3, <3>1, <3>2
    <2>7. SentIds(c) = SentIds(c)' \cup {id} /\ id \notin SentIds(c)'
      BY <1>4, <2>1, PlaceTypes
    <2>8. AnsweredOnce(s2c'[c]) /\ (SentIds(c) \cup ServedIds(c)) \cap ReplyIds(c) = {}
          /\ SentIds(c) \cap ServedIds(c) = {}
      BY <1>1, <1>3, PlaceTypes
    <2>9. (SentIds(c) \cap ServedIds(c) = {})'
          /\ ((SentIds(c) \cup ServedIds(c)) \cap ReplyIds(c) = {})'
      BY <1>4, <2>4, <2>5, <2>7, <2>8
    <2> QED
      BY <1>4, <2>1, <2>4, <2>6, <2>7, <2>8, <2>9
  <1> QED
    BY <1>5, <1>6

\* A worker that answers has no request any more.
LEMMA ServedAnswered ==
  ASSUME TypeOK, NEW w \in Workers, Respond(w)
  PROVE  /\ w \in Serving /\ Serving' = Serving \ {w} /\ UNCHANGED <<slot, tid, c2s>>
         /\ tid[w] \in Slots /\ slot[tid[w]].id \in Nat
  <1>0. ThreadTypes /\ slot \in [Slots -> [fd : Clients \cup {0}, id : Nat]]
    BY DEF TypeOK, RequestTypes
  <1>1. w \in Serving /\ UNCHANGED <<slot, tid, c2s>>
    BY DEF Respond, Serving, idVars
  <1>2. \E at \in {"broadcast", "count"} : pc' = [pc EXCEPT ![w] = at]
    BY DEF Respond, Broadcast
  <1>3. Serving' = Serving \ {w}
    BY <1>0, <1>2 DEF Serving, ThreadTypes
  <1> QED
    BY <1>0, <1>1, <1>3 DEF ThreadTypes

\* The response of a worker: delivered while the client is there.
LEMMA ResponseGoes ==
  ASSUME TypeOK, ServedInv, NEW w \in Workers, Respond(w)
  PROVE  LET fd == slot[tid[w]].fd
             id == slot[tid[w]].id
         IN  /\ fd \in Clients
             /\ \A c \in Clients : ~(c = fd /\ Connected(c)) => s2c'[c] = s2c[c]
             /\ Connected(fd) =>
                  UNCHANGED server /\ s2c' = [s2c EXCEPT ![fd] = Append(@, RespMsg(id))]
             /\ ~Connected(fd) => UNCHANGED s2c /\ server' \in {"up", "send failed"}
  <1>1. slot[tid[w]].fd \in Clients
    BY ServedAnswered DEF ServedInv
  <1>2. s2c \in [Clients -> Seq(Messages)]
    BY DEF TypeOK, StreamTypes
  <1>3. Deliver(slot[tid[w]].fd, RespMsg(slot[tid[w]].id))
    BY DEF Respond
  <1> QED
    BY <1>1, <1>2, <1>3 DEF Deliver

\* sendResp moves a request from the slot to the stream of responses, or drops it
\* when its client has left.
LEMMA RespondPlaces ==
  ASSUME TypeOK, PlacesInv, ServedInv, NEW w \in Workers, Respond(w), NEW c \in Clients
  PROVE  LET fd == slot[tid[w]].fd
             id == slot[tid[w]].id
         IN  /\ OnePlace(c)'
             /\ (SentIds(c) \cup ServedIds(c))'
                  = (SentIds(c) \cup ServedIds(c)) \ (IF c = fd THEN {id} ELSE {})
             /\ ReplyIds(c)' = ReplyIds(c) \cup (IF c = fd /\ Connected(c) THEN {id} ELSE {})
             /\ c = fd => id \in ServedIds(c)
  <1> DEFINE fd == slot[tid[w]].fd
             id == slot[tid[w]].id
  <1>1. /\ w \in Serving /\ Serving' = Serving \ {w} /\ UNCHANGED <<slot, tid, c2s>>
        /\ id \in Nat
    BY ServedAnswered
  <1>2. OnePlace(c)
    BY DEF PlacesInv
  <1>3. CASE c # fd
    <2>1. c2s'[c] = c2s[c] /\ s2c'[c] = s2c[c]
      BY <1>1, <1>3, ResponseGoes
    <2>2. ServedBy(c)' = ServedBy(c) /\ \A v \in ServedBy(c) : slot'[tid'[v]] = slot[tid[v]]
      BY <1>1, <1>3 DEF ServedBy
    <2> QED
      BY <1>2, <1>3, <2>1, <2>2, PlacesSame
  <1>4. CASE c = fd
    <2>1. w \in ServedBy(c) /\ ServedBy(c)' = ServedBy(c) \ {w}
      BY <1>1, <1>4 DEF ServedBy
    <2>2. \A u, v \in ServedBy(c) : slot[tid[u]].id = slot[tid[v]].id => u = v
      BY <1>2 DEF OnePlace
    <2>3. id \in ServedIds(c) /\ ServedIds(c)' = ServedIds(c) \ {id}
      BY <1>1, <2>1, <2>2 DEF ServedIds
    <2>4. Queued(c)' = Queued(c) /\ SentIds(c)' = SentIds(c)
      BY <1>1 DEF Queued, SentIds
    <2>5. /\ \A i, j \in Queued(c)' : c2s'[c][i] = c2s'[c][j] => i = j
          /\ \A u, v \in ServedBy(c)' : slot'[tid'[u]].id = slot'[tid'[v]].id => u = v
      BY <1>1, <1>2, <2>1, <2>2, <2>4 DEF OnePlace
    <2>6. id \notin SentIds(c) /\ id \notin ReplyIds(c)
      BY <1>2, <2>3 DEF OnePlace
    <2>7. /\ ReplyIds(c)' = ReplyIds(c) \cup (IF Connected(c) THEN {id} ELSE {})
          /\ \A i, j \in Replied(c)' : s2c'[c][i].id = s2c'[c][j].id => i = j
      <3>1. CASE ~Connected(c)
        <4>1. s2c'[c] = s2c[c]
          BY <1>4, <3>1, ResponseGoes
        <4>2. Replied(c)' = Replied(c) /\ ReplyIds(c)' = ReplyIds(c)
          BY <4>1 DEF Replied, ReplyIds
        <4> QED
          BY <1>2, <3>1, <4>1, <4>2 DEF OnePlace
      <3>2. CASE Connected(c)
        <4>1. s2c[c] \in Seq(Messages) /\ RespMsg(id) \in Messages /\ s2c \in [Clients -> Seq(Messages)]
          BY <1>1 DEF TypeOK, StreamTypes, RespMsg, Messages
        <4>2. s2c'[c] = Append(s2c[c], RespMsg(id))
          BY <1>4, <3>2, <4>1, ResponseGoes
        <4>3. RespMsg(id).type = "RESPONSE" /\ RespMsg(id).id = id
          BY DEF RespMsg
        <4>4. IdsIn(s2c'[c]) = IdsIn(s2c[c]) \cup {id}
          BY <4>1, <4>2, <4>3, AnswersAppend
        <4>5. AnsweredOnce(s2c[c]) /\ id \notin IdsIn(s2c[c])
          BY <1>2, <2>6, PlaceTypes
        <4>6. AnsweredOnce(s2c'[c])
          BY <4>1, <4>2, <4>3, <4>5, AnswersAppend
        <4>7. ReplyIds(c)' = IdsIn(s2c'[c]) /\ ReplyIds(c) = IdsIn(s2c[c])
          BY DEF ReplyIds, Replied, IdsIn
        <4>8. \A i, j \in Replied(c)' : s2c'[c][i].id = s2c'[c][j].id => i = j
          BY <4>6 DEF Replied, AnsweredOnce
        <4> QED
          BY <3>2, <4>4, <4>7, <4>8
      <3> QED
        BY <3>1, <3>2
    <2>8. (SentIds(c) \cap ServedIds(c) = {})'
          /\ ((SentIds(c) \cup ServedIds(c)) \cap ReplyIds(c) = {})'
      BY <1>2, <2>3, <2>4, <2>6, <2>7 DEF OnePlace
    <2>9. OnePlace(c)'
      BY <2>5, <2>7, <2>8 DEF OnePlace
    <2>10. (SentIds(c) \cup ServedIds(c))' = (SentIds(c) \cup ServedIds(c)) \ {id}
      BY <2>3, <2>4, <2>6
    <2> HIDE DEF fd, id
    <2> QED
      BY <1>4, <2>3, <2>7, <2>9, <2>10 DEF fd, id
  <1> QED
    BY <1>3, <1>4

\* Where the workers keep what they serve, the streams decide.
LEMMA StreamsMove ==
  ASSUME NEW c \in Clients, OnePlace(c),
         ServedBy(c)' = ServedBy(c), \A v \in ServedBy(c) : slot'[tid'[v]] = slot[tid[v]],
         EachOnce(c2s'[c]), AnsweredOnce(s2c'[c]),
         IdsOn(c2s'[c]) \cap ServedIds(c) = {},
         (IdsOn(c2s'[c]) \cup ServedIds(c)) \cap IdsIn(s2c'[c]) = {}
  PROVE  /\ OnePlace(c)' /\ SentIds(c)' = IdsOn(c2s'[c])
         /\ ServedIds(c)' = ServedIds(c) /\ ReplyIds(c)' = IdsIn(s2c'[c])
  <1>1. SentIds(c)' = IdsOn(c2s'[c]) /\ ReplyIds(c)' = IdsIn(s2c'[c])
    BY DEF SentIds, Queued, IdsOn, ReplyIds, Replied, IdsIn
  <1>2. ServedIds(c)' = ServedIds(c)
    BY DEF ServedIds
  <1>3. /\ \A i, j \in Queued(c)' : c2s'[c][i] = c2s'[c][j] => i = j
        /\ \A i, j \in Replied(c)' : s2c'[c][i].id = s2c'[c][j].id => i = j
    BY DEF EachOnce, AnsweredOnce, Queued, Replied
  <1>4. \A u, v \in ServedBy(c)' : slot'[tid'[u]].id = slot'[tid'[v]].id => u = v
    BY DEF OnePlace
  <1> QED
    BY <1>1, <1>2, <1>3, <1>4 DEF OnePlace

\* A client sends a request nobody has seen.
LEMMA SendPlaces ==
  ASSUME TypeOK, PlacesInv, NEW d \in Clients, ClientSend(d), NEW c \in Clients
  PROVE  /\ OnePlace(c)'
         /\ (SentIds(c) \cup ServedIds(c))'
              = SentIds(c) \cup ServedIds(c) \cup (IF c = d THEN {started[d]} ELSE {})
         /\ ReplyIds(c)' = ReplyIds(c)
  <1>1. /\ ServedBy(c)' = ServedBy(c) /\ \A v \in ServedBy(c) : slot'[tid'[v]] = slot[tid[v]]
        /\ UNCHANGED s2c /\ c2s' = [c2s EXCEPT ![d] = Append(@, started[d])]
    BY DEF ClientSend, serverVars, idVars, ServedBy, Serving
  <1>2. c2s \in [Clients -> Seq(Nat \cup {Cut})]
    BY DEF TypeOK, StreamTypes
  <1>3. OnePlace(c) /\ started[c] \notin SentIds(c) \cup ServedIds(c) \cup ReplyIds(c)
    <2>1. started[c] \in Nat
      BY PlaceTypes
    <2> QED
      BY <2>1 DEF PlacesInv
  <1>4. CASE c # d
    <2>1. c2s'[c] = c2s[c] /\ s2c'[c] = s2c[c]
      BY <1>1, <1>2, <1>4
    <2> QED
      BY <1>1, <1>3, <1>4, <2>1, PlacesSame
  <1>5. CASE c = d
    <2>1. c2s'[c] = Append(c2s[c], started[c]) /\ s2c'[c] = s2c[c]
          /\ started[c] \in Nat /\ started[c] # Cut
      BY <1>1, <1>2, <1>5, PlaceTypes DEF Cut
    <2>2. EachOnce(c2s'[c]) /\ IdsOn(c2s'[c]) = SentIds(c) \cup {started[c]}
      BY <1>3, <2>1, PlaceTypes, QueueAppend
    <2>3. /\ SentIds(c) \cap ServedIds(c) = {}
          /\ (SentIds(c) \cup ServedIds(c)) \cap ReplyIds(c) = {}
          /\ AnsweredOnce(s2c'[c]) /\ ReplyIds(c) = IdsIn(s2c'[c])
      BY <1>3, <2>1, PlaceTypes
    <2>4. /\ IdsOn(c2s'[c]) \cap ServedIds(c) = {}
          /\ (IdsOn(c2s'[c]) \cup ServedIds(c)) \cap IdsIn(s2c'[c]) = {}
      BY <1>3, <2>2, <2>3
    <2> QED
      BY <1>1, <1>3, <1>5, <2>2, <2>3, <2>4, StreamsMove
  <1> QED
    BY <1>4, <1>5

\* A client leaves, or reads a message, or both: its requests stay, and the answer it
\* reads is gone from the stream.
LEMMA ReadPlaces ==
  ASSUME TypeOK, PlacesInv, NEW d \in Clients, UNCHANGED serverVars, NEW c \in Clients,
         c2s' = c2s \/ c2s' = [c2s EXCEPT ![d] = Append(@, Cut)],
         s2c' = s2c \/ (s2c[d] # <<>> /\ s2c' = [s2c EXCEPT ![d] = Tail(@)])
  PROVE  /\ OnePlace(c)'
         /\ (SentIds(c) \cup ServedIds(c))' = SentIds(c) \cup ServedIds(c)
         /\ ReplyIds(c)' \subseteq ReplyIds(c)
         /\ c # d \/ s2c' = s2c => ReplyIds(c)' = ReplyIds(c)
         /\ c = d /\ s2c' # s2c =>
              ReplyIds(c)' = ReplyIds(c) \
                (IF Head(s2c[c]).type = "RESPONSE" THEN {Head(s2c[c]).id} ELSE {})
  <1>1. ServedBy(c)' = ServedBy(c) /\ \A v \in ServedBy(c) : slot'[tid'[v]] = slot[tid[v]]
    BY DEF serverVars, idVars, ServedBy, Serving
  <1>2. /\ c2s \in [Clients -> Seq(Nat \cup {Cut})] /\ s2c \in [Clients -> Seq(Messages)]
        /\ OnePlace(c)
    BY DEF TypeOK, StreamTypes, PlacesInv
  <1>3. /\ c2s[c] \in Seq(Nat \cup {Cut}) /\ s2c[c] \in Seq(Messages)
        /\ SentIds(c) = IdsOn(c2s[c]) /\ ReplyIds(c) = IdsIn(s2c[c])
        /\ EachOnce(c2s[c]) /\ AnsweredOnce(s2c[c])
        /\ SentIds(c) \cap ServedIds(c) = {}
        /\ (SentIds(c) \cup ServedIds(c)) \cap ReplyIds(c) = {}
    BY <1>2, PlaceTypes
  <1>4. IdsOn(c2s'[c]) = IdsOn(c2s[c]) /\ EachOnce(c2s'[c])
    <2>1. CASE c2s'[c] = c2s[c]
      BY <1>3, <2>1
    <2>2. CASE c2s'[c] = Append(c2s[c], Cut)
      <3>1. Cut \notin IdsOn(c2s[c])
        BY DEF IdsOn
      <3>2. IdsOn(Append(c2s[c], Cut)) = IdsOn(c2s[c]) \cup ({Cut} \ {Cut})
        BY <1>3, QueueAppend
      <3>3. EachOnce(Append(c2s[c], Cut))
        BY <1>3, <3>1, QueueAppend
      <3> QED
        BY <2>2, <3>2, <3>3
    <2> QED
      BY <1>2, <2>1, <2>2
  <1>5. CASE s2c'[c] = s2c[c] /\ (c # d \/ s2c' = s2c)
    BY <1>1, <1>2, <1>3, <1>4, <1>5, StreamsMove
  <1>6. CASE c = d /\ s2c[c] # <<>> /\ s2c'[c] = Tail(s2c[c])
    <2>1. /\ IdsIn(s2c[c]) = IdsIn(s2c'[c]) \cup
               (IF Head(s2c[c]).type = "RESPONSE" THEN {Head(s2c[c]).id} ELSE {})
          /\ AnsweredOnce(s2c'[c])
          /\ Head(s2c[c]).type = "RESPONSE" => Head(s2c[c]).id \notin IdsIn(s2c'[c])
      BY <1>3, <1>6, AnswersTail
    <2>2. IdsIn(s2c'[c]) \subseteq ReplyIds(c)
      BY <1>3, <2>1
    <2>3. /\ OnePlace(c)' /\ SentIds(c)' = SentIds(c) /\ ServedIds(c)' = ServedIds(c)
          /\ ReplyIds(c)' = IdsIn(s2c'[c])
      BY <1>1, <1>2, <1>3, <1>4, <2>1, <2>2, StreamsMove
    <2>4. s2c' # s2c
      <3>1. Len(Tail(s2c[c])) = Len(s2c[c]) - 1 /\ Len(s2c[c]) \in Nat
        BY <1>3, <1>6
      <3>2. Len(Tail(s2c[c])) # Len(s2c[c])
        BY <3>1
      <3> QED
        BY <1>6, <3>2
    <2> QED
      BY <1>3, <1>6, <2>1, <2>2, <2>3, <2>4
  <1> QED
    BY <1>2, <1>5, <1>6

\* A reset loses the last message of a stream.
LEMMA LostPlaces ==
  ASSUME TypeOK, PlacesInv, NEW d \in Clients, ResetLoses(d), NEW c \in Clients
  PROVE  /\ OnePlace(c)'
         /\ ReplyIds(c)' \subseteq ReplyIds(c)
         /\ c2s' # c2s /\ c = d =>
              /\ c2s[d] # <<>>
              /\ (SentIds(c) \cup ServedIds(c))'
                   = (SentIds(c) \cup ServedIds(c)) \ ({c2s[d][Len(c2s[d])]} \ {Cut})
              /\ c2s[d][Len(c2s[d])] \in SentIds(c) \cup {Cut}
         /\ c # d \/ c2s' = c2s =>
              (SentIds(c) \cup ServedIds(c))' = SentIds(c) \cup ServedIds(c)
  <1>1. ServedBy(c)' = ServedBy(c) /\ \A v \in ServedBy(c) : slot'[tid'[v]] = slot[tid[v]]
    BY DEF ResetLoses, serverVars, idVars, ServedBy, Serving
  <1>2. /\ c2s \in [Clients -> Seq(Nat \cup {Cut})] /\ s2c \in [Clients -> Seq(Messages)]
        /\ OnePlace(c)
    BY DEF TypeOK, StreamTypes, PlacesInv
  <1>3. /\ c2s[c] \in Seq(Nat \cup {Cut}) /\ s2c[c] \in Seq(Messages)
        /\ SentIds(c) = IdsOn(c2s[c]) /\ ReplyIds(c) = IdsIn(s2c[c])
        /\ EachOnce(c2s[c]) /\ AnsweredOnce(s2c[c])
        /\ SentIds(c) \cap ServedIds(c) = {}
        /\ (SentIds(c) \cup ServedIds(c)) \cap ReplyIds(c) = {}
    BY <1>2, PlaceTypes
  <1>4. CASE c2s'[c] = c2s[c] /\ s2c'[c] = s2c[c] /\ (c # d \/ c2s' = c2s)
    BY <1>1, <1>2, <1>4, PlacesSame
  <1>5. CASE c = d /\ c2s[c] # <<>> /\ c2s'[c] = Front(c2s[c]) /\ s2c' = s2c
    <2> DEFINE last == c2s[c][Len(c2s[c])]
    <2>1. /\ IdsOn(c2s[c]) = IdsOn(c2s'[c]) \cup ({last} \ {Cut})
          /\ EachOnce(c2s'[c]) /\ (last # Cut => last \notin IdsOn(c2s'[c]))
      BY <1>3, <1>5, QueueFront
    <2>2. IdsOn(c2s'[c]) \subseteq SentIds(c) /\ IdsIn(s2c'[c]) = ReplyIds(c)
          /\ AnsweredOnce(s2c'[c])
      BY <1>3, <1>5, <2>1
    <2>3. /\ OnePlace(c)' /\ SentIds(c)' = IdsOn(c2s'[c]) /\ ServedIds(c)' = ServedIds(c)
          /\ ReplyIds(c)' = ReplyIds(c)
      BY <1>1, <1>2, <1>3, <2>1, <2>2, StreamsMove
    <2>4. c2s' # c2s
      <3>0. /\ Len(c2s[c]) \in DOMAIN c2s[c]
            /\ DOMAIN Front(c2s[c]) = (DOMAIN c2s[c]) \ {Len(c2s[c])}
        BY <1>3, <1>5, FrontIndices
      <3>1. DOMAIN Front(c2s[c]) # DOMAIN c2s[c]
        BY <3>0
      <3> QED
        BY <1>5, <3>1
    <2>5. last \in SentIds(c) \cup {Cut}
      BY <1>3, <2>1
    <2>6. last # Cut => last \notin ServedIds(c)
      BY <1>3, <2>5
    <2> HIDE DEF last
    <2>7. (SentIds(c) \cup ServedIds(c))' = (SentIds(c) \cup ServedIds(c)) \ ({last} \ {Cut})
      BY <1>3, <2>1, <2>3, <2>6
    <2> QED
      BY <1>5, <2>3, <2>4, <2>5, <2>7 DEF last
  <1>6. CASE c = d /\ s2c[c] # <<>> /\ s2c'[c] = Front(s2c[c]) /\ c2s' = c2s
    <2>1. AnsweredOnce(s2c'[c]) /\ IdsIn(s2c'[c]) \subseteq IdsIn(s2c[c])
      BY <1>3, <1>6, AnswersFront
    <2>2. /\ OnePlace(c)' /\ SentIds(c)' = SentIds(c) /\ ServedIds(c)' = ServedIds(c)
          /\ ReplyIds(c)' \subseteq ReplyIds(c)
      BY <1>1, <1>2, <1>3, <1>6, <2>1, StreamsMove
    <2> QED
      BY <1>6, <2>2
  <1> QED
    BY <1>2, <1>4, <1>5, <1>6 DEF ResetLoses

\* One iteration of a broadcast appends a notice to the stream of a client.
LEMMA NoticeGoes ==
  ASSUME TypeOK, LocksExclusive, LoopInv, NEW w \in Workers, BroadcastSend(w)
  PROVE  /\ fdMem[bcast.it] \in Clients
         /\ bcast.msg \in Messages /\ bcast.msg.type # "RESPONSE"
         /\ \/ /\ Connected(fdMem[bcast.it]) /\ UNCHANGED server
               /\ s2c' = [s2c EXCEPT ![fdMem[bcast.it]] = Append(@, bcast.msg)]
            \/ /\ UNCHANGED s2c /\ server' \in {"up", "send failed"}
  <1>1. /\ bcast.msg \in Messages /\ bcast.it \in 0..(NumClients + 1) /\ bcast.end \in 0..NumClients
        /\ fdMem \in [Clients -> Clients] /\ NumClients \in Nat
    BY ServerAssumption DEF TypeOK, RequestTypes, VectorTypes, ServerAssumption
  <1>2. bcast.it >= 1 /\ bcast.msg.type # "RESPONSE" /\ bcast.it <= bcast.end
    BY DEF LoopInv, BroadcastSend
  <1>3. bcast.it \in Clients
    BY <1>1, <1>2 DEF Clients
  <1>4. Deliver(fdMem[bcast.it], bcast.msg)
    BY DEF BroadcastSend
  <1> QED
    BY <1>1, <1>2, <1>3, <1>4 DEF Deliver

\* All other steps of a worker leave the requests where they are.
LEMMA OtherPlaces ==
  ASSUME TypeOK, LocksExclusive, PlacesInv, LoopInv, NEW w \in Workers, WorkerStep(w),
         ~RecvRequest(w), ~Respond(w), NEW c \in Clients
  PROVE  /\ OnePlace(c)'
         /\ (SentIds(c) \cup ServedIds(c))' = SentIds(c) \cup ServedIds(c)
         /\ ReplyIds(c)' = ReplyIds(c)
  <1>1. ServedBy(c)' = ServedBy(c) /\ \A v \in ServedBy(c) : slot'[tid'[v]] = slot[tid[v]]
    BY ServedKept DEF ServedBy
  <1>2. /\ c2s \in [Clients -> Seq(Nat \cup {Cut})] /\ s2c \in [Clients -> Seq(Messages)]
        /\ OnePlace(c)
    BY DEF TypeOK, StreamTypes, PlacesInv
  <1>3. /\ c2s[c] \in Seq(Nat \cup {Cut}) /\ s2c[c] \in Seq(Messages)
        /\ SentIds(c) = IdsOn(c2s[c]) /\ ReplyIds(c) = IdsIn(s2c[c])
        /\ EachOnce(c2s[c]) /\ AnsweredOnce(s2c[c])
        /\ SentIds(c) \cap ServedIds(c) = {}
        /\ (SentIds(c) \cup ServedIds(c)) \cap ReplyIds(c) = {}
    BY <1>2, PlaceTypes
  <1>4. CASE c2s'[c] = c2s[c] /\ s2c'[c] = s2c[c]
    BY <1>1, <1>2, <1>4, PlacesSame
  <1>5. CASE RecvEof(w)
    <2>1. /\ Picked \in Clients /\ c2s[Picked] \in {<<>>, <<Cut>>}
          /\ c2s' = [c2s EXCEPT ![Picked] = <<>>] /\ UNCHANGED s2c
      BY <1>5, SelectedClient DEF RecvEof
    <2>2. CASE c # Picked
      BY <1>2, <1>4, <2>1, <2>2
    <2>3. CASE c = Picked
      <3>1. c2s'[c] = <<>> /\ s2c'[c] = s2c[c] /\ c2s[c] \in {<<>>, <<Cut>>}
        BY <1>2, <2>1, <2>3
      <3>2. IdsOn(c2s[c]) = {} /\ IdsOn(c2s'[c]) = {} /\ EachOnce(c2s'[c])
        BY <3>1 DEF IdsOn, EachOnce
      <3> QED
        BY <1>1, <1>2, <1>3, <3>1, <3>2, StreamsMove
    <2> QED
      BY <2>2, <2>3
  <1>6. CASE BroadcastSend(w)
    <2>1. UNCHANGED c2s
      BY <1>6 DEF BroadcastSend
    <2>2. CASE s2c'[c] = s2c[c]
      BY <1>4, <2>1, <2>2
    <2>3. CASE s2c'[c] = Append(s2c[c], bcast.msg)
      <3>1. bcast.msg \in Messages /\ bcast.msg.type # "RESPONSE"
        BY <1>6, NoticeGoes
      <3>2. IdsIn(s2c'[c]) = IdsIn(s2c[c]) \cup {} /\ AnsweredOnce(s2c'[c])
        BY <1>3, <2>3, <3>1, AnswersAppend
      <3> QED
        BY <1>1, <1>2, <1>3, <2>1, <3>2, StreamsMove
    <2> QED
      BY <1>2, <1>6, <2>2, <2>3, NoticeGoes
  <1>7. CASE ~RecvEof(w) /\ ~BroadcastSend(w)
    <2>1. UNCHANGED <<c2s, s2c>>
      BY <1>7 DEF WorkerStep, Arrive, ThreadStart, CheckQuota, CountRequest, LockRecv, Shrink,
           RecvTruncated, AllClientsGone, LockSend, BroadcastEnd, JoinAndFinish, MainReturns
    <2> QED
      BY <1>4, <2>1
  <1> QED
    BY <1>5, <1>6, <1>7

\* The steps of a client that are not a request or a loss: it leaves, reads, or both.
LEMMA ClientReads ==
  ASSUME NEW d \in Clients, ClientReceive(d) \/ ClientKilled(d)
  PROVE  /\ UNCHANGED <<serverVars, started>> /\ Connected(d)
         /\ c2s' = c2s \/ c2s' = [c2s EXCEPT ![d] = Append(@, Cut)]
         /\ s2c' = s2c \/ (s2c[d] # <<>> /\ s2c' = [s2c EXCEPT ![d] = Tail(@)])
  <1>1. CASE ClientResponse(d)
    BY <1>1 DEF ClientResponse, Receives
  <1>2. CASE ClientRoiBegin(d)
    BY <1>2 DEF ClientRoiBegin, Receives, Leaves
  <1>3. CASE ClientFinish(d)
    BY <1>3 DEF ClientFinish, Receives, Leaves
  <1>4. CASE ClientKilled(d)
    BY <1>4 DEF ClientKilled, Leaves
  <1> QED
    BY <1>1, <1>2, <1>3, <1>4 DEF ClientReceive

\* A worker touches nothing of a client but its streams.
LEMMA WorkerStepsClients ==
  ASSUME NEW w \in Workers, WorkerStep(w)
  PROVE  server = "up" /\ UNCHANGED clientVars
  BY DEF WorkerStep, Arrive, ThreadStart, CheckQuota, CountRequest, LockRecv,
         RecvRequest, RecvEof, Shrink, RecvTruncated, AllClientsGone, LockSend, Respond,
         BroadcastSend, BroadcastEnd, JoinAndFinish, MainReturns

\* The requests of a live client stay accounted for in every step.
LEMMA PlacesStep ==
  ASSUME TypeOK, TypeOK', LocksExclusive, SlotsDistinct, PlacesInv, ServedInv, LoopInv, [Next]_vars
  PROVE  PlacesInv'
  <1> SUFFICES ASSUME NEW c \in Clients
               PROVE  /\ OnePlace(c)'
                      /\ (\A id \in SentIds(c) \cup ServedIds(c) \cup ReplyIds(c) : id < started[c])'
                      /\ (server = "up" /\ Connected(c) =>
                            inFlight[c] = SentIds(c) \cup ServedIds(c) \cup ReplyIds(c))'
    BY DEF PlacesInv
  <1>0. /\ OnePlace(c)
        /\ \A id \in SentIds(c) \cup ServedIds(c) \cup ReplyIds(c) : id < started[c]
        /\ server = "up" /\ Connected(c) =>
             inFlight[c] = SentIds(c) \cup ServedIds(c) \cup ReplyIds(c)
        /\ started \in [Clients -> 0..Supply] /\ Supply \in Nat
        /\ inFlight \in [Clients -> SUBSET Nat]
    BY ServerAssumption DEF PlacesInv, TypeOK, ClientTypes, ServerAssumption
  <1>1. ASSUME NEW w \in Workers, WorkerStep(w)
        PROVE  /\ OnePlace(c)'
               /\ (\A id \in SentIds(c) \cup ServedIds(c) \cup ReplyIds(c) : id < started[c])'
               /\ (server = "up" /\ Connected(c) =>
                     inFlight[c] = SentIds(c) \cup ServedIds(c) \cup ReplyIds(c))'
    <2>1. server = "up" /\ UNCHANGED <<started, inFlight>> /\ (Connected(c)' <=> Connected(c))
      BY <1>1, WorkerStepsClients DEF clientVars, Connected
    <2>2. CASE RecvRequest(w)
      BY <1>0, <2>1, <2>2, RecvPlaces
    <2>3. CASE Respond(w)
      <3>1. CASE Connected(c)
        BY <1>0, <2>1, <2>3, <3>1, RespondPlaces
      <3>2. CASE ~Connected(c)
        BY <1>0, <2>1, <2>3, <3>2, RespondPlaces
      <3> QED
        BY <3>1, <3>2
    <2>4. CASE ~RecvRequest(w) /\ ~Respond(w)
      BY <1>0, <1>1, <2>1, <2>4, OtherPlaces
    <2> QED
      BY <2>2, <2>3, <2>4
  <1>2. ASSUME NEW d \in Clients, ClientSend(d)
        PROVE  /\ OnePlace(c)'
               /\ (\A id \in SentIds(c) \cup ServedIds(c) \cup ReplyIds(c) : id < started[c])'
               /\ (server = "up" /\ Connected(c) =>
                     inFlight[c] = SentIds(c) \cup ServedIds(c) \cup ReplyIds(c))'
    <2>1. /\ server = "up" /\ started' = [started EXCEPT ![d] = @ + 1]
          /\ inFlight' = [inFlight EXCEPT ![d] = @ \cup {started[d]}]
          /\ (Connected(c)' <=> Connected(c))
      BY <1>2 DEF ClientSend, Connected
    <2>2. CASE c = d
      <3>1. /\ OnePlace(c)' /\ ReplyIds(c)' = ReplyIds(c)
            /\ (SentIds(c) \cup ServedIds(c))' = SentIds(c) \cup ServedIds(c) \cup {started[c]}
        BY <1>2, <2>2, SendPlaces
      <3>2. started'[c] = started[c] + 1 /\ inFlight'[c] = inFlight[c] \cup {started[c]}
            /\ started[c] \in Nat
        BY <1>0, <2>1, <2>2
      <3>3. \A id \in SentIds(c) \cup ServedIds(c) \cup ReplyIds(c) : id \in Nat
        <4>1. inFlight[c] \in SUBSET Nat
          BY <1>0
        <4>2. Connected(c) /\ server = "up"
          BY <1>2, <2>2 DEF ClientSend
        <4> QED
          BY <1>0, <4>1, <4>2
      <3>4. \A id \in SentIds(c) \cup ServedIds(c) \cup ReplyIds(c) \cup {started[c]} :
               id < started[c] + 1
        BY <1>0, <3>2, <3>3
      <3> QED
        BY <1>0, <2>1, <3>1, <3>2, <3>4
    <2>3. CASE c # d
      BY <1>0, <1>2, <2>1, <2>3, SendPlaces
    <2> QED
      BY <2>2, <2>3
  <1>3. ASSUME NEW d \in Clients, ClientReceive(d) \/ ClientKilled(d)
        PROVE  /\ OnePlace(c)'
               /\ (\A id \in SentIds(c) \cup ServedIds(c) \cup ReplyIds(c) : id < started[c])'
               /\ (server = "up" /\ Connected(c) =>
                     inFlight[c] = SentIds(c) \cup ServedIds(c) \cup ReplyIds(c))'
    <2>1. /\ UNCHANGED <<serverVars, started>> /\ Connected(d)
          /\ c2s' = c2s \/ c2s' = [c2s EXCEPT ![d] = Append(@, Cut)]
          /\ s2c' = s2c \/ (s2c[d] # <<>> /\ s2c' = [s2c EXCEPT ![d] = Tail(@)])
      BY <1>3, ClientReads
    <2>2. UNCHANGED server
      BY <2>1 DEF serverVars
    <2>3. /\ OnePlace(c)'
          /\ (SentIds(c) \cup ServedIds(c))' = SentIds(c) \cup ServedIds(c)
          /\ ReplyIds(c)' \subseteq ReplyIds(c)
          /\ c # d \/ s2c' = s2c => ReplyIds(c)' = ReplyIds(c)
          /\ c = d /\ s2c' # s2c =>
               ReplyIds(c)' = ReplyIds(c) \
                 (IF Head(s2c[c]).type = "RESPONSE" THEN {Head(s2c[c]).id} ELSE {})
      BY <2>1, ReadPlaces
    <2>4. Connected(c)' => Connected(c)
      <3>1. [Next]_vars
        BY <1>3 DEF Next
      <3> QED
        BY <3>1, StaysGone
    <2>5. CASE ClientResponse(d)
      <3>1. /\ inFlight' = [inFlight EXCEPT ![d] = @ \ {Head(s2c[d]).id}]
            /\ Head(s2c[d]).type = "RESPONSE" /\ s2c[d] # <<>>
            /\ s2c' = [s2c EXCEPT ![d] = Tail(@)]
        BY <2>5 DEF ClientResponse, Receives
      <3>2. CASE c # d
        BY <1>0, <2>1, <2>2, <2>3, <2>4, <3>1, <3>2
      <3>3. CASE c = d
        <4>1. s2c' # s2c
          <5>1. s2c \in [Clients -> Seq(Messages)]
            BY DEF TypeOK, StreamTypes
          <5>2. Len(Tail(s2c[d])) = Len(s2c[d]) - 1 /\ Len(s2c[d]) \in Nat
            BY <3>1, <5>1
          <5>3. Len(Tail(s2c[d])) # Len(s2c[d])
            BY <5>2
          <5>4. s2c'[d] = Tail(s2c[d])
            BY <3>1, <5>1
          <5> QED
            BY <5>3, <5>4
        <4>2. ReplyIds(c)' = ReplyIds(c) \ {Head(s2c[c]).id}
          BY <2>3, <3>1, <3>3, <4>1
        <4>3. Head(s2c[c]).id \in ReplyIds(c)
          BY <3>1, <3>3, PlaceTypes, AnswersTail
        <4>4. Head(s2c[c]).id \notin SentIds(c) \cup ServedIds(c)
          BY <1>0, <4>3 DEF OnePlace
        <4>5. inFlight'[c] = inFlight[c] \ {Head(s2c[c]).id}
          BY <1>0, <3>1, <3>3
        <4> QED
          BY <1>0, <2>1, <2>2, <2>3, <2>4, <4>2, <4>4, <4>5
      <3> QED
        BY <3>2, <3>3
    <2>6. CASE ClientRoiBegin(d) \/ ClientFinish(d)
      <3>1. /\ UNCHANGED inFlight /\ Head(s2c[d]).type # "RESPONSE"
        BY <2>6 DEF ClientRoiBegin, ClientFinish, Receives
      <3>2. ReplyIds(c)' = ReplyIds(c)
        BY <2>3, <3>1
      <3> QED
        BY <1>0, <2>1, <2>2, <2>3, <2>4, <3>1, <3>2
    <2>7. CASE ClientKilled(d)
      <3>1. UNCHANGED <<inFlight, s2c>>
        BY <2>7 DEF ClientKilled
      <3> QED
        BY <1>0, <2>1, <2>2, <2>3, <2>4, <3>1
    <2> QED
      BY <1>3, <2>5, <2>6, <2>7 DEF ClientReceive
  <1>4. ASSUME NEW d \in Clients, ResetLoses(d)
        PROVE  /\ OnePlace(c)'
               /\ (\A id \in SentIds(c) \cup ServedIds(c) \cup ReplyIds(c) : id < started[c])'
               /\ (server = "up" /\ Connected(c) =>
                     inFlight[c] = SentIds(c) \cup ServedIds(c) \cup ReplyIds(c))'
    <2>1. UNCHANGED <<server, started, inFlight>> /\ (Connected(c)' <=> Connected(c))
      BY <1>4 DEF ResetLoses, serverVars, clientVars, Connected
    <2>2. OnePlace(c)' /\ ReplyIds(c)' \subseteq ReplyIds(c)
          /\ (SentIds(c) \cup ServedIds(c))' \subseteq SentIds(c) \cup ServedIds(c)
      BY <1>4, LostPlaces
    <2>3. server = "up" /\ Connected(c) =>
            ReplyIds(c)' = ReplyIds(c)
            /\ (SentIds(c) \cup ServedIds(c))' = SentIds(c) \cup ServedIds(c)
      <3>1. CASE c # d \/ c2s' = c2s
        <4>2. server = "up" => s2c' = s2c
          BY <1>4 DEF ResetLoses
        <4>3. s2c' = s2c => ReplyIds(c)' = ReplyIds(c)
          BY DEF ReplyIds, Replied
        <4> QED
          BY <1>4, <3>1, <4>2, <4>3, LostPlaces
      <3>2. CASE c = d /\ c2s' # c2s
        BY <1>4, <3>2 DEF ResetLoses
      <3> QED
        BY <3>1, <3>2
    <2> QED
      BY <1>0, <2>1, <2>2, <2>3
  <1>5. CASE UNCHANGED vars
    <2>1. UNCHANGED <<server, started, inFlight, c2s, s2c>> /\ (Connected(c)' <=> Connected(c))
          /\ ServedBy(c)' = ServedBy(c) /\ \A v \in ServedBy(c) : slot'[tid'[v]] = slot[tid[v]]
      BY <1>5 DEF vars, serverVars, idVars, clientVars, Connected, ServedBy, Serving
    <2> QED
      BY <1>0, <2>1, PlacesSame
  <1> QED
    BY <1>1, <1>2, <1>3, <1>4, <1>5 DEF Next, Stopped

\* Requests are served for clients only.
LEMMA ServedStep ==
  ASSUME TypeOK, SlotsDistinct, ServedInv, [Next]_vars
  PROVE  ServedInv'
  <1>1. ASSUME NEW w \in Workers, WorkerStep(w) PROVE ServedInv'
    <2>1. CASE RecvRequest(w)
      <3>1. Picked \in Clients
        BY <2>1, SelectedClient DEF RecvRequest
      <3> QED
        BY <2>1, <3>1, ServedTaken DEF ServedInv
    <2>2. CASE Respond(w)
      BY <2>2, ServedAnswered DEF ServedInv
    <2>3. CASE ~RecvRequest(w) /\ ~Respond(w)
      BY <1>1, <2>3, ServedKept DEF ServedInv
    <2> QED
      BY <2>1, <2>2, <2>3
  <1>2. CASE UNCHANGED serverVars
    BY <1>2 DEF serverVars, idVars, ServedInv, Serving
  <1> QED
    BY <1>1, <1>2, ClientStepsServer DEF Next, Stopped, vars

\* A broadcast sends nothing but notices, from the first element of the vector on.
LEMMA LoopStep ==
  ASSUME TypeOK, LocksExclusive, LoopInv, [Next]_vars
  PROVE  LoopInv'
  <1>0. /\ ThreadTypes /\ bcast \in [msg : Messages, it : 0..(NumClients + 1), end : 0..NumClients]
    BY DEF TypeOK, RequestTypes
  <1>1. ASSUME NEW w \in Workers, WorkerStep(w) PROVE LoopInv'
    <2>1. CASE Respond(w)
      <3>1. \A v \in Workers : pc[v] \in {"broadcast", "finish"} => v = w
        BY <2>1 DEF Respond, LocksExclusive
      <3>2. \A v \in Workers \ {w} : pc'[v] = pc[v]
        BY <1>0, <2>1 DEF Respond, Broadcast, ThreadTypes
      <3>3. pc'[w] = "count" \/ (bcast'.it = 1 /\ bcast'.msg \in {RoiBegin, Finish})
        <4>1. \/ pc' = [pc EXCEPT ![w] = "count"]
              \/ Broadcast(w, RoiBegin, "broadcast") \/ Broadcast(w, Finish, "broadcast")
          BY <2>1 DEF Respond
        <4>2. pc' = [pc EXCEPT ![w] = "count"] => pc'[w] = "count"
          BY <1>0 DEF ThreadTypes
        <4>3. ASSUME NEW msg, Broadcast(w, msg, "broadcast")
              PROVE  bcast'.it = 1 /\ bcast'.msg = msg
          BY <4>3 DEF Broadcast
        <4> QED
          BY <4>1, <4>2, <4>3
      <3> QED
        BY <2>1, <3>1, <3>2, <3>3 DEF LoopInv, RoiBegin, Finish, Respond
    <2>2. CASE JoinAndFinish(w)
      <3>1. \A v \in Workers : pc[v] = "done"
        BY <2>2 DEF JoinAndFinish, AllJoined
      <3>2. bcast'.it = 1 /\ bcast'.msg = Finish
            /\ \A v \in Workers \ {w} : pc'[v] = pc[v]
        BY <1>0, <2>2 DEF JoinAndFinish, Broadcast, ThreadTypes
      <3> QED
        BY <3>1, <3>2 DEF LoopInv, Finish
    <2>3. CASE BroadcastSend(w)
      <3>1. bcast'.it = bcast.it + 1 /\ bcast'.msg = bcast.msg /\ UNCHANGED pc
        BY <1>0, <2>3 DEF BroadcastSend
      <3>2. bcast.it \in Nat
        BY <1>0
      <3> QED
        BY <3>1, <3>2 DEF LoopInv
    <2>4. CASE BroadcastEnd(w)
      <3>1. \A v \in Workers : pc[v] \in {"broadcast", "finish"} => v = w
        BY <1>0, <2>4 DEF BroadcastEnd, Goto, LocksExclusive
      <3>2. \A v \in Workers : pc'[v] = IF v = w THEN pc'[w] ELSE pc[v]
        BY <1>0, <2>4 DEF BroadcastEnd, Goto, ThreadTypes
      <3>3. pc'[w] \in {"count", "return"}
        BY <1>0, <2>4 DEF BroadcastEnd, Goto, ThreadTypes
      <3> QED
        BY <3>1, <3>2, <3>3 DEF LoopInv
    <2>5. CASE RecvTruncated(w) \/ AllClientsGone(w) \/ MainReturns(w)
      BY <2>5 DEF RecvTruncated, AllClientsGone, MainReturns, LoopInv
    <2>6. CASE Arrive(w) \/ ThreadStart(w) \/ CheckQuota(w) \/ CountRequest(w) \/ LockRecv(w)
      BY <1>0, <2>6 DEF Arrive, ThreadStart, CheckQuota, CountRequest, LockRecv, Goto,
                        ThreadTypes, LoopInv
    <2>7. CASE RecvRequest(w) \/ RecvEof(w) \/ Shrink(w) \/ LockSend(w)
      BY <1>0, <2>7 DEF RecvRequest, RecvEof, Shrink, LockSend, Goto, ThreadTypes, LoopInv
    <2> QED
      BY <1>1, <2>1, <2>2, <2>3, <2>4, <2>5, <2>6, <2>7 DEF WorkerStep
  <1>2. CASE UNCHANGED serverVars
    BY <1>2 DEF serverVars, LoopInv
  <1> QED
    BY <1>1, <1>2, ClientStepsServer DEF Next, Stopped, vars
-----------------------------------------------------------------------------
(* The inductive invariant of the service, and what follows from it.       *)

ServiceInv ==
  IndInv /\ CutInv /\ ListInv /\ ReturnInv /\ PlacesInv /\ ServedInv /\ LoopInv

\* It holds before the first request.
LEMMA ServiceInvInit == Init => ServiceInv
  <1> SUFFICES ASSUME Init PROVE ServiceInv
    OBVIOUS
  <1>0. NumClients \in Nat \ {0} /\ Main \in Workers
    BY ServerAssumption DEF ServerAssumption
  <1>1. IndInv
    BY IndInvInit
  <1>2. CutInv
    BY DEF Init, CutInv
  <1>3. ListInv
    <2>1. Listed = NumClients
      BY DEF Init, Listed, Erasing
    <2> QED
      BY <1>0, <2>1 DEF Init, ListInv, Clients
  <1>4. ReturnInv
    <2>1. Answered = {}
      BY DEF Init, Answered
    <2>2. Cardinality(Answered) = 0
      BY <2>1, FS_EmptySet
    <2> QED
      BY <1>0, <2>2 DEF Init, ReturnInv
  <1>5. ServedInv /\ LoopInv /\ Serving = {}
    BY DEF Init, ServedInv, LoopInv, Serving
  <1>6. PlacesInv
    <2> SUFFICES ASSUME NEW c \in Clients
                 PROVE  OnePlace(c) /\ inFlight[c] = {} /\
                        SentIds(c) = {} /\ ServedIds(c) = {} /\ ReplyIds(c) = {}
      BY DEF PlacesInv
    <2>1. Queued(c) = {} /\ Replied(c) = {} /\ ServedBy(c) = {} /\ inFlight[c] = {}
      BY <1>5 DEF Init, Queued, Replied, ServedBy
    <2>2. SentIds(c) = {} /\ ServedIds(c) = {} /\ ReplyIds(c) = {}
      BY <2>1 DEF SentIds, ServedIds, ReplyIds
    <2> QED
      BY <2>1, <2>2 DEF OnePlace
  <1> QED
    BY <1>1, <1>2, <1>3, <1>4, <1>5, <1>6 DEF ServiceInv

\* Every step keeps it.
LEMMA ServiceInvStep == ServiceInv /\ [Next]_vars => ServiceInv'
  <1> SUFFICES ASSUME ServiceInv, [Next]_vars PROVE ServiceInv'
    OBVIOUS
  <1>1. /\ TypeOK /\ LocksExclusive /\ SlotsDistinct /\ IndInv /\ CutInv /\ ListInv
        /\ ReturnInv /\ PlacesInv /\ ServedInv /\ LoopInv
    BY DEF ServiceInv, IndInv
  <1>2. IndInv' /\ TypeOK'
    BY <1>1, IndInvStep DEF IndInv
  <1>3. CutInv' /\ ListInv' /\ ReturnInv'
    BY <1>1, CutStep, ListStep, ReturnStep
  <1>4. PlacesInv' /\ ServedInv' /\ LoopInv'
    BY <1>1, <1>2, PlacesStep, ServedStep, LoopStep
  <1> QED
    BY <1>2, <1>3, <1>4 DEF ServiceInv

\* The invariant holds of every reachable state.
LEMMA ServiceInvHolds == Spec => []ServiceInv
  BY ServiceInvInit, ServiceInvStep, PTL DEF Spec

\* However many clients leave and in whatever order they are erased, a live client
\* stays in clientFds, once.
THEOREM LiveClientsStayListed == Spec => []LiveClientsListed
  <1>1. ServiceInv => LiveClientsListed
    BY ListImplies DEF ServiceInv, IndInv
  <1> QED
    BY <1>1, ServiceInvHolds, PTL

\* When main returns, every request received has been answered and counted, and the
\* quota is met.
THEOREM ReturnIsClean == Spec => []CleanReturn
  <1>1. ServiceInv => CleanReturn
    BY ReturnImplies DEF ServiceInv, IndInv
  <1> QED
    BY <1>1, ServiceInvHolds, PTL

\* Every request a live client has in inFlightReqs is on a stream or with a worker,
\* exactly once, so the lookup of finiReq never fails.
THEOREM InFlightIsAccounted == Spec => []InFlightAccounted
  <1>1. ServiceInv => InFlightAccounted
    BY DEF ServiceInv, PlacesInv, InFlightAccounted
  <1> QED
    BY <1>1, ServiceInvHolds, PTL
-----------------------------------------------------------------------------
(* The service that the server implements: each step is one of ExactlyOnce *)
(* or changes nothing of it.                                               *)

\* The state of the service: the requests nobody has answered, the messages on their
\* way, and the clients that are there.
Pending == [c \in Clients |-> SentIds(c) \cup ServedIds(c)]
MailOf(s) == [i \in DOMAIN s |-> AnswerIn(s[i])]
Mailbox == [c \in Clients |-> MailOf(s2c[c])]
Live == {c \in Clients : Connected(c)}

\* A message in a mailbox is an answer or a notice.
LEMMA MailType ==
  ASSUME NEW s \in Seq(Messages)
  PROVE  /\ MailOf(s) \in Seq(Int) /\ Len(MailOf(s)) = Len(s) /\ DOMAIN MailOf(s) = DOMAIN s
         /\ \A i \in DOMAIN s : MailOf(s)[i] = AnswerIn(s[i])
         /\ MailOf(s) # <<>> <=> s # <<>>
  <1>1. \A m \in Messages : AnswerIn(m) \in Int
    BY DEF AnswerIn, Messages, Notice
  <1>2. DOMAIN s = 1..Len(s) /\ Len(s) \in Nat /\ \A i \in 1..Len(s) : s[i] \in Messages
    OBVIOUS
  <1>3. MailOf(s) = [i \in 1..Len(s) |-> AnswerIn(s[i])]
    BY <1>2 DEF MailOf
  <1>4. MailOf(s) \in Seq(Int)
    BY <1>1, <1>2, <1>3
  <1>5. Len(MailOf(s)) = Len(s)
    BY <1>2, <1>3, <1>4
  <1> QED
    BY <1>2, <1>3, <1>4, <1>5

\* Two sequences are equal when their elements are.
LEMMA SeqEqual ==
  ASSUME NEW S, NEW s \in Seq(S), NEW t \in Seq(S), Len(s) = Len(t),
         \A i \in 1..Len(s) : s[i] = t[i]
  PROVE  s = t
  OBVIOUS

\* Mail that arrives.
LEMMA MailAppend ==
  ASSUME NEW s \in Seq(Messages), NEW m \in Messages
  PROVE  MailOf(Append(s, m)) = Append(MailOf(s), AnswerIn(m))
  <1>1. /\ Append(s, m) \in Seq(Messages) /\ AnswerIn(m) \in Int
        /\ Len(Append(s, m)) = Len(s) + 1 /\ DOMAIN Append(s, m) = 1..(Len(s) + 1)
        /\ Len(s) \in Nat
    BY DEF AnswerIn, Messages, Notice
  <1>2. MailOf(Append(s, m)) \in Seq(Int) /\ MailOf(s) \in Seq(Int)
        /\ Len(MailOf(Append(s, m))) = Len(s) + 1 /\ Len(MailOf(s)) = Len(s)
    BY <1>1, MailType
  <1>3. Append(MailOf(s), AnswerIn(m)) \in Seq(Int)
        /\ Len(Append(MailOf(s), AnswerIn(m))) = Len(s) + 1
    BY <1>1, <1>2
  <1>4. ASSUME NEW i \in 1..(Len(s) + 1)
        PROVE  MailOf(Append(s, m))[i] = Append(MailOf(s), AnswerIn(m))[i]
    <2>1. MailOf(Append(s, m))[i] = AnswerIn(Append(s, m)[i])
      BY <1>1, <1>4, MailType
    <2>2. CASE i = Len(s) + 1
      BY <1>1, <1>2, <2>1, <2>2
    <2>3. CASE i # Len(s) + 1
      <3>1. i \in DOMAIN s /\ i \in 1..Len(MailOf(s))
        BY <1>2, <1>4, <2>3
      <3>2. Append(s, m)[i] = s[i] /\ Append(MailOf(s), AnswerIn(m))[i] = MailOf(s)[i]
        BY <1>1, <1>2, <3>1
      <3> QED
        BY <2>1, <3>1, <3>2, MailType
    <2> QED
      BY <2>2, <2>3
  <1> DEFINE a == MailOf(Append(s, m))
             b == Append(MailOf(s), AnswerIn(m))
  <1> HIDE DEF a, b
  <1>5. a = b
    BY <1>1, <1>2, <1>3, <1>4, SeqEqual DEF a, b
  <1> QED
    BY <1>5 DEF a, b

\* Mail that is taken.
LEMMA MailTail ==
  ASSUME NEW s \in Seq(Messages), s # <<>>
  PROVE  MailOf(Tail(s)) = Tail(MailOf(s)) /\ Head(MailOf(s)) = AnswerIn(Head(s))
  <1>1. Tail(s) \in Seq(Messages) /\ Len(Tail(s)) = Len(s) - 1 /\ Len(s) \in Nat \ {0}
    OBVIOUS
  <1>2. /\ MailOf(Tail(s)) \in Seq(Int) /\ MailOf(s) \in Seq(Int) /\ MailOf(s) # <<>>
        /\ Len(MailOf(Tail(s))) = Len(s) - 1 /\ Len(MailOf(s)) = Len(s)
    BY <1>1, MailType
  <1>3. Tail(MailOf(s)) \in Seq(Int) /\ Len(Tail(MailOf(s))) = Len(s) - 1
    BY <1>1, <1>2
  <1>4. ASSUME NEW i \in 1..(Len(s) - 1) PROVE MailOf(Tail(s))[i] = Tail(MailOf(s))[i]
    <2>1. i \in DOMAIN Tail(s) /\ i + 1 \in DOMAIN s
      BY <1>1, <1>4
    <2>2. MailOf(Tail(s))[i] = AnswerIn(Tail(s)[i])
      BY <1>1, <2>1, MailType
    <2>3. Tail(s)[i] = s[i+1]
      BY <1>1, <2>1
    <2>4. Tail(MailOf(s))[i] = MailOf(s)[i+1]
      BY <1>1, <1>2, <1>3, <1>4
    <2> QED
      BY <2>1, <2>2, <2>3, <2>4, MailType
  <1>5. MailOf(Tail(s)) = Tail(MailOf(s))
    BY <1>1, <1>2, <1>3, <1>4, SeqEqual
  <1>6. Head(MailOf(s)) = MailOf(s)[1] /\ Head(s) = s[1] /\ 1 \in DOMAIN s
    BY <1>1, <1>2
  <1> QED
    BY <1>5, <1>6, MailType

\* Mail that is lost.
LEMMA MailFront ==
  ASSUME NEW s \in Seq(Messages), s # <<>>
  PROVE  MailOf(Front(s)) = SubSeq(MailOf(s), 1, Len(MailOf(s)) - 1)
  <1>1. /\ Front(s) \in Seq(Messages) /\ Len(Front(s)) = Len(s) - 1 /\ Len(s) \in Nat \ {0}
        /\ \A i \in 1..(Len(s) - 1) : Front(s)[i] = s[i]
    <2>1. Len(s) \in Nat \ {0} /\ DOMAIN s = 1..Len(s)
      OBVIOUS
    <2>2. /\ Front(s) \in Seq(Messages) /\ DOMAIN Front(s) = (DOMAIN s) \ {Len(s)}
          /\ \A i \in DOMAIN Front(s) : Front(s)[i] = s[i]
      <3>1. s \in Seq(Messages)
        OBVIOUS
      <3> QED
        BY <3>1, FrontIndices
    <2>3. Len(Front(s)) = Len(s) - 1
      BY <2>1 DEF Front
    <2>4. DOMAIN Front(s) = 1..(Len(s) - 1)
      BY <2>1, <2>2
    <2> QED
      BY <2>1, <2>2, <2>3, <2>4
  <1> DEFINE t == SubSeq(MailOf(s), 1, Len(MailOf(s)) - 1)
  <1>2. /\ MailOf(Front(s)) \in Seq(Int) /\ MailOf(s) \in Seq(Int)
        /\ Len(MailOf(Front(s))) = Len(s) - 1 /\ Len(MailOf(s)) = Len(s)
    BY <1>1, MailType
  <1>3. t \in Seq(Int) /\ Len(t) = Len(s) - 1
        /\ \A i \in 1..(Len(s) - 1) : t[i] = MailOf(s)[i]
    BY <1>1, <1>2
  <1> HIDE DEF t
  <1>4. ASSUME NEW i \in 1..(Len(s) - 1) PROVE MailOf(Front(s))[i] = t[i]
    <2>1. i \in DOMAIN Front(s) /\ i \in DOMAIN s
      BY <1>1, <1>4
    <2> QED
      BY <1>1, <1>3, <2>1, MailType
  <1>5. MailOf(Front(s)) = t
    BY <1>1, <1>2, <1>3, <1>4, SeqEqual
  <1> QED
    BY <1>5 DEF t

\* A step that changes nothing of the service.
LEMMA MapsToStutter ==
  ASSUME UNCHANGED <<server, started>>, Pending' = Pending, Mailbox' = Mailbox, Live' = Live
  PROVE  UNCHANGED Service!vars
  BY DEF Service!vars, Pending, Mailbox, Live, MailOf

\* A request is sent.
LEMMA MapsToSubmit ==
  ASSUME NEW d \in Clients, server = "up", d \in Live,
         started' = [started EXCEPT ![d] = @ + 1],
         Pending' = [Pending EXCEPT ![d] = @ \cup {started[d]}],
         Mailbox' = Mailbox, Live' = Live, UNCHANGED server
  PROVE  Service!Next
  <1>1. Service!Submit(d)
    BY DEF Service!Submit, Pending, Mailbox, Live, MailOf
  <1> QED
    BY <1>1 DEF Service!Next

\* A notice is sent.
LEMMA MapsToNotify ==
  ASSUME NEW d \in Clients, server = "up", UNCHANGED <<server, started>>, d \in Live,
         Pending' = Pending, Mailbox' = [Mailbox EXCEPT ![d] = Append(@, Notice)], Live' = Live
  PROVE  Service!Next
  <1>1. Service!Notify(d)
    BY DEF Service!Notify, Pending, Mailbox, Live, MailOf
  <1> QED
    BY <1>1 DEF Service!Next

\* A request is answered.
LEMMA MapsToAnswer ==
  ASSUME NEW d \in Clients, NEW id, server = "up", UNCHANGED <<server, started>>, d \in Live,
         id \in Pending[d], Pending' = [Pending EXCEPT ![d] = @ \ {id}],
         Mailbox' = [Mailbox EXCEPT ![d] = Append(@, id)], Live' = Live
  PROVE  Service!Next
  <1>1. Service!Answer(d, id)
    BY DEF Service!Answer, Pending, Mailbox, Live, MailOf
  <1>2. id \in SentIds(d) \cup ServedIds(d)
    BY DEF Pending
  <1> QED
    BY <1>1, <1>2 DEF Service!Next

\* A request is given up, because its client has left.
LEMMA MapsToAbandon ==
  ASSUME NEW d \in Clients, NEW id, server' = "up" => server = "up", UNCHANGED started,
         d \notin Live, id \in Pending[d], Pending' = [Pending EXCEPT ![d] = @ \ {id}],
         Mailbox' = Mailbox, Live' = Live
  PROVE  Service!Next
  <1>1. Service!Abandon(d, id)
    <2>1. (server' = "up") \in {server = "up", FALSE}
      OBVIOUS
    <2> QED
      BY <2>1 DEF Service!Abandon, Pending, Mailbox, Live, MailOf
  <1>2. id \in SentIds(d) \cup ServedIds(d)
    BY DEF Pending
  <1> QED
    BY <1>1, <1>2 DEF Service!Next

\* The server ends.
LEMMA MapsToClose ==
  ASSUME server' # "up", UNCHANGED started, Pending' = Pending, Mailbox' = Mailbox, Live' = Live
  PROVE  Service!Next
  <1>1. Service!Close
    BY DEF Service!Close, Pending, Mailbox, Live, MailOf
  <1> QED
    BY <1>1 DEF Service!Next

\* A client reads.
LEMMA MapsToTake ==
  ASSUME NEW d \in Clients, UNCHANGED <<server, started>>, d \in Live, Mailbox[d] # <<>>,
         Pending' = Pending, Mailbox' = [Mailbox EXCEPT ![d] = Tail(@)], Live' = Live
  PROVE  Service!Next
  <1>1. Service!Take(d)
    BY DEF Service!Take, Pending, Mailbox, Live, MailOf
  <1> QED
    BY <1>1 DEF Service!Next

\* A client leaves.
LEMMA MapsToLeave ==
  ASSUME NEW d \in Clients, UNCHANGED <<server, started>>, d \in Live, Pending' = Pending,
         \/ Mailbox' = Mailbox
         \/ /\ Mailbox[d] # <<>> /\ Head(Mailbox[d]) = Notice
            /\ Mailbox' = [Mailbox EXCEPT ![d] = Tail(@)],
         Live' = Live \ {d}
  PROVE  Service!Next
  <1>1. Service!Leave(d)
    BY DEF Service!Leave, Pending, Mailbox, Live, MailOf
  <1> QED
    BY <1>1 DEF Service!Next

\* A message of a server that is over is lost.
LEMMA MapsToLose ==
  ASSUME NEW d \in Clients, UNCHANGED <<server, started>>, server # "up", Mailbox[d] # <<>>,
         Pending' = Pending, Live' = Live,
         Mailbox' = [Mailbox EXCEPT ![d] = SubSeq(@, 1, Len(@) - 1)]
  PROVE  Service!Next
  <1>1. Service!Lose(d)
    BY DEF Service!Lose, Pending, Mailbox, Live, MailOf
  <1> QED
    BY <1>1 DEF Service!Next

\* What a message does to the mailboxes.
LEMMA MailboxMoves ==
  ASSUME TypeOK, NEW d \in Clients
  PROVE  /\ \A m \in Messages : s2c' = [s2c EXCEPT ![d] = Append(@, m)]
              => Mailbox' = [Mailbox EXCEPT ![d] = Append(@, AnswerIn(m))]
         /\ s2c[d] # <<>> => Mailbox[d] # <<>> /\ Head(Mailbox[d]) = AnswerIn(Head(s2c[d]))
         /\ s2c[d] # <<>> /\ s2c' = [s2c EXCEPT ![d] = Tail(@)]
              => Mailbox' = [Mailbox EXCEPT ![d] = Tail(@)]
         /\ s2c[d] # <<>> /\ s2c' = [s2c EXCEPT ![d] = Front(@)]
              => Mailbox' = [Mailbox EXCEPT ![d] = SubSeq(@, 1, Len(@) - 1)]
         /\ UNCHANGED s2c => Mailbox' = Mailbox
  <1>1. s2c \in [Clients -> Seq(Messages)] /\ s2c[d] \in Seq(Messages)
    BY DEF TypeOK, StreamTypes
  <1>2. ASSUME NEW m \in Messages, s2c' = [s2c EXCEPT ![d] = Append(@, m)]
        PROVE  Mailbox' = [Mailbox EXCEPT ![d] = Append(@, AnswerIn(m))]
    BY <1>1, <1>2, MailAppend DEF Mailbox
  <1>3. s2c[d] # <<>> => Mailbox[d] # <<>> /\ Head(Mailbox[d]) = AnswerIn(Head(s2c[d]))
    BY <1>1, MailTail, MailType DEF Mailbox
  <1>4. ASSUME s2c[d] # <<>>, s2c' = [s2c EXCEPT ![d] = Tail(@)]
        PROVE  Mailbox' = [Mailbox EXCEPT ![d] = Tail(@)]
    BY <1>1, <1>4, MailTail DEF Mailbox
  <1>5. ASSUME s2c[d] # <<>>, s2c' = [s2c EXCEPT ![d] = Front(@)]
        PROVE  Mailbox' = [Mailbox EXCEPT ![d] = SubSeq(@, 1, Len(@) - 1)]
    BY <1>1, <1>5, MailFront DEF Mailbox
  <1>6. UNCHANGED s2c => Mailbox' = Mailbox
    BY DEF Mailbox
  <1> QED
    BY <1>2, <1>3, <1>4, <1>5, <1>6

\* Every step of a worker is one of the service: an answer, a notice, the end, or
\* nothing at all.
LEMMA WorkerImplements ==
  ASSUME ServiceInv, TypeOK', NEW w \in Workers, WorkerStep(w)
  PROVE  Service!Next \/ UNCHANGED Service!vars
  <1>0. /\ TypeOK /\ LocksExclusive /\ SlotsDistinct /\ PlacesInv /\ ServedInv /\ LoopInv
        /\ s2c \in [Clients -> Seq(Messages)]
    BY DEF ServiceInv, IndInv, TypeOK, StreamTypes
  <1>1. server = "up" /\ UNCHANGED started /\ Live' = Live
    BY WorkerStepsClients DEF clientVars, Live, Connected
  <1>2. CASE RecvRequest(w)
    <2>1. \A c \in Clients : (SentIds(c) \cup ServedIds(c))' = SentIds(c) \cup ServedIds(c)
      BY <1>0, <1>2, RecvPlaces
    <2>2. Pending' = Pending
      BY <2>1 DEF Pending
    <2>3. UNCHANGED <<server, s2c>>
      BY <1>2 DEF RecvRequest
    <2> QED
      BY <1>0, <1>1, <2>2, <2>3, MapsToStutter DEF Mailbox
  <1>3. CASE Respond(w)
    <2> DEFINE fd == slot[tid[w]].fd
               id == slot[tid[w]].id
    <2>1. /\ fd \in Clients /\ id \in Nat
          /\ Connected(fd) =>
               UNCHANGED server /\ s2c' = [s2c EXCEPT ![fd] = Append(@, RespMsg(id))]
          /\ ~Connected(fd) => UNCHANGED s2c /\ server' \in {"up", "send failed"}
      BY <1>0, <1>3, ResponseGoes, ServedAnswered
    <2>2. \A c \in Clients :
            /\ (SentIds(c) \cup ServedIds(c))'
                 = (SentIds(c) \cup ServedIds(c)) \ (IF c = fd THEN {id} ELSE {})
            /\ c = fd => id \in ServedIds(c)
      BY <1>0, <1>3, RespondPlaces
    <2> HIDE DEF fd, id
    <2>3. Pending' = [Pending EXCEPT ![fd] = @ \ {id}] /\ id \in Pending[fd]
      BY <2>1, <2>2 DEF Pending
    <2>4. CASE Connected(fd)
      <3>1. RespMsg(id) \in Messages /\ AnswerIn(RespMsg(id)) = id
        BY <2>1 DEF RespMsg, Messages, AnswerIn
      <3>2. Mailbox' = [Mailbox EXCEPT ![fd] = Append(@, id)]
        BY <1>0, <2>1, <2>4, <3>1, MailboxMoves
      <3>3. fd \in Live /\ UNCHANGED server
        BY <2>1, <2>4 DEF Live
      <3> QED
        BY <1>1, <2>1, <2>3, <3>2, <3>3, MapsToAnswer
    <2>5. CASE ~Connected(fd)
      <3>1. Mailbox' = Mailbox /\ fd \notin Live
        BY <2>1, <2>5 DEF Mailbox, Live
      <3> QED
        BY <1>1, <2>1, <2>3, <3>1, MapsToAbandon
    <2> QED
      BY <2>4, <2>5
  <1>4. CASE ~RecvRequest(w) /\ ~Respond(w)
    <2>1. \A c \in Clients : (SentIds(c) \cup ServedIds(c))' = SentIds(c) \cup ServedIds(c)
      BY <1>0, <1>4, OtherPlaces
    <2>2. Pending' = Pending
      BY <2>1 DEF Pending
    <2>3. CASE UNCHANGED s2c
      <3>1. Mailbox' = Mailbox
        BY <2>3 DEF Mailbox
      <3>2. CASE server' = "up"
        BY <1>1, <2>2, <3>1, <3>2, MapsToStutter
      <3>3. CASE server' # "up"
        BY <1>1, <2>2, <3>1, <3>3, MapsToClose
      <3> QED
        BY <3>2, <3>3
    <2>4. CASE BroadcastSend(w)
      <3> DEFINE fd == fdMem[bcast.it]
      <3>1. /\ fd \in Clients /\ bcast.msg \in Messages /\ bcast.msg.type # "RESPONSE"
            /\ \/ /\ Connected(fd) /\ UNCHANGED server
                  /\ s2c' = [s2c EXCEPT ![fd] = Append(@, bcast.msg)]
               \/ UNCHANGED s2c
        BY <1>0, <2>4, NoticeGoes
      <3>2. AnswerIn(bcast.msg) = Notice
        BY <3>1 DEF AnswerIn
      <3> HIDE DEF fd
      <3>3. CASE Connected(fd) /\ UNCHANGED server /\ s2c' = [s2c EXCEPT ![fd] = Append(@, bcast.msg)]
        <4>1. Mailbox' = [Mailbox EXCEPT ![fd] = Append(@, Notice)]
          BY <1>0, <3>1, <3>2, <3>3, MailboxMoves
        <4>2. fd \in Live
          BY <3>1, <3>3 DEF Live
        <4> QED
          BY <1>1, <2>2, <3>1, <3>3, <4>1, <4>2, MapsToNotify
      <3> QED
        BY <2>3, <3>1, <3>3
    <2>5. UNCHANGED s2c \/ BroadcastSend(w)
      BY <1>4 DEF WorkerStep, Arrive, ThreadStart, CheckQuota, CountRequest, LockRecv, RecvEof,
           Shrink, RecvTruncated, AllClientsGone, LockSend, BroadcastEnd, JoinAndFinish, MainReturns
    <2> QED
      BY <2>3, <2>4, <2>5
  <1> QED
    BY <1>2, <1>3, <1>4

\* So is every step of a client.
LEMMA ClientImplements ==
  ASSUME ServiceInv, NEW d \in Clients,
         ClientSend(d) \/ ClientReceive(d) \/ ClientKilled(d) \/ ResetLoses(d)
  PROVE  Service!Next \/ UNCHANGED Service!vars
  <1>0. /\ TypeOK /\ PlacesInv
        /\ c2s \in [Clients -> Seq(Nat \cup {Cut})] /\ s2c \in [Clients -> Seq(Messages)]
        /\ phase \in [Clients -> {"WARMUP", "ROI", "FINISHED", "ABORTED", "KILLED"}]
    BY DEF ServiceInv, IndInv, TypeOK, StreamTypes, ClientTypes
  <1>1. CASE ClientSend(d)
    <2>1. /\ server = "up" /\ UNCHANGED <<server, s2c, phase>> /\ Connected(d)
          /\ started' = [started EXCEPT ![d] = @ + 1]
      BY <1>1 DEF ClientSend, serverVars
    <2>2. \A c \in Clients : (SentIds(c) \cup ServedIds(c))'
              = SentIds(c) \cup ServedIds(c) \cup (IF c = d THEN {started[d]} ELSE {})
      BY <1>0, <1>1, SendPlaces
    <2>3. Pending' = [Pending EXCEPT ![d] = @ \cup {started[d]}]
      BY <2>2 DEF Pending
    <2>4. Mailbox' = Mailbox /\ Live' = Live /\ d \in Live
      BY <2>1 DEF Mailbox, Live, Connected
    <2> QED
      BY <2>1, <2>3, <2>4, MapsToSubmit
  <1>2. CASE ClientReceive(d) \/ ClientKilled(d)
    <2>1. /\ UNCHANGED <<serverVars, started>> /\ Connected(d)
          /\ c2s' = c2s \/ c2s' = [c2s EXCEPT ![d] = Append(@, Cut)]
          /\ s2c' = s2c \/ (s2c[d] # <<>> /\ s2c' = [s2c EXCEPT ![d] = Tail(@)])
      BY <1>2, ClientReads
    <2>2. UNCHANGED <<server, started>> /\ d \in Live
      BY <2>1 DEF serverVars, Live
    <2>3. \A c \in Clients : (SentIds(c) \cup ServedIds(c))' = SentIds(c) \cup ServedIds(c)
      BY <1>0, <2>1, ReadPlaces
    <2>4. Pending' = Pending
      BY <2>3 DEF Pending
    <2>5. ASSUME NEW how \in {"FINISHED", "ABORTED", "KILLED"}, phase' = [phase EXCEPT ![d] = how]
          PROVE  Live' = Live \ {d}
      BY <1>0, <2>5 DEF Live, Connected
    <2>6. CASE ClientResponse(d)
      <3>1. s2c[d] # <<>> /\ s2c' = [s2c EXCEPT ![d] = Tail(@)] /\ UNCHANGED phase
        BY <2>6 DEF ClientResponse, Receives
      <3>2. Mailbox[d] # <<>> /\ Mailbox' = [Mailbox EXCEPT ![d] = Tail(@)]
        BY <1>0, <3>1, MailboxMoves
      <3>3. Live' = Live
        BY <3>1 DEF Live, Connected
      <3> QED
        BY <2>2, <2>4, <3>2, <3>3, MapsToTake
    <2>7. CASE ClientRoiBegin(d) \/ ClientFinish(d)
      <3>1. /\ s2c[d] # <<>> /\ s2c' = [s2c EXCEPT ![d] = Tail(@)]
            /\ Head(s2c[d]).type # "RESPONSE"
        BY <2>7 DEF ClientRoiBegin, ClientFinish, Receives
      <3>2. /\ Mailbox[d] # <<>> /\ Mailbox' = [Mailbox EXCEPT ![d] = Tail(@)]
            /\ Head(Mailbox[d]) = Notice
        BY <1>0, <3>1, MailboxMoves DEF AnswerIn
      <3>3. CASE phase[d] = "WARMUP" /\ phase' = [phase EXCEPT ![d] = "ROI"]
        <4>1. Live' = Live
          BY <1>0, <3>3 DEF Live, Connected
        <4> QED
          BY <2>2, <2>4, <3>2, <4>1, MapsToTake
      <3>4. CASE \E how \in {"FINISHED", "ABORTED"} : phase' = [phase EXCEPT ![d] = how]
        BY <2>2, <2>4, <2>5, <3>2, <3>4, MapsToLeave
      <3> QED
        BY <2>7, <3>3, <3>4 DEF ClientRoiBegin, ClientFinish, Leaves
    <2>8. CASE ClientKilled(d)
      <3>1. UNCHANGED s2c /\ phase' = [phase EXCEPT ![d] = "KILLED"]
        BY <2>8 DEF ClientKilled, Leaves
      <3>2. Mailbox' = Mailbox
        BY <3>1 DEF Mailbox
      <3> QED
        BY <2>2, <2>4, <2>5, <3>1, <3>2, MapsToLeave
    <2> QED
      BY <1>2, <2>6, <2>7, <2>8 DEF ClientReceive
  <1>3. CASE ResetLoses(d)
    <2>1. UNCHANGED <<server, started>> /\ Live' = Live
      BY <1>3 DEF ResetLoses, serverVars, clientVars, Live, Connected
    <2>2. CASE c2s' = c2s
      <3>1. \A c \in Clients : (SentIds(c) \cup ServedIds(c))' = SentIds(c) \cup ServedIds(c)
        BY <1>0, <1>3, <2>2, LostPlaces
      <3>2. Pending' = Pending
        BY <3>1 DEF Pending
      <3>3. CASE UNCHANGED s2c
        <4>1. Mailbox' = Mailbox
          BY <3>3 DEF Mailbox
        <4> QED
          BY <2>1, <3>2, <4>1, MapsToStutter
      <3>4. CASE server # "up" /\ s2c[d] # <<>> /\ s2c' = [s2c EXCEPT ![d] = Front(@)]
        <4>1. Mailbox[d] # <<>> /\ Mailbox' = [Mailbox EXCEPT ![d] = SubSeq(@, 1, Len(@) - 1)]
          BY <1>0, <3>4, MailboxMoves
        <4> QED
          BY <2>1, <3>2, <3>4, <4>1, MapsToLose
      <3> QED
        BY <1>3, <3>3, <3>4 DEF ResetLoses
    <2>3. CASE c2s' # c2s
      <3> DEFINE last == c2s[d][Len(c2s[d])]
      <3>1. UNCHANGED s2c /\ ~Connected(d)
        BY <1>3, <2>3 DEF ResetLoses
      <3>2. Mailbox' = Mailbox /\ d \notin Live
        BY <3>1 DEF Mailbox, Live
      <3>3. /\ \A c \in Clients : c # d =>
                 (SentIds(c) \cup ServedIds(c))' = SentIds(c) \cup ServedIds(c)
            /\ (SentIds(d) \cup ServedIds(d))' = (SentIds(d) \cup ServedIds(d)) \ ({last} \ {Cut})
            /\ last \in SentIds(d) \cup {Cut}
        BY <1>0, <1>3, <2>3, LostPlaces
      <3> HIDE DEF last
      <3>4. CASE last = Cut
        <4>1. Pending' = Pending
          BY <3>3, <3>4 DEF Pending
        <4> QED
          BY <2>1, <3>2, <4>1, MapsToStutter
      <3>5. CASE last # Cut
        <4>1. Pending' = [Pending EXCEPT ![d] = @ \ {last}] /\ last \in Pending[d]
          BY <3>3, <3>5 DEF Pending
        <4> QED
          BY <2>1, <3>2, <4>1, MapsToAbandon
      <3> QED
        BY <3>4, <3>5
    <2> QED
      BY <2>2, <2>3
  <1> QED
    BY <1>1, <1>2, <1>3
-----------------------------------------------------------------------------
\* The service starts with nothing asked for and every client there.
LEMMA ImplementsInit == Init => Service!Init
  <1> SUFFICES ASSUME Init PROVE Service!Init
    OBVIOUS
  <1>1. Serving = {}
    BY DEF Init, Serving
  <1>2. \A c \in Clients : SentIds(c) \cup ServedIds(c) = {}
    BY <1>1 DEF Init, SentIds, Queued, ServedIds, ServedBy
  <1>3. \A c \in Clients : [i \in DOMAIN s2c[c] |-> AnswerIn(s2c[c][i])] = <<>>
    BY DEF Init
  <1>4. {c \in Clients : Connected(c)} = Clients
    BY DEF Init, Connected
  <1> QED
    BY <1>2, <1>3, <1>4 DEF Init, Service!Init

\* Every step of the program maps to a step of the service or to none.
LEMMA ImplementsStep ==
  ServiceInv /\ ServiceInv' /\ [Next]_vars => [Service!Next]_(Service!vars)
  <1> SUFFICES ASSUME ServiceInv, ServiceInv', [Next]_vars
               PROVE  Service!Next \/ UNCHANGED Service!vars
    OBVIOUS
  <1>1. TypeOK'
    BY DEF ServiceInv, IndInv
  <1>2. ASSUME UNCHANGED vars PROVE UNCHANGED Service!vars
    <2>1. UNCHANGED <<server, pc, tid, slot, c2s, s2c, phase, started>>
      BY <1>2 DEF vars, serverVars, idVars, clientVars
    <2>2. \A c \in Clients : SentIds(c)' = SentIds(c) /\ ServedIds(c)' = ServedIds(c)
      BY <2>1 DEF SentIds, Queued, ServedIds, ServedBy, Serving
    <2>3. Pending' = Pending /\ Mailbox' = Mailbox /\ Live' = Live
      BY <2>1, <2>2 DEF Pending, Mailbox, Live, Connected
    <2> QED
      BY <2>1, <2>3, MapsToStutter
  <1> QED
    BY <1>1, <1>2, WorkerImplements, ClientImplements DEF Next, Stopped

\* The harness answers every request exactly once, to the client that sent it and in
\* the order in which the answers were given, whatever its threads and clients do.
THEOREM ImplementsExactlyOnce == Spec => ImplementsService
  <1>1. Init => Service!Init
    BY ImplementsInit
  <1>2. ServiceInv /\ ServiceInv' /\ [Next]_vars => [Service!Next]_(Service!vars)
    BY ImplementsStep
  <1> QED
    BY <1>1, <1>2, ServiceInvHolds, PTL DEF Spec, ImplementsService, Service!Spec
-----------------------------------------------------------------------------
(* Messages on a stream.                                                   *)

\* A message is on the stream, and a message is there at most once.
Has(s, m) == \E i \in DOMAIN s : s[i] = m
Once(s, m) == \A i, j \in DOMAIN s : s[i] = m /\ s[j] = m => i = j

\* What a message behind the others changes.
LEMMA HasAppend ==
  ASSUME NEW S, NEW s \in Seq(S), NEW x \in S, NEW m
  PROVE  /\ Has(Append(s, x), m) <=> Has(s, m) \/ x = m
         /\ Once(s, m) /\ ~(Has(s, m) /\ x = m) => Once(Append(s, x), m)
  <1>1. /\ DOMAIN Append(s, x) = (DOMAIN s) \cup {Len(s) + 1}
        /\ Append(s, x)[Len(s) + 1] = x
        /\ \A i \in DOMAIN s : Append(s, x)[i] = s[i]
    BY AppendIndices
  <1> QED
    BY <1>1, Zenon DEF Has, Once

\* What reading the first message changes.
LEMMA HasTail ==
  ASSUME NEW S, NEW s \in Seq(S), s # <<>>, NEW m
  PROVE  /\ Has(s, m) <=> Head(s) = m \/ Has(Tail(s), m)
         /\ Once(s, m) => Once(Tail(s), m)
         /\ Once(s, m) /\ Head(s) = m => ~Has(Tail(s), m)
  <1>1. /\ 1 \in DOMAIN s /\ s[1] = Head(s)
        /\ \A i \in DOMAIN Tail(s) : i \in Nat /\ i # 0 /\ i + 1 \in DOMAIN s
                                     /\ Tail(s)[i] = s[i+1]
        /\ \A i \in DOMAIN s : i # 1 => i - 1 \in DOMAIN Tail(s) /\ Tail(s)[i-1] = s[i]
    BY TailIndices
  <1>2. Has(s, m) <=> Head(s) = m \/ Has(Tail(s), m)
    BY <1>1, Zenon DEF Has
  <1>3. ASSUME Once(s, m), NEW i \in DOMAIN Tail(s), NEW j \in DOMAIN Tail(s),
               Tail(s)[i] = m, Tail(s)[j] = m
        PROVE  i = j
    <2>1. i + 1 = j + 1
      BY <1>1, <1>3 DEF Once
    <2> QED
      BY <1>1, <2>1
  <1>4. ASSUME Once(s, m), Head(s) = m, NEW i \in DOMAIN Tail(s), Tail(s)[i] = m
        PROVE  FALSE
    <2>1. i + 1 = 1
      BY <1>1, <1>4 DEF Once
    <2> QED
      BY <1>1, <2>1
  <1>5. Once(s, m) => Once(Tail(s), m)
    BY <1>3 DEF Once
  <1>6. Once(s, m) /\ Head(s) = m => ~Has(Tail(s), m)
    BY <1>4 DEF Has
  <1> QED
    BY <1>2, <1>5, <1>6

\* What losing the last message changes.
LEMMA HasFront ==
  ASSUME NEW S, NEW s \in Seq(S), s # <<>>, NEW m
  PROVE  /\ Has(Front(s), m) => Has(s, m)
         /\ Once(s, m) => Once(Front(s), m)
  <1>1. /\ DOMAIN Front(s) = (DOMAIN s) \ {Len(s)}
        /\ \A i \in DOMAIN Front(s) : Front(s)[i] = s[i]
    BY FrontIndices
  <1> QED
    BY <1>1 DEF Has, Once
-----------------------------------------------------------------------------
(* The steps of the system, as one client and its stream of responses see  *)
(* them.                                                                   *)

\* Nothing happens; a worker sends a response or a notice; the client reads a
\* response, ROI_BEGIN for the first or a further time, or FINISH; it is killed; the
\* end of its stream is lost.
Quiet(c) == UNCHANGED <<s2c[c], phase[c], samples[c]>>
GetsResponse(w, c) ==
  /\ Respond(w) /\ slot[tid[w]].fd = c /\ Connected(c) /\ server' = "up"
  /\ s2c'[c] = Append(s2c[c], RespMsg(slot[tid[w]].id)) /\ UNCHANGED <<phase[c], samples[c]>>
GetsNotice(w, c) ==
  /\ BroadcastSend(w) /\ fdMem[bcast.it] = c /\ Connected(c) /\ server' = "up"
  /\ s2c'[c] = Append(s2c[c], bcast.msg) /\ UNCHANGED <<phase[c], samples[c]>>
Reads(c, type) ==
  /\ Connected(c) /\ s2c[c] # <<>> /\ Head(s2c[c]).type = type
  /\ s2c'[c] = Tail(s2c[c])
TakesResponse(c) ==
  /\ Reads(c, "RESPONSE") /\ UNCHANGED phase[c]
  /\ samples'[c] = IF phase[c] = "ROI" THEN samples[c] + 1 ELSE samples[c]
EntersRoi(c) ==
  Reads(c, "ROI_BEGIN") /\ phase[c] = "WARMUP" /\ phase'[c] = "ROI" /\ samples'[c] = 0
Aborts(c) == Reads(c, "ROI_BEGIN") /\ phase[c] = "ROI" /\ phase'[c] = "ABORTED"
Finishes(c) == Reads(c, "FINISH") /\ phase'[c] = "FINISHED" /\ UNCHANGED samples[c]
Dies(c) == Connected(c) /\ phase'[c] = "KILLED" /\ UNCHANGED s2c[c]
LosesLast(c) ==
  /\ server # "up" /\ s2c[c] # <<>> /\ s2c'[c] = Front(s2c[c])
  /\ UNCHANGED <<phase[c], samples[c]>>

\* A worker sends to a client or leaves it alone.
LEMMA WorkerCases ==
  ASSUME TypeOK, LocksExclusive, ServedInv, LoopInv, NEW w \in Workers, WorkerStep(w),
         NEW c \in Clients
  PROVE  Quiet(c) \/ GetsResponse(w, c) \/ GetsNotice(w, c)
  <1>0. s2c \in [Clients -> Seq(Messages)] /\ server = "up" /\ UNCHANGED <<phase, samples>>
    BY WorkerStepsClients DEF TypeOK, StreamTypes, clientVars
  <1>1. CASE Respond(w)
    <2>1. Deliver(slot[tid[w]].fd, RespMsg(slot[tid[w]].id))
      BY <1>1 DEF Respond
    <2> QED
      BY <1>0, <1>1, <2>1 DEF Deliver, Quiet, GetsResponse
  <1>2. CASE BroadcastSend(w)
    <2>1. Deliver(fdMem[bcast.it], bcast.msg)
      BY <1>2 DEF BroadcastSend
    <2> QED
      BY <1>0, <1>2, <2>1 DEF Deliver, Quiet, GetsNotice
  <1>3. CASE ~Respond(w) /\ ~BroadcastSend(w)
    <2>1. UNCHANGED s2c
      BY <1>3 DEF WorkerStep, Arrive, ThreadStart, CheckQuota, CountRequest, LockRecv,
           RecvRequest, RecvEof, Shrink, RecvTruncated, AllClientsGone, LockSend,
           BroadcastEnd, JoinAndFinish, MainReturns
    <2> QED
      BY <1>0, <2>1 DEF Quiet
  <1> QED
    BY <1>1, <1>2, <1>3

\* A step of a client or of its connection.
LEMMA ClientCases ==
  ASSUME TypeOK, NEW d \in Clients,
         ClientSend(d) \/ ClientReceive(d) \/ ClientKilled(d) \/ ResetLoses(d),
         NEW c \in Clients
  PROVE  \/ Quiet(c) \/ TakesResponse(c) \/ EntersRoi(c) \/ Aborts(c)
         \/ Finishes(c) \/ Dies(c) \/ LosesLast(c)
  <1>0. /\ s2c \in [Clients -> Seq(Messages)] /\ samples \in [Clients -> Nat]
        /\ phase \in [Clients -> {"WARMUP", "ROI", "FINISHED", "ABORTED", "KILLED"}]
    BY DEF TypeOK, StreamTypes, ClientTypes
  <1>1. CASE ClientSend(d)
    BY <1>1 DEF ClientSend, Quiet
  <1>2. CASE ClientResponse(d)
    BY <1>0, <1>2 DEF ClientResponse, Receives, Quiet, TakesResponse, Reads
  <1>3. CASE ClientRoiBegin(d)
    BY <1>0, <1>3 DEF ClientRoiBegin, Receives, Leaves, Quiet, EntersRoi, Aborts, Reads, Connected
  <1>4. CASE ClientFinish(d)
    BY <1>0, <1>4 DEF ClientFinish, Receives, Leaves, Quiet, Finishes, Reads
  <1>5. CASE ClientKilled(d)
    BY <1>0, <1>5 DEF ClientKilled, Leaves, Quiet, Dies
  <1>6. CASE ResetLoses(d)
    BY <1>0, <1>6 DEF ResetLoses, clientVars, Quiet, LosesLast
  <1> QED
    BY <1>1, <1>2, <1>3, <1>4, <1>5, <1>6 DEF ClientReceive

\* A process that has ended does not come back.
LEMMA ServerStaysDown ==
  ASSUME [Next]_vars, server' = "up"
  PROVE  server = "up"
  <1>1. ASSUME NEW w \in Workers, WorkerStep(w) PROVE server = "up"
    BY <1>1 DEF WorkerStep
  <1>2. CASE UNCHANGED serverVars
    BY <1>2 DEF serverVars
  <1> QED
    BY <1>1, <1>2, ClientStepsServer DEF Next, Stopped, vars

-----------------------------------------------------------------------------
(* When there is a broadcast, and of what.                                 *)

\* The response that completes the count, of the warm-up or of the whole measurement.
Counted == MaxReqs > 0 /\ finishedReqs >= WarmupReqs + MaxReqs
BcastInv ==
  /\ bcast.msg \in {RoiBegin, Finish}
  /\ bcast.msg = RoiBegin =>
       /\ WarmupReqs > 0 /\ finishedReqs = WarmupReqs
       /\ \E w \in Workers : pc[w] = "broadcast"
  /\ \A w \in Workers : pc[w] = "broadcast" /\ bcast.msg = Finish => Counted
  /\ (\A w \in Workers : pc[w] \notin {"broadcast", "finish"}) => bcast = Idle

\* The messages that are no responses are these two.
KnownInv ==
  \A c \in Clients : \A i \in DOMAIN s2c[c] :
    s2c[c][i].type = "RESPONSE" \/ s2c[c][i] \in {RoiBegin, Finish}

\* The steps outside of broadcasts.
LEMMA BcastKept ==
  ASSUME TypeOK, NEW w \in Workers, WorkerStep(w),
         ~Respond(w), ~BroadcastSend(w), ~BroadcastEnd(w), ~JoinAndFinish(w)
  PROVE  /\ UNCHANGED <<bcast, finishedReqs>>
         /\ \A v \in Workers :
              \/ pc'[v] = pc[v]
              \/ /\ pc[v] \notin {"broadcast", "finish", "return"}
                 /\ pc'[v] \notin {"broadcast", "finish", "return"}
  <1>0. ThreadTypes
    BY DEF TypeOK
  <1>1. CASE Arrive(w) \/ ThreadStart(w) \/ CheckQuota(w) \/ CountRequest(w) \/ LockRecv(w)
    BY <1>0, <1>1 DEF Arrive, ThreadStart, CheckQuota, CountRequest, LockRecv, Goto,
                      ThreadTypes, countVars
  <1>2. CASE RecvRequest(w) \/ RecvEof(w) \/ Shrink(w) \/ LockSend(w)
    BY <1>0, <1>2 DEF RecvRequest, RecvEof, Shrink, LockSend, Goto, ThreadTypes, countVars
  <1>3. CASE RecvTruncated(w) \/ AllClientsGone(w) \/ MainReturns(w)
    BY <1>3 DEF RecvTruncated, AllClientsGone, MainReturns, countVars
  <1> QED
    BY <1>1, <1>2, <1>3 DEF WorkerStep

\* A broadcast is started by the response that completes a count, or by main.
LEMMA BcastStep ==
  ASSUME TypeOK, LocksExclusive, BcastInv, [Next]_vars
  PROVE  BcastInv'
  <1>0. /\ ThreadTypes /\ finishedReqs \in Nat /\ WarmupReqs \in Nat /\ MaxReqs \in Nat
        /\ bcast \in [msg : Messages, it : 0..(NumClients + 1), end : 0..NumClients]
    BY ServerAssumption DEF TypeOK, RequestTypes, ServerAssumption
  <1>1. RoiBegin # Finish /\ Idle.msg = Finish
    BY DEF RoiBegin, Finish, Idle
  <1>2. ASSUME NEW w \in Workers, WorkerStep(w) PROVE BcastInv'
    <2>1. CASE Respond(w)
      <3>1. \A v \in Workers : pc[v] \notin {"broadcast", "finish"}
        BY <2>1 DEF Respond, LocksExclusive
      <3>2. bcast = Idle /\ bcast.msg = Finish
        BY <1>1, <3>1 DEF BcastInv
      <3>3. finishedReqs' = finishedReqs + 1
        BY <2>1 DEF Respond
      <3>4. CASE EndsWarmup(finishedReqs + 1) /\ Broadcast(w, RoiBegin, "broadcast")
        <4>1. bcast'.msg = RoiBegin /\ pc'[w] = "broadcast"
          BY <1>0, <3>4 DEF Broadcast, ThreadTypes
        <4>2. WarmupReqs > 0 /\ finishedReqs' = WarmupReqs
          BY <1>0, <3>3, <3>4 DEF EndsWarmup
        <4> QED
          BY <1>1, <4>1, <4>2 DEF BcastInv
      <3>5. CASE EndsRoi(finishedReqs + 1) /\ Broadcast(w, Finish, "broadcast")
        <4>1. bcast'.msg = Finish /\ pc'[w] = "broadcast"
          BY <1>0, <3>5 DEF Broadcast, ThreadTypes
        <4>2. Counted'
          BY <1>0, <3>3, <3>5 DEF EndsRoi, EndsWarmup, Counted
        <4> QED
          BY <1>1, <4>1, <4>2 DEF BcastInv
      <3>6. CASE pc' = [pc EXCEPT ![w] = "count"] /\ UNCHANGED bcast
        <4>1. \A v \in Workers : pc'[v] \notin {"broadcast", "finish"}
          BY <1>0, <3>1, <3>6 DEF ThreadTypes
        <4> QED
          BY <1>1, <3>2, <3>6, <4>1 DEF BcastInv
      <3> QED
        BY <2>1, <3>4, <3>5, <3>6 DEF Respond
    <2>2. CASE JoinAndFinish(w)
      <3>1. bcast'.msg = Finish /\ pc'[w] = "finish"
            /\ \A v \in Workers : v # w => pc'[v] = "done"
        BY <1>0, <2>2 DEF JoinAndFinish, AllJoined, Broadcast, ThreadTypes
      <3> QED
        BY <1>1, <3>1 DEF BcastInv
    <2>3. CASE BroadcastSend(w)
      <3>1. bcast'.msg = bcast.msg /\ UNCHANGED <<pc, finishedReqs>>
            /\ pc[w] \in {"broadcast", "finish"}
        BY <1>0, <2>3 DEF BroadcastSend, countVars
      <3> QED
        BY <3>1 DEF BcastInv, Counted
    <2>4. CASE BroadcastEnd(w)
      <3>1. bcast' = Idle /\ pc[w] \in {"broadcast", "finish"} /\ pc'[w] \in {"count", "return"}
            /\ \A v \in Workers : v # w => pc'[v] = pc[v]
        BY <1>0, <2>4 DEF BroadcastEnd, Goto, ThreadTypes
      <3>2. \A v \in Workers : pc[v] \in {"broadcast", "finish"} => v = w
        BY <3>1 DEF LocksExclusive
      <3>3. \A v \in Workers : pc'[v] \notin {"broadcast", "finish"}
        BY <3>1, <3>2
      <3> QED
        BY <1>1, <3>1, <3>3 DEF BcastInv
    <2>5. CASE ~Respond(w) /\ ~BroadcastSend(w) /\ ~BroadcastEnd(w) /\ ~JoinAndFinish(w)
      <3>1. /\ UNCHANGED <<bcast, finishedReqs>>
            /\ \A v \in Workers : pc'[v] = pc[v] \/ (/\ pc[v] \notin {"broadcast", "finish"}
                                                     /\ pc'[v] \notin {"broadcast", "finish"})
        BY <1>2, <2>5, BcastKept
      <3> QED
        BY <3>1 DEF BcastInv, Counted
    <2> QED
      BY <2>1, <2>2, <2>3, <2>4, <2>5
  <1>3. CASE UNCHANGED serverVars
    BY <1>3 DEF serverVars, countVars, BcastInv, Counted
  <1> QED
    BY <1>2, <1>3, ClientStepsServer DEF Next, Stopped, vars

\* No other message is sent.
LEMMA KnownStep ==
  ASSUME TypeOK, LocksExclusive, ServedInv, LoopInv, BcastInv, KnownInv, [Next]_vars
  PROVE  KnownInv'
  <1> SUFFICES ASSUME NEW c \in Clients, NEW i \in DOMAIN s2c'[c]
               PROVE  s2c'[c][i].type = "RESPONSE" \/ s2c'[c][i] \in {RoiBegin, Finish}
    BY DEF KnownInv
  <1> DEFINE s == s2c[c]
             Fits(m) == m.type = "RESPONSE" \/ m \in {RoiBegin, Finish}
  <1>0. s \in Seq(Messages)
    BY DEF TypeOK, StreamTypes
  <1>1. \A j \in DOMAIN s : Fits(s[j])
    BY DEF KnownInv
  <1> HIDE DEF Fits
  <1>2. SUFFICES Fits(s2c'[c][i])
    BY DEF Fits
  <1>3. CASE s2c'[c] = s
    BY <1>1, <1>3
  <1>4. ASSUME NEW m \in Messages, Fits(m), s2c'[c] = Append(s, m) PROVE Fits(s2c'[c][i])
    BY <1>0, <1>1, <1>4, AppendIndices
  <1>5. CASE s # <<>> /\ s2c'[c] = Tail(s)
    BY <1>0, <1>1, <1>5, TailIndices
  <1>6. CASE s # <<>> /\ s2c'[c] = Front(s)
    <2>1. i \in DOMAIN s /\ Front(s)[i] = s[i]
      BY <1>0, <1>6, FrontIndices
    <2> QED
      BY <1>1, <1>6, <2>1
  <1>7. ASSUME NEW w \in Workers, WorkerStep(w) PROVE Fits(s2c'[c][i])
    <2>1. CASE Quiet(c)
      BY <1>3, <2>1 DEF Quiet
    <2>2. CASE GetsResponse(w, c)
      <3> DEFINE m == RespMsg(slot[tid[w]].id)
      <3>1. m \in Messages /\ m.type = "RESPONSE"
        BY <2>2, ServedAnswered DEF GetsResponse, RespMsg, Messages
      <3>2. s2c'[c] = Append(s, m)
        BY <2>2 DEF GetsResponse
      <3> HIDE DEF m
      <3>3. Fits(m)
        BY <3>1 DEF Fits
      <3> QED
        BY <1>4, <3>1, <3>2, <3>3
    <2>3. CASE GetsNotice(w, c)
      <3>1. bcast.msg \in Messages /\ s2c'[c] = Append(s, bcast.msg)
        BY <2>3, NoticeGoes DEF GetsNotice
      <3>2. Fits(bcast.msg)
        BY DEF Fits, BcastInv
      <3> QED
        BY <1>4, <3>1, <3>2
    <2> QED
      BY <1>7, <2>1, <2>2, <2>3, WorkerCases
  <1>8. ASSUME NEW d \in Clients,
               ClientSend(d) \/ ClientReceive(d) \/ ClientKilled(d) \/ ResetLoses(d)
        PROVE  Fits(s2c'[c][i])
    <2>1. s2c'[c] = s \/ (s # <<>> /\ s2c'[c] \in {Tail(s), Front(s)})
      BY <1>8, ClientCases DEF Quiet, TakesResponse, EntersRoi, Aborts, Finishes, Dies, LosesLast,
                               Reads
    <2> QED
      BY <1>3, <1>5, <1>6, <2>1
  <1>9. CASE UNCHANGED vars
    BY <1>3, <1>9 DEF vars
  <1> QED
    BY <1>7, <1>8, <1>9 DEF Next, Stopped

\* What a client reads, by its type.
LEMMA HeadKnown ==
  ASSUME TypeOK, KnownInv, NEW c \in Clients, NEW type \in {"RESPONSE", "ROI_BEGIN", "FINISH"},
         Reads(c, type)
  PROVE  /\ type = "RESPONSE" => Head(s2c[c]) \notin {RoiBegin, Finish}
         /\ type = "ROI_BEGIN" => Head(s2c[c]) = RoiBegin
         /\ type = "FINISH" => Head(s2c[c]) = Finish
  <1>1. s2c[c] \in Seq(Messages)
    BY DEF TypeOK, StreamTypes
  <1>2. 1 \in DOMAIN s2c[c] /\ s2c[c][1] = Head(s2c[c]) /\ Head(s2c[c]).type = type
    BY <1>1, TailIndices DEF Reads
  <1>3. Head(s2c[c]).type = "RESPONSE" \/ Head(s2c[c]) \in {RoiBegin, Finish}
    BY <1>2 DEF KnownInv
  <1> QED
    BY <1>2, <1>3 DEF RoiBegin, Finish

\* A client that stays has what it was sent until it reads it.
LEMMA NoticeStays ==
  ASSUME TypeOK, LocksExclusive, ServedInv, LoopInv, BcastInv, KnownInv, [Next]_vars,
         server = "up", NEW c \in Clients, Connected(c)',
         NEW m \in {RoiBegin, Finish}, Has(s2c[c], m)
  PROVE  Has(s2c'[c], m) \/ (m = RoiBegin /\ EntersRoi(c))
  <1>0. s2c[c] \in Seq(Messages)
    BY DEF TypeOK, StreamTypes
  <1>1. ASSUME NEW x \in Messages, s2c'[c] = Append(s2c[c], x) PROVE Has(s2c'[c], m)
    BY <1>0, <1>1, HasAppend
  <1>2. CASE TakesResponse(c)
    <2>1. Head(s2c[c]) # m
      BY <1>2, HeadKnown DEF TakesResponse
    <2> QED
      BY <1>0, <1>2, <2>1, HasTail DEF TakesResponse, Reads
  <1>3. CASE EntersRoi(c)
    <2>1. Head(s2c[c]) = RoiBegin
      BY <1>3, HeadKnown DEF EntersRoi
    <2>2. m # RoiBegin => Has(s2c'[c], m)
      BY <1>0, <1>3, <2>1, HasTail DEF EntersRoi, Reads
    <2> QED
      BY <1>3, <2>2
  <1>4. ASSUME NEW w \in Workers, WorkerStep(w) PROVE Has(s2c'[c], m)
    <2>1. CASE GetsResponse(w, c)
      BY <1>1, <2>1, ServedAnswered DEF GetsResponse, RespMsg, Messages
    <2>2. CASE GetsNotice(w, c)
      BY <1>1, <2>2, NoticeGoes DEF GetsNotice
    <2> QED
      BY <1>4, <2>1, <2>2, WorkerCases DEF Quiet
  <1>5. ASSUME NEW d \in Clients,
               ClientSend(d) \/ ClientReceive(d) \/ ClientKilled(d) \/ ResetLoses(d)
        PROVE  Has(s2c'[c], m) \/ (m = RoiBegin /\ EntersRoi(c))
    <2>1. Quiet(c) \/ TakesResponse(c) \/ EntersRoi(c)
      BY <1>5, ClientCases DEF Aborts, Finishes, Dies, LosesLast, Connected
    <2> QED
      BY <1>2, <1>3, <2>1 DEF Quiet
  <1>6. CASE UNCHANGED vars
    BY <1>6 DEF vars
  <1> QED
    BY <1>4, <1>5, <1>6 DEF Next, Stopped

\* A notice comes onto a stream by a broadcast only.
LEMMA NoticeComes ==
  ASSUME TypeOK, LocksExclusive, ServedInv, LoopInv, BcastInv, KnownInv, [Next]_vars,
         NEW c \in Clients, NEW m \in {RoiBegin, Finish}, Has(s2c'[c], m)
  PROVE  Has(s2c[c], m) \/ \E w \in Workers : GetsNotice(w, c) /\ bcast.msg = m
  <1>0. s2c[c] \in Seq(Messages)
    BY DEF TypeOK, StreamTypes
  <1>1. ASSUME NEW w \in Workers, WorkerStep(w)
        PROVE  Has(s2c[c], m) \/ (GetsNotice(w, c) /\ bcast.msg = m)
    <2>1. CASE GetsResponse(w, c)
      <3> DEFINE x == RespMsg(slot[tid[w]].id)
      <3>1. x \in Messages /\ x # m /\ s2c'[c] = Append(s2c[c], x)
        BY <2>1, ServedAnswered DEF GetsResponse, RespMsg, Messages, RoiBegin, Finish
      <3> HIDE DEF x
      <3> QED
        BY <1>0, <3>1, HasAppend
    <2>2. CASE GetsNotice(w, c)
      <3>1. bcast.msg \in Messages /\ s2c'[c] = Append(s2c[c], bcast.msg)
        BY <2>2, NoticeGoes DEF GetsNotice
      <3>2. Has(s2c[c], m) \/ bcast.msg = m
        BY <1>0, <3>1, HasAppend
      <3> QED
        BY <2>2, <3>2
    <2> QED
      BY <1>1, <2>1, <2>2, WorkerCases DEF Quiet
  <1>2. ASSUME NEW d \in Clients,
               ClientSend(d) \/ ClientReceive(d) \/ ClientKilled(d) \/ ResetLoses(d)
        PROVE  Has(s2c[c], m)
    <2>1. s2c'[c] = s2c[c] \/ (s2c[c] # <<>> /\ s2c'[c] \in {Tail(s2c[c]), Front(s2c[c])})
      BY <1>2, ClientCases DEF Quiet, TakesResponse, EntersRoi, Aborts, Finishes, Dies, LosesLast,
                               Reads
    <2> QED
      BY <1>0, <2>1, HasTail, HasFront
  <1>3. CASE UNCHANGED vars
    BY <1>3 DEF vars
  <1> QED
    BY <1>1, <1>2, <1>3 DEF Next, Stopped
-----------------------------------------------------------------------------
(* The broadcast of FINISH, while recvReq erases clients from the vector.  *)

\* An erase that makes the loop pass over an element: the element the loop comes to
\* next moves into a cell that the loop has left behind, and not from the last cell,
\* whose old value stays for the loop to find.
SkipsClient(w) ==
  /\ RecvEof(w) /\ bcast.msg = Finish
  /\ FindFd(fdMem, fdCount, Picked) < bcast.it /\ bcast.it < fdCount

\* FINISH is on the stream of a client, or the loop still comes to it.
HasFinish(c) == Has(s2c[c], Finish)
Due(c) ==
  bcast.msg = Finish /\ \E i \in 1..bcast.end : bcast.it <= i /\ fdMem[i] = c

\* From the response that completes the count on, one of the two holds of every client
\* that is there.
FinishInv ==
  server = "up" /\ Counted => \A c \in Clients : Connected(c) => HasFinish(c) \/ Due(c)

\* A client that stays does not lose a FINISH it has got.
LEMMA FinishStays ==
  ASSUME TypeOK, LocksExclusive, ServedInv, LoopInv, BcastInv, KnownInv, [Next]_vars,
         server = "up", NEW c \in Clients, Connected(c)', HasFinish(c)
  PROVE  HasFinish(c)'
  BY NoticeStays DEF HasFinish, RoiBegin, Finish

\* A broadcast that starts comes to every client that is there.
LEMMA BroadcastCovers ==
  ASSUME TypeOK, ListInv, NEW w \in Workers, NEW at, Broadcast(w, Finish, at), UNCHANGED fdMem,
         NEW c \in Clients, Connected(c)
  PROVE  Due(c)'
  <1>1. fdCount \in Nat /\ Listed \in {fdCount, fdCount - 1}
    BY ServerAssumption DEF TypeOK, VectorTypes, Listed, ServerAssumption
  <1>2. PICK i \in 1..Listed : fdMem[i] = c
    BY DEF ListInv
  <1>3. i \in 1..fdCount /\ 1 <= i
    BY <1>1, <1>2
  <1>4. bcast'.msg = Finish /\ bcast'.it = 1 /\ bcast'.end = fdCount /\ fdMem' = fdMem
    BY DEF Broadcast
  <1> QED
    BY <1>2, <1>3, <1>4 DEF Due

\* The loop still comes to a client behind an erase, unless the erase passes this very
\* one over.
LEMMA EraseKeepsDue ==
  ASSUME TypeOK, CutInv, NEW w \in Workers, RecvEof(w), NEW c \in Clients, Connected(c), Due(c),
         SkipsClient(w) => c # fdMem[bcast.it]
  PROVE  Due(c)'
  <1> DEFINE e == FindFd(fdMem, fdCount, Picked)
             it == bcast.it
             end == bcast.end
  <1>1. /\ fdMem \in [Clients -> Clients] /\ fdCount \in 0..NumClients
        /\ NumClients \in Nat /\ Clients = 1..NumClients
        /\ it \in 0..(NumClients + 1) /\ end \in 0..NumClients
    BY ServerAssumption DEF TypeOK, RequestTypes, VectorTypes, ServerAssumption, Clients
  <1>2. /\ fdCount \in 1..NumClients /\ e \in 1..fdCount /\ fdMem[e] = Picked
        /\ ~Connected(Picked)
    <2>1. fdCount \in 1..NumClients /\ Picked \in Elements(fdMem, fdCount)
      BY SelectedClient DEF RecvEof
    <2>2. fdCount \in Nat
      BY <2>1
    <2> QED
      BY <2>1, <2>2, FindFinds, ErasesGone
  <1>3. \A k \in Clients : fdMem'[k] = IF e <= k /\ k < fdCount THEN fdMem[k+1] ELSE fdMem[k]
    BY <1>1 DEF RecvEof, MoveDown
  <1>4. bcast' = bcast /\ bcast.msg = Finish /\ (e < it /\ it < fdCount => fdMem[it] # c)
    BY DEF RecvEof, Due, SkipsClient
  <1>5. PICK i \in 1..end : it <= i /\ fdMem[i] = c
    BY DEF Due
  <1>6. SUFFICES \E k \in 1..end : it <= k /\ fdMem'[k] = c
    BY <1>4 DEF Due
  <1> HIDE DEF e, it, end
  <1>7. i \in Clients /\ i # e
    <2>1. c # Picked
      BY <1>2
    <2>2. i # e
      BY <1>2, <1>5, <2>1
    <2> QED
      BY <1>1, <1>5, <2>2
  <1>8. CASE i < e \/ fdCount <= i
    <2>1. fdMem'[i] = c
      BY <1>1, <1>2, <1>3, <1>5, <1>7, <1>8
    <2> QED
      BY <1>5, <2>1
  <1>9. CASE e < i /\ i < fdCount
    <2>1. i - 1 \in 1..end /\ it <= i - 1 /\ i - 1 \in Clients
          /\ e <= i - 1 /\ i - 1 < fdCount /\ (i - 1) + 1 = i
      BY <1>1, <1>2, <1>4, <1>5, <1>7, <1>9
    <2>2. fdMem'[i - 1] = c
      BY <1>3, <1>5, <2>1
    <2> QED
      BY <2>1, <2>2
  <1> QED
    BY <1>1, <1>2, <1>7, <1>8, <1>9

\* The count is complete from one response on, the one that starts the broadcast.
LEMMA CountCompletes ==
  ASSUME TypeOK, NEW w \in Workers, WorkerStep(w), Counted'
  PROVE  \/ Counted /\ (Respond(w) => UNCHANGED bcast)
         \/ Respond(w) /\ Broadcast(w, Finish, "broadcast")
  <1>0. finishedReqs \in Nat /\ WarmupReqs \in Nat /\ MaxReqs \in Nat /\ MaxReqs > 0
    BY ServerAssumption DEF TypeOK, RequestTypes, ServerAssumption, Counted
  <1>1. CASE Respond(w)
    <2>1. finishedReqs' = finishedReqs + 1 /\ finishedReqs' >= WarmupReqs + MaxReqs
      BY <1>1 DEF Respond, Counted
    <2>2. CASE finishedReqs + 1 = WarmupReqs + MaxReqs
      <3>1. EndsRoi(finishedReqs + 1) /\ ~EndsWarmup(finishedReqs + 1)
        BY <1>0, <2>2 DEF EndsRoi, EndsWarmup
      <3> QED
        BY <1>1, <3>1 DEF Respond
    <2>3. CASE finishedReqs + 1 # WarmupReqs + MaxReqs
      <3>1. ~EndsRoi(finishedReqs + 1) /\ ~EndsWarmup(finishedReqs + 1) /\ Counted
        BY <1>0, <2>1, <2>3 DEF EndsRoi, EndsWarmup, Counted
      <3> QED
        BY <1>1, <3>1 DEF Respond
    <2> QED
      BY <2>2, <2>3
  <1>2. CASE ~Respond(w)
    <2>1. UNCHANGED finishedReqs
      BY <1>2 DEF WorkerStep, Arrive, ThreadStart, CheckQuota, CountRequest, LockRecv,
           RecvRequest, RecvEof, Shrink, RecvTruncated, AllClientsGone, LockSend,
           BroadcastSend, BroadcastEnd, JoinAndFinish, MainReturns, countVars
    <2> QED
      BY <1>2, <2>1 DEF Counted
  <1> QED
    BY <1>1, <1>2

\* A client that has FINISH, or to which the loop still comes, keeps that prospect in
\* every step that does not pass it over.
LEMMA FinishKept ==
  ASSUME ServiceInv, BcastInv, KnownInv, [Next]_vars, server' = "up", Counted',
         NEW c \in Clients, Connected(c)', Counted => HasFinish(c) \/ Due(c),
         \A w \in Workers : SkipsClient(w) => c # fdMem[bcast.it]
  PROVE  HasFinish(c)' \/ Due(c)'
  <1>0. /\ TypeOK /\ LocksExclusive /\ CutInv /\ ListInv /\ ServedInv /\ LoopInv
        /\ server = "up" /\ Connected(c)
    BY ServerStaysDown, StaysGone DEF ServiceInv, IndInv
  <1>1. HasFinish(c) => HasFinish(c)'
    BY <1>0, FinishStays
  <1>2. Counted => HasFinish(c) \/ Due(c)
    OBVIOUS
  <1>3. CASE UNCHANGED serverVars
    <2>1. Counted /\ (Due(c)' <=> Due(c))
      BY <1>3 DEF serverVars, fdVars, countVars, Counted, Due
    <2> QED
      BY <1>1, <1>2, <2>1
  <1>4. ASSUME NEW w \in Workers, WorkerStep(w) PROVE HasFinish(c)' \/ Due(c)'
    <2>1. CASE Respond(w)
      <3>1. UNCHANGED fdMem
        BY <2>1 DEF Respond, fdVars
      <3>2. CASE Counted /\ UNCHANGED bcast
        <4>1. Due(c)' <=> Due(c)
          BY <3>1, <3>2 DEF Due
        <4> QED
          BY <1>1, <1>2, <3>2, <4>1
      <3>3. CASE Broadcast(w, Finish, "broadcast")
        BY <1>0, <3>1, <3>3, BroadcastCovers
      <3> QED
        BY <1>0, <1>4, <2>1, <3>2, <3>3, CountCompletes
    <2>2. CASE JoinAndFinish(w)
      <3>1. UNCHANGED fdMem /\ Broadcast(w, Finish, "finish")
        BY <2>2 DEF JoinAndFinish, fdVars
      <3> QED
        BY <1>0, <3>1, BroadcastCovers
    <2>3. CASE BroadcastSend(w)
      <3>0. /\ bcast \in [msg : Messages, it : 0..(NumClients + 1), end : 0..NumClients]
            /\ NumClients \in Nat /\ s2c \in [Clients -> Seq(Messages)]
        BY <1>0, ServerAssumption DEF TypeOK, RequestTypes, StreamTypes, ServerAssumption
      <3>1. Counted /\ UNCHANGED fdMem
        BY <2>3 DEF BroadcastSend, fdVars, countVars, Counted
      <3>2. bcast'.msg = bcast.msg /\ bcast'.end = bcast.end /\ bcast'.it = bcast.it + 1
        BY <2>3, <3>0 DEF BroadcastSend
      <3>3. CASE Due(c) /\ fdMem[bcast.it] = c
        <4>1. Deliver(c, Finish)
          BY <2>3, <3>3 DEF BroadcastSend, Due
        <4>2. s2c'[c] = Append(s2c[c], Finish) /\ s2c[c] \in Seq(Messages) /\ Finish \in Messages
          BY <1>0, <3>0, <4>1 DEF Deliver, Finish, Messages
        <4>3. Has(s2c'[c], Finish)
          BY <4>2, HasAppend
        <4> QED
          BY <4>3 DEF HasFinish
      <3>4. CASE Due(c) /\ fdMem[bcast.it] # c
        <4>1. PICK i \in 1..bcast.end : bcast.it <= i /\ fdMem[i] = c
          BY <3>4 DEF Due
        <4>2. bcast.it + 1 <= i
          BY <3>0, <3>4, <4>1
        <4> QED
          BY <3>1, <3>2, <3>4, <4>1, <4>2 DEF Due
      <3> QED
        BY <1>1, <1>2, <3>1, <3>3, <3>4
    <2>4. CASE BroadcastEnd(w)
      <3>1. bcast \in [msg : Messages, it : 0..(NumClients + 1), end : 0..NumClients]
        BY <1>0 DEF TypeOK, RequestTypes
      <3>2. bcast.it > bcast.end /\ bcast.it \in Int /\ bcast.end \in Int
        BY <2>4, <3>1, ServerAssumption DEF BroadcastEnd, ServerAssumption
      <3>3. ~Due(c)
        BY <3>2 DEF Due
      <3>4. Counted
        BY <2>4 DEF BroadcastEnd, countVars, Counted
      <3> QED
        BY <1>1, <1>2, <3>3, <3>4
    <2>5. CASE RecvEof(w)
      <3>1. Counted
        BY <2>5 DEF RecvEof, countVars, Counted
      <3> QED
        BY <1>0, <1>1, <1>2, <2>5, <3>1, EraseKeepsDue
    <2>6. CASE ~Respond(w) /\ ~JoinAndFinish(w) /\ ~BroadcastSend(w) /\ ~BroadcastEnd(w)
               /\ ~RecvEof(w)
      <3>1. UNCHANGED <<fdMem, bcast, finishedReqs>>
        BY <1>4, <2>6 DEF WorkerStep, Arrive, ThreadStart, CheckQuota, CountRequest, LockRecv,
           RecvRequest, Shrink, RecvTruncated, AllClientsGone, LockSend, MainReturns,
           fdVars, countVars
      <3>2. Counted /\ (Due(c)' <=> Due(c))
        BY <3>1 DEF Counted, Due
      <3> QED
        BY <1>1, <1>2, <3>2
    <2> QED
      BY <2>1, <2>2, <2>3, <2>4, <2>5, <2>6
  <1> QED
    BY <1>3, <1>4, ClientStepsServer DEF Next, Stopped, vars

\* What holds whoever is erased during a broadcast.
StreamInv == ServiceInv /\ BcastInv /\ KnownInv

\* These parts need no premise about the erases.
LEMMA StreamInvHolds == Spec => []StreamInv
  <1>1. ASSUME Init PROVE StreamInv
    <2>1. BcastInv
      BY <1>1, ServerAssumption DEF Init, BcastInv, Idle, Finish, RoiBegin
    <2>2. KnownInv
      BY <1>1 DEF Init, KnownInv
    <2> QED
      BY <1>1, <2>1, <2>2, ServiceInvInit DEF StreamInv
  <1>2. ASSUME StreamInv, [Next]_vars PROVE StreamInv'
    <2>1. /\ ServiceInv /\ BcastInv /\ KnownInv
          /\ TypeOK /\ LocksExclusive /\ ServedInv /\ LoopInv
      BY <1>2 DEF StreamInv, ServiceInv, IndInv
    <2>2. ServiceInv' /\ BcastInv' /\ KnownInv'
      BY <1>2, <2>1, ServiceInvStep, BcastStep, KnownStep
    <2> QED
      BY <2>2 DEF StreamInv
  <1> QED
    BY <1>1, <1>2, PTL DEF Spec

\* No process starts with the count complete.
LEMMA NotCountedAtFirst == Init => ~Counted
  BY ServerAssumption DEF Init, Counted, ServerAssumption

\* With one or two clients no erase passes anybody over: the loop would have left two
\* cells behind, and a third would follow.
LEMMA TwoNeverSkip ==
  ASSUME NumClients <= 2, TypeOK, NEW w \in Workers
  PROVE  ~SkipsClient(w)
  <1> SUFFICES ASSUME SkipsClient(w) PROVE FALSE
    OBVIOUS
  <1> DEFINE e == FindFd(fdMem, fdCount, Picked)
  <1>1. fdCount \in 1..NumClients /\ Picked \in Elements(fdMem, fdCount)
    BY SelectedClient DEF SkipsClient, RecvEof
  <1>2. NumClients \in Nat /\ fdCount \in Nat
    BY <1>1, ServerAssumption DEF ServerAssumption
  <1>3. e \in 1..fdCount
    BY <1>1, <1>2, FindFinds
  <1>4. e < bcast.it /\ bcast.it < fdCount
    BY DEF SkipsClient
  <1>5. bcast.it \in Int
    BY <1>2 DEF TypeOK, RequestTypes
  <1> HIDE DEF e
  <1> QED
    BY <1>1, <1>2, <1>3, <1>4, <1>5

\* So FINISH is on the way to every live client of theirs.
LEMMA FinishInvHolds == NumClients <= 2 => (Spec => []FinishInv)
  <1> SUFFICES ASSUME NumClients <= 2 PROVE Spec => []FinishInv
    OBVIOUS
  <1>1. ASSUME Init PROVE FinishInv
    BY <1>1, NotCountedAtFirst DEF FinishInv
  <1>2. ASSUME StreamInv, FinishInv, [Next]_vars PROVE FinishInv'
    <2> SUFFICES ASSUME server' = "up", Counted', NEW c \in Clients, Connected(c)'
                 PROVE  HasFinish(c)' \/ Due(c)'
      BY DEF FinishInv
    <2>1. ServiceInv /\ BcastInv /\ KnownInv /\ TypeOK /\ server = "up" /\ Connected(c)
      BY <1>2, ServerStaysDown, StaysGone DEF StreamInv, ServiceInv, IndInv
    <2>2. \A w \in Workers : ~SkipsClient(w)
      BY <2>1, TwoNeverSkip
    <2> QED
      BY <1>2, <2>1, <2>2, FinishKept DEF FinishInv
  <1> QED
    BY <1>1, <1>2, StreamInvHolds, PTL DEF Spec

\* FINISH on the way means FINISH arrived, once no broadcast is under way.
LEMMA FinishImplies == FinishInv => FinishReachesAll
  <1>1. ASSUME bcast = Idle, NEW c \in Clients PROVE ~Due(c)
    BY <1>1 DEF Due, Idle
  <1> QED
    BY <1>1 DEF FinishInv, FinishReachesAll, Announced, Unfinished, Counted, HasFinish, Has

\* With up to two clients, once FINISH has been broadcast every client that still runs
\* has it on its stream, whoever left during the broadcast.
THEOREM FinishReachesTwo == NumClients <= 2 => (Spec => []FinishReachesAll)
  <1> SUFFICES ASSUME NumClients <= 2 PROVE Spec => []FinishReachesAll
    OBVIOUS
  <1> QED
    BY FinishImplies, FinishInvHolds, PTL
-----------------------------------------------------------------------------
(* Whom the broadcast of FINISH passes over, with any number of clients.   *)

\* The clients that are there, have no FINISH, and will not get it from this loop.
Missed == {c \in Clients : Connected(c) /\ ~HasFinish(c) /\ ~Due(c)}

\* A loop goes at least as far as the vector reaches.
EndInv == bcast.it >= 1 => fdCount <= bcast.end

\* Every client that is missed has cost the vector an element.  That alone does not bound
\* them; but when one is passed over, the last of the vector is still to come.
MissInv ==
  server = "up" /\ Counted =>
    Cardinality(Missed) + Listed <= NumClients /\ 2 * Cardinality(Missed) < NumClients

\* Clients can be counted.
LEMMA ClientsFinite ==
  ASSUME NEW S \in SUBSET Clients
  PROVE  IsFiniteSet(S) /\ Cardinality(S) \in Nat
  <1>1. IsFiniteSet(Clients)
    BY ServerAssumption, FS_Interval DEF Clients, ServerAssumption
  <1> QED
    BY <1>1, FS_Subset, FS_CardinalityType

\* The vector only shrinks, and a loop takes its end from it.
LEMMA EndStep ==
  ASSUME TypeOK, LoopInv, EndInv, [Next]_vars
  PROVE  EndInv'
  <1>0. /\ bcast \in [msg : Messages, it : 0..(NumClients + 1), end : 0..NumClients]
        /\ fdCount \in 0..NumClients /\ NumClients \in Nat
    BY ServerAssumption DEF TypeOK, RequestTypes, VectorTypes, ServerAssumption
  <1>1. ASSUME NEW w \in Workers, WorkerStep(w) PROVE EndInv'
    <2>1. CASE Respond(w) \/ JoinAndFinish(w)
      <3>1. UNCHANGED fdCount
        BY <2>1 DEF Respond, JoinAndFinish, fdVars
      <3>2. UNCHANGED bcast \/ bcast'.end = fdCount
        BY <2>1 DEF Respond, JoinAndFinish, Broadcast
      <3> QED
        BY <1>0, <3>1, <3>2 DEF EndInv
    <2>2. CASE BroadcastSend(w)
      <3>1. UNCHANGED fdCount /\ bcast' = [bcast EXCEPT !.it = @ + 1] /\ bcast.it <= bcast.end
        BY <2>2 DEF BroadcastSend, fdVars
      <3>2. bcast.it >= 1 /\ bcast'.end = bcast.end
        BY <1>0, <2>2, <3>1 DEF BroadcastSend, LoopInv
      <3> QED
        BY <3>1, <3>2 DEF EndInv
    <2>3. CASE BroadcastEnd(w)
      BY <2>3 DEF BroadcastEnd, EndInv, Idle
    <2>4. CASE Shrink(w)
      <3>1. fdCount' = fdCount - 1 /\ bcast' = bcast
        BY <2>4 DEF Shrink
      <3> QED
        BY <1>0, <3>1 DEF EndInv
    <2>5. CASE ~Respond(w) /\ ~JoinAndFinish(w) /\ ~BroadcastSend(w) /\ ~BroadcastEnd(w)
               /\ ~Shrink(w)
      <3>1. UNCHANGED <<bcast, fdCount>>
        BY <1>1, <2>5 DEF WorkerStep, Arrive, ThreadStart, CheckQuota, CountRequest, LockRecv,
           RecvRequest, RecvEof, RecvTruncated, AllClientsGone, LockSend, MainReturns, fdVars
      <3> QED
        BY <3>1 DEF EndInv
    <2> QED
      BY <2>1, <2>2, <2>3, <2>4, <2>5
  <1>2. CASE UNCHANGED serverVars
    BY <1>2 DEF serverVars, fdVars, EndInv
  <1> QED
    BY <1>1, <1>2, ClientStepsServer DEF Next, Stopped, vars

\* Listed never grows, and an erase takes one off it.
LEMMA ListedStep ==
  ASSUME TypeOK, LocksExclusive, [Next]_vars
  PROVE  /\ Listed \in Int /\ Listed' \in Int /\ Listed' <= Listed
         /\ \A w \in Workers : RecvEof(w) => Listed = fdCount /\ Listed' = fdCount - 1
  <1>0. fdCount \in 0..NumClients /\ NumClients \in Nat /\ ThreadTypes
    BY ServerAssumption DEF TypeOK, VectorTypes, ServerAssumption
  <1>1. CASE UNCHANGED fdCount /\ Erasing' = Erasing /\ \A w \in Workers : ~RecvEof(w)
    BY <1>0, <1>1 DEF Listed
  <1>2. ASSUME NEW w \in Workers, RecvEof(w)
        PROVE  ~Erasing /\ Erasing' /\ UNCHANGED fdCount
    <2>1. pc[w] = "select" /\ pc'[w] = "shrink"
      BY <1>0, <1>2 DEF RecvEof, Goto, Selects, ThreadTypes
    <2> QED
      BY <1>2, <2>1 DEF Erasing, LocksExclusive, RecvEof
  <1>3. ASSUME NEW w \in Workers, Shrink(w)
        PROVE  Erasing /\ ~Erasing' /\ fdCount' = fdCount - 1 /\ \A v \in Workers : ~RecvEof(v)
    <2>1. pc[w] = "shrink" /\ \A v \in Workers : pc'[v] # "shrink"
      BY <1>0, <1>3 DEF Shrink, Goto, ThreadTypes, LocksExclusive
    <2>2. \A v \in Workers : pc[v] # "select"
      BY <2>1 DEF LocksExclusive
    <2> QED
      BY <1>3, <2>1, <2>2 DEF Erasing, Shrink, RecvEof, Selects
  <1>4. ASSUME NEW w \in Workers, WorkerStep(w), \A v \in Workers : ~RecvEof(v), ~Shrink(w)
        PROVE  UNCHANGED fdCount /\ Erasing' = Erasing
    BY <1>4, VectorKept DEF Erasing
  <1>5. CASE UNCHANGED serverVars
    <2>1. UNCHANGED <<fdCount, pc>> /\ Erasing' = Erasing
      BY <1>5 DEF serverVars, fdVars, Erasing
    <2>2. ASSUME NEW w \in Workers, RecvEof(w) PROVE FALSE
      BY <1>2, <2>1, <2>2
    <2> QED
      BY <1>1, <2>1, <2>2
  <1>6. CASE \E w \in Workers : RecvEof(w)
    BY <1>0, <1>2, <1>6 DEF Listed
  <1>7. CASE \E w \in Workers : Shrink(w)
    BY <1>0, <1>3, <1>7 DEF Listed
  <1>8. CASE \A w \in Workers : ~RecvEof(w) /\ ~Shrink(w)
    BY <1>1, <1>4, <1>5, <1>8, ClientStepsServer DEF Next, Stopped, vars
  <1> QED
    BY <1>6, <1>7, <1>8

\* An erase that passes a client over misses this one only, and what the vector still
\* lists behind it, without its last element, bounds the missed ones.
LEMMA SkipMisses ==
  ASSUME ServiceInv, BcastInv, KnownInv, EndInv, [Next]_vars, server' = "up", Counted', Counted,
         NEW w \in Workers, SkipsClient(w), MissInv
  PROVE  MissInv'
  <1> DEFINE e == FindFd(fdMem, fdCount, Picked)
             it == bcast.it
             n == fdCount
             first == 1..(n - 2)
  <1>0. /\ TypeOK /\ LocksExclusive /\ CutInv /\ ListInv /\ ServedInv /\ LoopInv /\ server = "up"
        /\ ListInv' /\ RecvEof(w)
    BY ServerStaysDown, ListStep DEF ServiceInv, IndInv, SkipsClient
  <1>1. /\ fdMem \in [Clients -> Clients] /\ n \in 1..NumClients /\ e \in 1..n
        /\ NumClients \in Nat /\ Clients = 1..NumClients
        /\ it \in Nat /\ bcast.end \in 0..NumClients
    <2>1. fdCount \in 1..NumClients /\ Picked \in Elements(fdMem, fdCount)
      BY <1>0, SelectedClient DEF RecvEof
    <2>2. fdCount \in Nat /\ e \in 1..fdCount
      BY <2>1, FindFinds
    <2> QED
      BY <1>0, <2>1, <2>2, ServerAssumption
         DEF TypeOK, RequestTypes, VectorTypes, ServerAssumption, Clients
  <1>2. e < it /\ it < n /\ bcast.msg = Finish /\ bcast' = bcast
    BY <1>0 DEF SkipsClient, RecvEof
  <1>3. \A k \in Clients : fdMem'[k] = IF e <= k /\ k < n THEN fdMem[k+1] ELSE fdMem[k]
    BY <1>0, <1>1 DEF RecvEof, MoveDown
  <1>4. Listed = n /\ Listed' = n - 1
    BY <1>0, ListedStep
  <1>5. n <= bcast.end
    BY <1>1, <1>2 DEF EndInv
  <1> HIDE DEF e, it, n
  <1>6. n - 1 \in Clients /\ n \in Clients /\ fdMem'[n - 1] = fdMem[n] /\ fdMem'[n] = fdMem[n]
    BY <1>1, <1>2, <1>3
  <1>7. ASSUME NEW c \in Clients, fdMem[n] = c PROVE Due(c)'
    <2>1. n \in 1..bcast.end /\ it <= n /\ fdMem'[n] = c
      BY <1>1, <1>2, <1>5, <1>6, <1>7
    <2> QED
      BY <1>2, <2>1 DEF Due, it
  <1>8. it \in Clients
    BY <1>1, <1>2
  <1>9. ASSUME NEW c \in Missed' PROVE c \in Missed \/ c = fdMem[it]
    <2>1. c \in Clients /\ Connected(c)' /\ ~HasFinish(c)' /\ ~Due(c)'
      BY DEF Missed
    <2>2. Connected(c)
      BY <1>0, <2>1, StaysGone
    <2>3. ASSUME c # fdMem[it], HasFinish(c) \/ Due(c) PROVE FALSE
      <3>1. \A v \in Workers : SkipsClient(v) => c # fdMem[bcast.it]
        BY <2>3 DEF it
      <3> QED
        BY <2>1, <2>3, <3>1, FinishKept
    <2> QED
      BY <2>1, <2>2, <2>3 DEF Missed
  <1>10. ASSUME NEW c \in Missed' PROVE \E k \in first : fdMem'[k] = c
    <2>1. c \in Clients /\ Connected(c)' /\ ~Due(c)'
      BY DEF Missed
    <2>2. PICK k \in 1..(n - 1) : fdMem'[k] = c
      BY <1>0, <1>4, <2>1 DEF ListInv
    <2>3. k # n - 1
      BY <1>6, <1>7, <2>1, <2>2
    <2> QED
      BY <1>1, <2>2, <2>3
  <1>11. Missed \in SUBSET Clients /\ Missed' \in SUBSET Clients
    BY DEF Missed, Clients
  <1>12. Cardinality(Missed') <= Cardinality(Missed) + 1
    <2>1. IsFiniteSet(Missed) /\ Cardinality(Missed) \in Nat
      BY <1>11, ClientsFinite
    <2>2. IsFiniteSet(Missed \cup {fdMem[it]})
          /\ Cardinality(Missed \cup {fdMem[it]}) \in {Cardinality(Missed), Cardinality(Missed) + 1}
      BY <2>1, FS_AddElement
    <2>3. Missed' \in SUBSET (Missed \cup {fdMem[it]})
      BY <1>9
    <2>4. Cardinality(Missed') <= Cardinality(Missed \cup {fdMem[it]}) /\ Cardinality(Missed') \in Nat
      BY <1>11, <2>2, <2>3, FS_Subset, ClientsFinite
    <2> QED
      BY <2>1, <2>2, <2>4
  <1>13. Cardinality(Missed') <= n - 2
    <2>1. IsFiniteSet(first) /\ Cardinality(first) = n - 2
      <3>1. 1 \in Int /\ n - 2 \in Int /\ n - 2 >= 0
        BY <1>1, <1>2
      <3>2. IsFiniteSet(first) /\ Cardinality(first) = IF 1 > n - 2 THEN 0 ELSE (n - 2) - 1 + 1
        BY <3>1, FS_Interval
      <3> QED
        BY <3>1, <3>2
    <2> DEFINE T == {fdMem'[k] : k \in first}
               f == [k \in first |-> fdMem'[k]]
    <2>2. f \in [first -> T] /\ \A c \in T : \E k \in first : f[k] = c
      OBVIOUS
    <2> HIDE DEF f
    <2>3. f \in Surjection(first, T)
      BY <2>2 DEF Surjection
    <2>4. IsFiniteSet(T) /\ Cardinality(T) <= Cardinality(first)
      BY <2>1, <2>3, FS_Surjection
    <2>5. Missed' \in SUBSET T
      BY <1>10
    <2>6. Cardinality(Missed') <= Cardinality(T) /\ Cardinality(T) \in Nat
      BY <2>4, <2>5, FS_Subset, FS_CardinalityType
    <2>7. Cardinality(Missed') \in Nat /\ n \in Nat
      BY <1>1, <1>11, ClientsFinite
    <2> QED
      BY <2>1, <2>4, <2>6, <2>7
  <1>14. Cardinality(Missed) + n <= NumClients
    BY <1>0, <1>4 DEF MissInv
  <1>15. Cardinality(Missed) \in Nat /\ Cardinality(Missed') \in Nat
    BY <1>11, ClientsFinite
  <1>16. Cardinality(Missed') + (n - 1) <= NumClients /\ 2 * Cardinality(Missed') < NumClients
    <2> DEFINE a == Cardinality(Missed)
               b == Cardinality(Missed')
    <2>1. /\ a \in Nat /\ b \in Nat /\ n \in Int /\ NumClients \in Int
          /\ b <= a + 1 /\ b <= n - 2 /\ a + n <= NumClients
      BY <1>1, <1>12, <1>13, <1>14, <1>15
    <2> HIDE DEF a, b
    <2>2. b + (n - 1) <= NumClients /\ 2 * b < NumClients
      BY <2>1
    <2> QED
      BY <2>2 DEF a, b
  <1> QED
    BY <1>4, <1>16 DEF MissInv

\* Every step keeps the bound on the missed clients.
LEMMA MissStep ==
  ASSUME ServiceInv, BcastInv, KnownInv, EndInv, MissInv, [Next]_vars
  PROVE  MissInv'
  <1> SUFFICES ASSUME server' = "up", Counted' PROVE MissInv'
    BY DEF MissInv
  <1>0. /\ TypeOK /\ LocksExclusive /\ server = "up" /\ NumClients \in Nat \ {0} /\ TypeOK'
        /\ Missed \in SUBSET Clients /\ Missed' \in SUBSET Clients
    BY ServerStaysDown, ServiceInvStep, ServerAssumption
       DEF ServiceInv, IndInv, ServerAssumption, Missed
  <1>1. CASE ~Counted
    <2>1. ASSUME NEW c \in Missed' PROVE FALSE
      <3>1. c \in Clients /\ Connected(c)' /\ ~HasFinish(c)' /\ ~Due(c)'
        BY <2>1 DEF Missed
      <3>2. ASSUME NEW w \in Workers, SkipsClient(w) PROVE FALSE
        BY <1>1, <3>2 DEF SkipsClient, RecvEof, countVars, Counted
      <3> QED
        BY <1>1, <3>1, <3>2, FinishKept
    <2>2. Cardinality(Missed') = 0
      <3>1. Missed' = {}
        BY <2>1
      <3> QED
        BY <3>1, FS_EmptySet
    <2>3. Listed' <= NumClients /\ Listed' \in Int
      <3>1. fdCount' \in 0..NumClients
        BY <1>0 DEF TypeOK, VectorTypes
      <3>2. Listed' = fdCount' \/ Listed' = fdCount' - 1
        BY DEF Listed
      <3> QED
        BY <1>0, <3>1, <3>2
    <2> DEFINE b == Cardinality(Missed')
               l == Listed'
    <2>4. b = 0 /\ l \in Int /\ l <= NumClients /\ NumClients \in Int /\ NumClients > 0
      BY <1>0, <2>2, <2>3
    <2> HIDE DEF b, l
    <2>5. b + l <= NumClients /\ 2 * b < NumClients
      BY <2>4
    <2>6. Cardinality(Missed') + Listed' <= NumClients /\ 2 * Cardinality(Missed') < NumClients
      BY <2>5 DEF b, l
    <2> QED
      BY <2>6 DEF MissInv
  <1>2. CASE Counted /\ \E w \in Workers : SkipsClient(w)
    BY <1>2, SkipMisses
  <1>3. CASE Counted /\ \A w \in Workers : ~SkipsClient(w)
    <2>1. ASSUME NEW c \in Missed' PROVE c \in Missed
      <3>1. c \in Clients /\ Connected(c)' /\ ~HasFinish(c)' /\ ~Due(c)'
        BY <2>1 DEF Missed
      <3>2. Connected(c)
        BY <1>0, <3>1, StaysGone
      <3> QED
        BY <1>3, <3>1, <3>2, FinishKept DEF Missed
    <2>2. Missed' \in SUBSET Missed
      BY <2>1
    <2> DEFINE a == Cardinality(Missed)
               b == Cardinality(Missed')
               l == Listed'
    <2>3. a \in Nat /\ b \in Nat /\ b <= a
      BY <1>0, <2>2, ClientsFinite, FS_Subset
    <2>4. Listed \in Int /\ l \in Int /\ l <= Listed /\ NumClients \in Int
      BY <1>0, ListedStep
    <2>5. a + Listed <= NumClients /\ 2 * a < NumClients
      BY <1>0, <1>3 DEF MissInv
    <2> HIDE DEF a, b, l
    <2>6. b + l <= NumClients /\ 2 * b < NumClients
      BY <2>3, <2>4, <2>5
    <2>7. Cardinality(Missed') + Listed' <= NumClients /\ 2 * Cardinality(Missed') < NumClients
      BY <2>6 DEF b, l
    <2> QED
      BY <2>7 DEF MissInv
  <1> QED
    BY <1>1, <1>2, <1>3

\* The bound holds of every reachable state.
LEMMA MissInvHolds == Spec => []MissInv
  <1>1. ASSUME Init PROVE EndInv /\ MissInv
    <2>1. EndInv
      BY <1>1 DEF Init, EndInv, Idle
    <2> QED
      BY <1>1, <2>1, NotCountedAtFirst DEF MissInv
  <1>2. ASSUME StreamInv, EndInv, MissInv, [Next]_vars PROVE EndInv' /\ MissInv'
    BY <1>2, EndStep, MissStep DEF StreamInv, ServiceInv, IndInv
  <1> QED
    BY <1>1, <1>2, StreamInvHolds, PTL DEF Spec

\* Fewer than half of the clients are passed over by the broadcast of FINISH that the
\* count calls for, whoever is killed or leaves on FINISH and is erased under the loop.
THEOREM MostAreReached == Spec => []MostGetFinish
  <1>1. ASSUME MissInv, Announced PROVE 2 * Cardinality(Unfinished) < NumClients
    <2>1. Counted /\ server = "up" /\ bcast.msg = Finish /\ bcast.it = 0 /\ bcast.end = 0
      BY <1>1 DEF Announced, Counted, Idle
    <2>2. \A c \in Clients : ~Due(c)
      BY <2>1 DEF Due
    <2>3. Unfinished = Missed
      BY <2>2 DEF Unfinished, Missed, HasFinish, Has
    <2> QED
      BY <1>1, <2>1, <2>3 DEF MissInv
  <1>2. MissInv => MostGetFinish
    BY <1>1 DEF MostGetFinish
  <1> QED
    BY <1>2, MissInvHolds, PTL
-----------------------------------------------------------------------------
(* The broadcast of ROI_BEGIN, while nobody is killed.                     *)

\* The measurement is over, by the count or by the quota; a client has got FINISH, or
\* ROI_BEGIN; the warm-up is over.
Ending == Counted \/ pc[Main] \in {"finish", "return"}
GotFinish(c) == phase[c] = "FINISHED" \/ HasFinish(c)
GotRoi(c) == phase[c] = "ROI" \/ Has(s2c[c], RoiBegin)
Warm == WarmupReqs > 0 /\ finishedReqs >= WarmupReqs

\* While all clients are there the vector is the one the server was started with.
AllThere ==
  (\A c \in Clients : Connected(c)) =>
    fdCount = NumClients /\ ~Erasing /\ \A i \in Clients : fdMem[i] = i

\* No client gets ROI_BEGIN twice, or FINISH early, and a client that warms up has
\* recorded nothing.
RoiOnce(c) ==
  Connected(c) =>
    Once(s2c[c], RoiBegin) /\ (phase[c] = "ROI" => ~Has(s2c[c], RoiBegin))
ClientRoi(c) ==
  /\ phase[c] # "ABORTED"
  /\ GotFinish(c) => Ending
  /\ phase[c] = "WARMUP" => samples[c] = 0
  /\ RoiOnce(c)

\* During the broadcast the clients that have got ROI_BEGIN are those the loop has passed;
\* afterwards they are all, before it nobody.
RoiAt(c) ==
  /\ bcast.msg = RoiBegin => (GotRoi(c) <=> c < bcast.it)
  /\ bcast.msg # RoiBegin /\ Warm /\ Connected(c) => GotRoi(c)
  /\ ~Warm => ~GotRoi(c)

NoneKilled == \A c \in Clients : phase[c] # "KILLED"
RoiInv ==
  NoneKilled =>
    /\ \A c \in Clients : ClientRoi(c)
    /\ server = "up" =>
         /\ bcast.msg = RoiBegin => bcast.end = NumClients
         /\ \A c \in Clients : RoiAt(c)

\* A client that is gone stays as it is.
LEMMA GoneStays ==
  ASSUME TypeOK, LocksExclusive, ServedInv, LoopInv, [Next]_vars, NEW c \in Clients,
         ~Connected(c)
  PROVE  UNCHANGED phase[c]
  <1>1. ASSUME NEW w \in Workers, WorkerStep(w) PROVE UNCHANGED phase[c]
    BY <1>1, WorkerStepsClients DEF clientVars
  <1>2. ASSUME NEW d \in Clients,
               ClientSend(d) \/ ClientReceive(d) \/ ClientKilled(d) \/ ResetLoses(d)
        PROVE  UNCHANGED phase[c]
    BY <1>2, ClientCases DEF Quiet, TakesResponse, EntersRoi, Aborts, Finishes, Dies, LosesLast,
                             Reads
  <1>3. CASE UNCHANGED vars
    BY <1>3 DEF vars, clientVars
  <1> QED
    BY <1>1, <1>2, <1>3 DEF Next, Stopped

\* So nobody had been killed before a step that leaves nobody killed.
LEMMA NoneKilledBefore ==
  ASSUME TypeOK, LocksExclusive, ServedInv, LoopInv, [Next]_vars, NoneKilled'
  PROVE  NoneKilled
  <1> SUFFICES ASSUME NEW c \in Clients, phase[c] = "KILLED" PROVE FALSE
    BY DEF NoneKilled
  <1>1. phase'[c] = "KILLED"
    BY GoneStays DEF Connected
  <1> QED
    BY <1>1 DEF NoneKilled

\* Only an erase changes the vector, and only a client that has left is erased.
LEMMA AllThereStep ==
  ASSUME ServiceInv, AllThere, [Next]_vars
  PROVE  AllThere'
  <1>0. TypeOK /\ CutInv
    BY DEF ServiceInv, IndInv
  <1> SUFFICES ASSUME (\A c \in Clients : Connected(c))'
               PROVE  /\ fdCount' = NumClients /\ ~Erasing'
                      /\ \A i \in Clients : fdMem'[i] = i
    BY DEF AllThere
  <1>1. \A c \in Clients : Connected(c)
    BY <1>0, StaysGone
  <1>2. fdCount = NumClients /\ ~Erasing /\ \A i \in Clients : fdMem[i] = i
    BY <1>1 DEF AllThere
  <1>3. ASSUME NEW w \in Workers, WorkerStep(w) PROVE UNCHANGED <<fdMem, fdCount, Erasing>>
    <2>1. ~RecvEof(w)
      <3> SUFFICES ASSUME RecvEof(w) PROVE FALSE
        OBVIOUS
      <3>1. Picked \in Clients /\ ~Connected(Picked)
        BY <1>0, SelectedClient, ErasesGone DEF RecvEof
      <3> QED
        BY <1>1, <3>1
    <2>2. ~Shrink(w)
      BY <1>2 DEF Shrink, Goto, Erasing
    <2> QED
      BY <1>0, <1>3, <2>1, <2>2, VectorKept DEF Erasing
  <1>4. CASE UNCHANGED serverVars
    BY <1>2, <1>4 DEF serverVars, fdVars, Erasing
  <1> QED
    BY <1>2, <1>3, <1>4, ClientStepsServer DEF Next, Stopped, vars

\* Main is not through while another worker sends.
LEMMA MainNotThrough ==
  ASSUME ReturnInv, NEW w \in Workers, pc[w] \in {"respond", "broadcast"}
  PROVE  pc[Main] \notin {"finish", "return"}
  BY ServerAssumption DEF ReturnInv, ServerAssumption

\* The end of the measurement is for good.
LEMMA EndingStays ==
  ASSUME TypeOK, [Next]_vars, Ending
  PROVE  Ending'
  <1>0. /\ finishedReqs \in Nat /\ WarmupReqs \in Nat /\ MaxReqs \in Nat
        /\ Main \in Workers /\ ThreadTypes
    BY ServerAssumption DEF TypeOK, RequestTypes, ServerAssumption
  <1>1. ASSUME NEW w \in Workers, WorkerStep(w) PROVE Ending'
    <2>1. CASE Respond(w)
      <3>1. finishedReqs' = finishedReqs + 1
        BY <2>1 DEF Respond
      <3>2. Counted => Counted'
        BY <1>0, <3>1 DEF Counted
      <3>3. pc'[Main] = pc[Main] \/ Main = w
        BY <1>0, <2>1 DEF Respond, Broadcast, ThreadTypes
      <3> QED
        BY <2>1, <3>2, <3>3 DEF Ending, Respond
    <2>2. CASE JoinAndFinish(w)
      <3>1. pc'[Main] = "finish"
        BY <1>0, <2>2 DEF JoinAndFinish, Broadcast, ThreadTypes
      <3> QED
        BY <3>1 DEF Ending
    <2>3. CASE BroadcastSend(w)
      BY <2>3 DEF BroadcastSend, countVars, Ending, Counted
    <2>4. CASE BroadcastEnd(w)
      <3>1. UNCHANGED finishedReqs
            /\ (pc[Main] \in {"finish", "return"} => pc'[Main] \in {"finish", "return"})
        BY <1>0, <2>4 DEF BroadcastEnd, Goto, countVars, ThreadTypes
      <3> QED
        BY <3>1 DEF Ending, Counted
    <2>5. CASE ~Respond(w) /\ ~BroadcastSend(w) /\ ~BroadcastEnd(w) /\ ~JoinAndFinish(w)
      BY <1>0, <1>1, <2>5, BcastKept DEF Ending, Counted
    <2> QED
      BY <2>1, <2>2, <2>3, <2>4, <2>5
  <1>2. CASE UNCHANGED serverVars
    BY <1>2 DEF serverVars, countVars, Ending, Counted
  <1> QED
    BY <1>1, <1>2, ClientStepsServer DEF Next, Stopped, vars

\* Until the measurement is over all clients are there and none has got FINISH.
LEMMA AllConnected ==
  ASSUME TypeOK, NoneKilled, RoiInv, ~Ending, NEW c \in Clients
  PROVE  Connected(c) /\ ~HasFinish(c)
  <1>1. ClientRoi(c) /\ phase[c] # "KILLED"
    BY DEF RoiInv, NoneKilled
  <1>2. phase[c] \in {"WARMUP", "ROI", "FINISHED", "ABORTED", "KILLED"}
    BY DEF TypeOK, ClientTypes
  <1> QED
    BY <1>1, <1>2 DEF ClientRoi, GotFinish, Connected

\* During the broadcast of ROI_BEGIN the measurement is not over.
LEMMA RoiNotEnding ==
  ASSUME TypeOK, ReturnInv, BcastInv, bcast.msg = RoiBegin
  PROVE  ~Ending
  <1>1. finishedReqs = WarmupReqs /\ WarmupReqs \in Nat /\ MaxReqs \in Nat
    BY ServerAssumption DEF BcastInv, ServerAssumption
  <1>2. ~Counted
    BY <1>1 DEF Counted
  <1>3. PICK w \in Workers : pc[w] = "broadcast"
    BY DEF BcastInv
  <1> QED
    BY <1>2, <1>3, MainNotThrough DEF Ending

\* FINISH comes by a broadcast that the end of the measurement started.
LEMMA FinishComes ==
  ASSUME TypeOK, LocksExclusive, ServedInv, LoopInv, BcastInv, KnownInv, [Next]_vars,
         NEW c \in Clients, GotFinish(c)'
  PROVE  GotFinish(c) \/ \E w \in Workers : GetsNotice(w, c) /\ bcast.msg = Finish
  <1>0. s2c[c] \in Seq(Messages)
    BY DEF TypeOK, StreamTypes
  <1>1. CASE Has(s2c'[c], Finish)
    BY <1>1, NoticeComes DEF GotFinish, HasFinish
  <1>2. CASE phase'[c] = "FINISHED" /\ phase[c] # "FINISHED"
    <2>1. ASSUME NEW w \in Workers, WorkerStep(w) PROVE FALSE
      BY <1>2, <2>1, WorkerStepsClients DEF clientVars
    <2>2. ASSUME NEW d \in Clients,
                 ClientSend(d) \/ ClientReceive(d) \/ ClientKilled(d) \/ ResetLoses(d)
          PROVE  GotFinish(c)
      <3>1. Finishes(c)
        BY <1>2, <2>2, ClientCases DEF Quiet, TakesResponse, EntersRoi, Aborts, Dies, LosesLast
      <3>2. Head(s2c[c]) = Finish /\ s2c[c] # <<>>
        BY <3>1, HeadKnown DEF Finishes, Reads
      <3>3. Has(s2c[c], Finish)
        BY <1>0, <3>2, HasTail
      <3> QED
        BY <3>3 DEF GotFinish, HasFinish
    <2>3. ~UNCHANGED vars
      BY <1>2 DEF vars, clientVars
    <2> QED
      BY <2>1, <2>2, <2>3 DEF Next, Stopped
  <1> QED
    BY <1>1, <1>2 DEF GotFinish, HasFinish

\* ROI_BEGIN comes by its broadcast.
LEMMA RoiComes ==
  ASSUME TypeOK, LocksExclusive, ServedInv, LoopInv, BcastInv, KnownInv, [Next]_vars,
         NEW c \in Clients, GotRoi(c)'
  PROVE  GotRoi(c) \/ \E w \in Workers : GetsNotice(w, c) /\ bcast.msg = RoiBegin
  <1>0. s2c[c] \in Seq(Messages)
    BY DEF TypeOK, StreamTypes
  <1>1. CASE Has(s2c'[c], RoiBegin)
    BY <1>1, NoticeComes DEF GotRoi
  <1>2. CASE phase'[c] = "ROI" /\ phase[c] # "ROI"
    <2>1. ASSUME NEW w \in Workers, WorkerStep(w) PROVE FALSE
      BY <1>2, <2>1, WorkerStepsClients DEF clientVars
    <2>2. ASSUME NEW d \in Clients,
                 ClientSend(d) \/ ClientReceive(d) \/ ClientKilled(d) \/ ResetLoses(d)
          PROVE  GotRoi(c)
      <3>1. EntersRoi(c)
        BY <1>2, <2>2, ClientCases DEF Quiet, TakesResponse, Finishes, Aborts, Dies, LosesLast
      <3>2. Head(s2c[c]) = RoiBegin /\ s2c[c] # <<>>
        BY <3>1, HeadKnown DEF EntersRoi, Reads
      <3>3. Has(s2c[c], RoiBegin)
        BY <1>0, <3>2, HasTail
      <3> QED
        BY <3>3 DEF GotRoi
    <2>3. ~UNCHANGED vars
      BY <1>2 DEF vars, clientVars
    <2> QED
      BY <2>1, <2>2, <2>3 DEF Next, Stopped
  <1> QED
    BY <1>1, <1>2 DEF GotRoi

\* A client that stays keeps it, on its stream or as its status.
LEMMA RoiStays ==
  ASSUME TypeOK, LocksExclusive, ServedInv, LoopInv, BcastInv, KnownInv, [Next]_vars,
         server = "up", NEW c \in Clients, Connected(c)', GotRoi(c)
  PROVE  GotRoi(c)'
  <1>1. CASE Has(s2c[c], RoiBegin)
    BY <1>1, NoticeStays DEF GotRoi, EntersRoi
  <1>2. CASE phase[c] = "ROI"
    <2>1. ASSUME NEW w \in Workers, WorkerStep(w) PROVE phase'[c] = "ROI"
      BY <1>2, <2>1, WorkerStepsClients DEF clientVars
    <2>2. ASSUME NEW d \in Clients,
                 ClientSend(d) \/ ClientReceive(d) \/ ClientKilled(d) \/ ResetLoses(d)
          PROVE  phase'[c] = "ROI"
      BY <1>2, <2>2, ClientCases DEF Quiet, TakesResponse, EntersRoi, Finishes, Aborts, Dies,
                                     LosesLast, Connected
    <2>3. CASE UNCHANGED vars
      BY <1>2, <2>3 DEF vars, clientVars, GotRoi
    <2> QED
      BY <2>1, <2>2, <2>3 DEF Next, Stopped, GotRoi
  <1> QED
    BY <1>1, <1>2 DEF GotRoi

\* The cell that the broadcast of ROI_BEGIN is at holds the client of its number, who
\* has not got the notice yet.
LEMMA RoiGoes ==
  ASSUME StreamInv, AllThere, RoiInv, NoneKilled, NEW w \in Workers, BroadcastSend(w),
         server = "up", bcast.msg = RoiBegin
  PROVE  /\ bcast.it \in Clients /\ fdMem[bcast.it] = bcast.it
         /\ Connected(bcast.it) /\ ~GotRoi(bcast.it)
  <1>0. /\ TypeOK /\ LocksExclusive /\ ReturnInv /\ LoopInv /\ BcastInv
        /\ bcast \in [msg : Messages, it : 0..(NumClients + 1), end : 0..NumClients]
        /\ NumClients \in Nat /\ Clients = 1..NumClients
    BY ServerAssumption DEF StreamInv, ServiceInv, IndInv, TypeOK, RequestTypes, ServerAssumption,
                            Clients
  <1>1. ~Ending
    BY <1>0, RoiNotEnding
  <1>2. \A c \in Clients : Connected(c)
    BY <1>0, <1>1, AllConnected
  <1>3. bcast.it >= 1 /\ bcast.it <= bcast.end
    BY <1>0 DEF BroadcastSend, LoopInv
  <1>4. bcast.it \in Clients
    BY <1>0, <1>3
  <1>5. fdMem[bcast.it] = bcast.it
    BY <1>2, <1>4 DEF AllThere
  <1>6. GotRoi(bcast.it) <=> bcast.it < bcast.it
    BY <1>4 DEF RoiInv, RoiAt
  <1>7. ~GotRoi(bcast.it)
    BY <1>0, <1>6
  <1> QED
    BY <1>2, <1>4, <1>5, <1>7

\* What each client has got stays in order.
LEMMA ClientRoiStep ==
  ASSUME StreamInv, AllThere, RoiInv, [Next]_vars, NoneKilled', NEW c \in Clients
  PROVE  ClientRoi(c)'
  <1>0. /\ TypeOK /\ LocksExclusive /\ ServedInv /\ ReturnInv /\ LoopInv /\ BcastInv /\ KnownInv
        /\ s2c[c] \in Seq(Messages) /\ phase'[c] # "KILLED"
    BY DEF StreamInv, ServiceInv, IndInv, TypeOK, StreamTypes, NoneKilled
  <1>1. NoneKilled /\ ClientRoi(c)
    BY <1>0, NoneKilledBefore DEF RoiInv
  <1>2. GotFinish(c)' => Ending'
    <2>1. ASSUME NEW w \in Workers, GetsNotice(w, c), bcast.msg = Finish PROVE Ending
      <3>1. pc[w] \in {"broadcast", "finish"}
        BY <2>1 DEF GetsNotice, BroadcastSend
      <3>2. pc[w] = "broadcast" => Counted
        BY <1>0, <2>1 DEF BcastInv
      <3>3. pc[w] = "finish" => w = Main
        BY <1>0 DEF ReturnInv
      <3> QED
        BY <3>1, <3>2, <3>3 DEF Ending
    <2>2. GotFinish(c)' => Ending
      BY <1>0, <1>1, <2>1, FinishComes DEF ClientRoi
    <2> QED
      BY <1>0, <2>2, EndingStays
  <1>3. /\ phase'[c] # "ABORTED"
        /\ phase'[c] = "WARMUP" => samples'[c] = 0
        /\ RoiOnce(c)'
    <2>0. /\ phase[c] # "ABORTED" /\ (phase[c] = "WARMUP" => samples[c] = 0)
          /\ Connected(c) => Once(s2c[c], RoiBegin)
          /\ Connected(c) /\ phase[c] = "ROI" => ~Has(s2c[c], RoiBegin)
      BY <1>1 DEF ClientRoi, RoiOnce
    <2>1. CASE Quiet(c)
      BY <2>0, <2>1 DEF Quiet, RoiOnce, Connected
    <2>2. ASSUME NEW x \in Messages, s2c'[c] = Append(s2c[c], x), UNCHANGED <<phase[c], samples[c]>>,
                 Connected(c), x # RoiBegin \/ ~GotRoi(c)
          PROVE  /\ phase'[c] # "ABORTED"
                 /\ phase'[c] = "WARMUP" => samples'[c] = 0
                 /\ RoiOnce(c)'
      <3>1. /\ Has(s2c'[c], RoiBegin) <=> Has(s2c[c], RoiBegin) \/ x = RoiBegin
            /\ Once(s2c'[c], RoiBegin)
        BY <1>0, <2>0, <2>2, HasAppend DEF GotRoi
      <3> QED
        BY <2>0, <2>2, <3>1 DEF RoiOnce, GotRoi, Connected
    <2>3. ASSUME NEW w \in Workers, WorkerStep(w), ~Quiet(c)
          PROVE  /\ phase'[c] # "ABORTED"
                 /\ phase'[c] = "WARMUP" => samples'[c] = 0
                 /\ RoiOnce(c)'
      <3>1. CASE GetsResponse(w, c)
        <4> DEFINE x == RespMsg(slot[tid[w]].id)
        <4>1. x \in Messages /\ x # RoiBegin
          BY <1>0, <3>1, ServedAnswered DEF GetsResponse, RespMsg, Messages, RoiBegin
        <4>2. s2c'[c] = Append(s2c[c], x) /\ UNCHANGED <<phase[c], samples[c]>> /\ Connected(c)
          BY <3>1 DEF GetsResponse
        <4> HIDE DEF x
        <4> QED
          BY <2>2, <4>1, <4>2
      <3>2. CASE GetsNotice(w, c)
        <4>1. bcast.msg \in Messages
          BY <1>0, <3>2, NoticeGoes DEF GetsNotice
        <4>2. bcast.msg = RoiBegin => ~GotRoi(c)
          <5>1. server = "up" /\ BroadcastSend(w) /\ fdMem[bcast.it] = c
            BY <2>3, <3>2 DEF WorkerStep, GetsNotice
          <5> QED
            BY <1>1, <5>1, RoiGoes
        <4>3. s2c'[c] = Append(s2c[c], bcast.msg) /\ UNCHANGED <<phase[c], samples[c]>>
              /\ Connected(c)
          BY <3>2 DEF GetsNotice
        <4> QED
          BY <2>2, <4>1, <4>2, <4>3
      <3> QED
        BY <1>0, <2>3, <3>1, <3>2, WorkerCases
    <2>4. ASSUME NEW d \in Clients,
                 ClientSend(d) \/ ClientReceive(d) \/ ClientKilled(d) \/ ResetLoses(d), ~Quiet(c)
          PROVE  /\ phase'[c] # "ABORTED"
                 /\ phase'[c] = "WARMUP" => samples'[c] = 0
                 /\ RoiOnce(c)'
      <3>1. CASE TakesResponse(c)
        <4>1. s2c'[c] = Tail(s2c[c]) /\ s2c[c] # <<>> /\ Connected(c) /\ phase'[c] = phase[c]
              /\ (phase[c] = "WARMUP" => samples'[c] = samples[c])
          BY <3>1 DEF TakesResponse, Reads
        <4>2. Once(s2c'[c], RoiBegin) /\ (Has(s2c'[c], RoiBegin) => Has(s2c[c], RoiBegin))
          BY <1>0, <2>0, <4>1, HasTail
        <4> QED
          BY <2>0, <4>1, <4>2 DEF RoiOnce
      <3>2. CASE EntersRoi(c)
        <4>1. s2c'[c] = Tail(s2c[c]) /\ s2c[c] # <<>> /\ Connected(c) /\ phase'[c] = "ROI"
              /\ Head(s2c[c]) = RoiBegin
          BY <1>0, <3>2, HeadKnown DEF EntersRoi, Reads
        <4>2. Once(s2c'[c], RoiBegin) /\ ~Has(s2c'[c], RoiBegin)
          BY <1>0, <2>0, <4>1, HasTail
        <4> QED
          BY <4>1, <4>2 DEF RoiOnce
      <3>3. CASE Aborts(c)
        <4>1. Has(s2c[c], RoiBegin) /\ Connected(c) /\ phase[c] = "ROI"
          BY <1>0, <3>3, HeadKnown, HasTail DEF Aborts, Reads
        <4> QED
          BY <2>0, <4>1
      <3>4. CASE Finishes(c)
        BY <3>4 DEF Finishes, RoiOnce, Connected
      <3>5. CASE Dies(c)
        BY <1>0, <3>5 DEF Dies
      <3>6. CASE LosesLast(c)
        <4>1. s2c'[c] = Front(s2c[c]) /\ s2c[c] # <<>> /\ UNCHANGED <<phase[c], samples[c]>>
          BY <3>6 DEF LosesLast
        <4>2. /\ Connected(c) => Once(s2c'[c], RoiBegin)
              /\ Has(s2c'[c], RoiBegin) => Has(s2c[c], RoiBegin)
          BY <1>0, <2>0, <4>1, HasFront
        <4> QED
          BY <2>0, <4>1, <4>2 DEF RoiOnce, Connected
      <3> QED
        BY <1>0, <2>4, <3>1, <3>2, <3>3, <3>4, <3>5, <3>6, ClientCases
    <2>5. UNCHANGED vars => Quiet(c)
      BY DEF vars, clientVars, Quiet
    <2> QED
      BY <2>1, <2>3, <2>4, <2>5 DEF Next, Stopped
  <1> QED
    BY <1>2, <1>3 DEF ClientRoi

\* While ROI_BEGIN is broadcast nobody leaves.
LEMMA StaysDuringRoi ==
  ASSUME StreamInv, RoiInv, [Next]_vars, NoneKilled', bcast.msg = RoiBegin, NEW c \in Clients
  PROVE  Connected(c)'
  <1>0. /\ TypeOK /\ LocksExclusive /\ ServedInv /\ ReturnInv /\ LoopInv /\ BcastInv /\ KnownInv
        /\ s2c[c] \in Seq(Messages) /\ phase'[c] # "KILLED"
    BY DEF StreamInv, ServiceInv, IndInv, TypeOK, StreamTypes, NoneKilled
  <1>1. NoneKilled /\ ClientRoi(c)
    BY <1>0, NoneKilledBefore DEF RoiInv
  <1>2. Connected(c) /\ ~HasFinish(c)
    BY <1>0, <1>1, RoiNotEnding, AllConnected
  <1>3. ASSUME NEW w \in Workers, WorkerStep(w) PROVE UNCHANGED phase[c]
    BY <1>3, WorkerStepsClients DEF clientVars
  <1>4. ASSUME NEW d \in Clients,
               ClientSend(d) \/ ClientReceive(d) \/ ClientKilled(d) \/ ResetLoses(d)
        PROVE  phase'[c] \in {phase[c], "ROI"}
    <2>1. ~Finishes(c)
      BY <1>0, <1>2, HeadKnown, HasTail DEF Finishes, Reads, HasFinish
    <2>2. ~Aborts(c)
      BY <1>0, <1>1, HeadKnown, HasTail DEF Aborts, Reads, ClientRoi, RoiOnce
    <2>3. ~Dies(c)
      BY <1>0 DEF Dies
    <2> QED
      BY <1>0, <1>4, <2>1, <2>2, <2>3, ClientCases DEF Quiet, TakesResponse, EntersRoi, LosesLast
  <1>5. UNCHANGED vars => UNCHANGED phase[c]
    BY DEF vars, clientVars
  <1>6. phase'[c] \in {phase[c], "ROI"}
    BY <1>3, <1>4, <1>5 DEF Next, Stopped
  <1> QED
    BY <1>2, <1>6 DEF Connected

\* Before, during and after its broadcast ROI_BEGIN is where it should be.
LEMMA RoiAtStep ==
  ASSUME StreamInv, AllThere, RoiInv, [Next]_vars, NoneKilled', server' = "up",
         NEW c \in Clients
  PROVE  /\ bcast'.msg = RoiBegin => bcast'.end = NumClients
         /\ RoiAt(c)'
  <1>0. /\ TypeOK /\ LocksExclusive /\ ServedInv /\ ReturnInv /\ LoopInv /\ BcastInv /\ KnownInv
        /\ server = "up" /\ s2c \in [Clients -> Seq(Messages)]
        /\ bcast \in [msg : Messages, it : 0..(NumClients + 1), end : 0..NumClients]
        /\ finishedReqs \in Nat /\ WarmupReqs \in Nat /\ MaxReqs \in Nat
        /\ NumClients \in Nat /\ c \in 1..NumClients
    BY ServerStaysDown, ServerAssumption DEF StreamInv, ServiceInv, IndInv, TypeOK, RequestTypes,
       StreamTypes, ServerAssumption, Clients
  <1>1. NoneKilled
    BY <1>0, NoneKilledBefore
  <1>2. (bcast.msg = RoiBegin => bcast.end = NumClients) /\ RoiAt(c)
    BY <1>0, <1>1 DEF RoiInv
  <1>3. GotRoi(c) /\ Connected(c)' => GotRoi(c)'
    BY <1>0, RoiStays
  <1>4. GotRoi(c)' => GotRoi(c) \/ \E w \in Workers : GetsNotice(w, c) /\ bcast.msg = RoiBegin
    BY <1>0, RoiComes
  <1>5. bcast.msg = RoiBegin => Warm
    BY <1>0 DEF BcastInv, Warm
  <1>6. Connected(c)' => Connected(c)
    BY <1>0, StaysGone
  <1>7. RoiBegin # Finish
    BY DEF RoiBegin, Finish
  \* Once ROI_BEGIN is not being broadcast, nor about to be.
  <1>8. ASSUME bcast'.msg # RoiBegin, Warm' => Warm, Warm => Warm',
               bcast.msg = RoiBegin => c < bcast.it
        PROVE  /\ bcast'.msg = RoiBegin => bcast'.end = NumClients
               /\ RoiAt(c)'
    <2>1. Warm /\ Connected(c) => GotRoi(c)
      BY <1>2, <1>8 DEF RoiAt
    <2>2. ~Warm => ~GotRoi(c)'
      BY <1>2, <1>4, <1>5 DEF RoiAt
    <2> QED
      BY <1>3, <1>6, <1>8, <2>1, <2>2 DEF RoiAt
  <1>9. CASE UNCHANGED <<bcast, finishedReqs>>
    <2>1. Warm' <=> Warm
      BY <1>9 DEF Warm
    <2>2. CASE bcast.msg # RoiBegin
      BY <1>8, <1>9, <2>1, <2>2
    <2>3. CASE bcast.msg = RoiBegin
      <3>1. \A w \in Workers : ~GetsNotice(w, c)
        <4> SUFFICES ASSUME NEW w \in Workers, GetsNotice(w, c) PROVE FALSE
          OBVIOUS
        <4>1. bcast'.it = bcast.it + 1 /\ bcast.it \in Int
          BY <1>0 DEF GetsNotice, BroadcastSend
        <4> QED
          BY <1>9, <4>1
      <3>2. Connected(c)'
        BY <2>3, StaysDuringRoi
      <3>3. GotRoi(c)' <=> GotRoi(c)
        BY <1>3, <1>4, <3>1, <3>2
      <3> QED
        BY <1>2, <1>5, <1>9, <2>1, <2>3, <3>3 DEF RoiAt
    <2> QED
      BY <2>2, <2>3
  <1>10. ASSUME NEW w \in Workers, WorkerStep(w)
         PROVE  /\ bcast'.msg = RoiBegin => bcast'.end = NumClients
                /\ RoiAt(c)'
    <2>1. CASE Respond(w)
      <3>1. /\ pc[w] = "respond" /\ finishedReqs' = finishedReqs + 1
            /\ \A v \in Workers : pc[v] \notin {"broadcast", "finish"}
        BY <1>0, <2>1 DEF Respond, LocksExclusive
      <3>2. bcast.msg = Finish
        BY <1>0, <3>1 DEF BcastInv, Idle
      <3>3. CASE EndsWarmup(finishedReqs + 1) /\ Broadcast(w, RoiBegin, "broadcast")
        <4>1. finishedReqs + 1 = WarmupReqs /\ ~Warm /\ Warm'
          BY <1>0, <3>1, <3>3 DEF EndsWarmup, Warm
        <4>2. ~GotRoi(c)'
          BY <1>2, <1>4, <1>7, <3>2, <4>1 DEF RoiAt
        <4>3. ~Ending
          <5>1. ~Counted
            BY <1>0, <4>1 DEF Counted
          <5> QED
            BY <1>0, <3>1, <5>1, MainNotThrough DEF Ending
        <4>4. fdCount = NumClients
          BY <1>0, <1>1, <4>3, AllConnected DEF AllThere
        <4>5. bcast'.msg = RoiBegin /\ bcast'.it = 1 /\ bcast'.end = NumClients
          BY <3>3, <4>4 DEF Broadcast
        <4>6. ~(c < 1)
          BY <1>0
        <4> QED
          BY <4>1, <4>2, <4>5, <4>6 DEF RoiAt
      <3>4. CASE ~EndsWarmup(finishedReqs + 1)
                 /\ (Broadcast(w, Finish, "broadcast") \/ UNCHANGED bcast)
        <4>1. bcast'.msg = Finish
          BY <3>2, <3>4 DEF Broadcast
        <4>2. Warm' <=> Warm
          BY <1>0, <3>1, <3>4 DEF Warm, EndsWarmup
        <4> QED
          BY <1>7, <1>8, <3>2, <4>1, <4>2
      <3> QED
        BY <2>1, <3>3, <3>4 DEF Respond, EndsRoi
    <2>2. CASE JoinAndFinish(w)
      <3>1. bcast'.msg = Finish /\ UNCHANGED finishedReqs /\ bcast.msg # RoiBegin
        BY <1>0, <2>2 DEF JoinAndFinish, AllJoined, Broadcast, countVars, BcastInv
      <3> QED
        BY <1>7, <1>8, <3>1 DEF Warm
    <2>3. CASE BroadcastSend(w)
      <3>1. /\ bcast'.msg = bcast.msg /\ bcast'.end = bcast.end /\ bcast'.it = bcast.it + 1
            /\ (Warm' <=> Warm)
        BY <1>0, <2>3 DEF BroadcastSend, countVars, Warm
      <3>2. CASE bcast.msg # RoiBegin
        BY <1>8, <3>1, <3>2
      <3>3. CASE bcast.msg = RoiBegin
        <4>1. /\ bcast.it \in Clients /\ fdMem[bcast.it] = bcast.it
              /\ Connected(bcast.it) /\ ~GotRoi(bcast.it)
          BY <1>0, <1>1, <2>3, <3>3, RoiGoes
        <4>2. GotRoi(c)' <=> c < bcast.it + 1
          <5>1. CASE c = bcast.it
            <6>1. Deliver(c, RoiBegin)
              BY <2>3, <3>3, <4>1, <5>1 DEF BroadcastSend
            <6>2. s2c'[c] = Append(s2c[c], RoiBegin)
              BY <1>0, <4>1, <5>1, <6>1 DEF Deliver
            <6>3. Has(s2c'[c], RoiBegin)
              <7>1. s2c[c] \in Seq(Messages) /\ RoiBegin \in Messages
                BY <1>0 DEF RoiBegin, Messages
              <7> QED
                BY <6>2, <7>1, HasAppend
            <6>4. c < bcast.it + 1
              BY <1>0, <5>1
            <6> QED
              BY <6>3, <6>4 DEF GotRoi
          <5>2. CASE c # bcast.it
            <6>1. \A v \in Workers : ~GetsNotice(v, c)
              BY <4>1, <5>2 DEF GetsNotice
            <6>2. Connected(c)'
              BY <3>3, StaysDuringRoi
            <6>3. GotRoi(c)' <=> c < bcast.it
              BY <1>2, <1>3, <1>4, <3>3, <6>1, <6>2 DEF RoiAt
            <6>4. c < bcast.it + 1 <=> c < bcast.it
              BY <1>0, <5>2
            <6> QED
              BY <6>3, <6>4
          <5> QED
            BY <5>1, <5>2
        <4> QED
          BY <1>2, <1>5, <3>1, <3>3, <4>2 DEF RoiAt
      <3> QED
        BY <3>2, <3>3
    <2>4. CASE BroadcastEnd(w)
      <3>1. bcast'.msg = Finish /\ UNCHANGED finishedReqs /\ bcast.it > bcast.end
        BY <2>4 DEF BroadcastEnd, countVars, Idle
      <3>2. bcast.msg = RoiBegin => c < bcast.it
        BY <1>0, <1>2, <3>1
      <3> QED
        BY <1>7, <1>8, <3>1, <3>2 DEF Warm
    <2>5. CASE ~Respond(w) /\ ~BroadcastSend(w) /\ ~BroadcastEnd(w) /\ ~JoinAndFinish(w)
      BY <1>0, <1>9, <1>10, <2>5, BcastKept
    <2> QED
      BY <2>1, <2>2, <2>3, <2>4, <2>5
  <1>11. UNCHANGED serverVars => UNCHANGED <<bcast, finishedReqs>>
    BY DEF serverVars, countVars
  <1> QED
    BY <1>9, <1>10, <1>11, ClientStepsServer DEF Next, Stopped, vars

\* Until a client is killed, both broadcasts do what they are for.
LEMMA RoiInvHolds == Spec => [](StreamInv /\ AllThere /\ RoiInv)
  <1>1. ASSUME Init PROVE AllThere /\ RoiInv
    <2>1. AllThere
      <3>1. fdCount = NumClients /\ \A i \in Clients : fdMem[i] = i
        BY <1>1 DEF Init, Clients
      <3>2. ~Erasing
        BY <1>1 DEF Init, Erasing
      <3> QED
        BY <3>1, <3>2 DEF AllThere
    <2>2. bcast.msg # RoiBegin /\ ~Warm /\ WarmupReqs \in Nat
      BY <1>1, ServerAssumption DEF Init, Idle, RoiBegin, Finish, Warm, ServerAssumption
    <2>3. \A c \in Clients : ~GotRoi(c) /\ ~GotFinish(c) /\ ClientRoi(c)
      BY <1>1 DEF Init, GotRoi, GotFinish, HasFinish, Has, Once, ClientRoi, RoiOnce
    <2> QED
      BY <2>1, <2>2, <2>3 DEF RoiInv, RoiAt
  <1>2. ASSUME StreamInv, AllThere, RoiInv, [Next]_vars PROVE AllThere' /\ RoiInv'
    <2>1. AllThere'
      BY <1>2, AllThereStep DEF StreamInv
    <2>2. RoiInv'
      BY <1>2, ClientRoiStep, RoiAtStep, ServerAssumption DEF RoiInv, Clients, ServerAssumption
    <2> QED
      BY <2>1, <2>2
  <1> QED
    BY <1>1, <1>2, StreamInvHolds, PTL DEF Spec

\* If no client can be killed, no client gets ROI_BEGIN twice: assert(status == WARMUP) of
\* Client::_startRoi holds in every client. The run roi shows that one kill is enough to
\* break it.
THEOREM RoiStartsOnceUnkilled == Mortal = {} => (Spec => []RoiStartsOnce)
  <1> SUFFICES ASSUME Mortal = {} PROVE Spec => []RoiStartsOnce
    OBVIOUS
  <1>1. ASSUME TypeOK, LocksExclusive, ServedInv, LoopInv, NoneKilled, [Next]_vars
        PROVE  NoneKilled'
    <2> SUFFICES ASSUME NEW c \in Clients, phase'[c] = "KILLED" PROVE FALSE
      BY DEF NoneKilled
    <2>0. phase[c] # "KILLED"
      BY <1>1 DEF NoneKilled
    <2>1. ASSUME NEW w \in Workers, WorkerStep(w) PROVE FALSE
      BY <2>0, <2>1, WorkerStepsClients DEF clientVars
    <2>2. ASSUME NEW d \in Clients, ClientSend(d) \/ ClientReceive(d) \/ ResetLoses(d) PROVE FALSE
      BY <2>0, <2>2, <1>1 DEF ClientSend, ClientReceive, ClientResponse, ClientRoiBegin,
         ClientFinish, ResetLoses, clientVars, Leaves, TypeOK, ClientTypes
    <2>3. \A d \in Clients : ~ClientKilled(d)
      BY DEF ClientKilled
    <2>4. ~UNCHANGED vars
      BY <2>0 DEF vars, clientVars
    <2> QED
      BY <1>1, <2>1, <2>2, <2>3, <2>4 DEF Next, Stopped
  <1>2. Init => NoneKilled
    BY DEF Init, NoneKilled
  <1>3. StreamInv => TypeOK /\ LocksExclusive /\ ServedInv /\ LoopInv
    BY DEF StreamInv, ServiceInv, IndInv
  <1>4. RoiInv /\ NoneKilled => RoiStartsOnce
    BY DEF RoiInv, ClientRoi, RoiStartsOnce
  <1> QED
    BY <1>1, <1>2, <1>3, <1>4, RoiInvHolds, PTL DEF Spec
-----------------------------------------------------------------------------
(* The responses that a client will record.                                *)

\* On a stream: the responses with no FINISH before them, and those among them that are
\* behind a ROI_BEGIN.
Clear(s) ==
  {i \in DOMAIN s : s[i].type = "RESPONSE" /\ \A j \in DOMAIN s : j < i => s[j] # Finish}
Behind(s) == {i \in Clear(s) : \E j \in DOMAIN s : j < i /\ s[j] = RoiBegin}
Shifted(A) == {i + 1 : i \in A}

\* They can be counted.
LEMMA OnWayFinite ==
  ASSUME NEW s \in Seq(Messages)
  PROVE  /\ IsFiniteSet(Clear(s)) /\ Cardinality(Clear(s)) \in Nat
         /\ IsFiniteSet(Behind(s)) /\ Cardinality(Behind(s)) \in Nat
         /\ Clear(s) \in SUBSET Nat /\ Behind(s) \in SUBSET Nat
  <1>1. Len(s) \in Nat /\ DOMAIN s = 1..Len(s)
    OBVIOUS
  <1>2. Clear(s) \subseteq DOMAIN s /\ Behind(s) \subseteq DOMAIN s
    BY DEF Clear, Behind
  <1>3. IsFiniteSet(1..Len(s)) /\ Clear(s) \in SUBSET (1..Len(s))
        /\ Behind(s) \in SUBSET (1..Len(s))
    BY <1>1, <1>2, FS_Interval
  <1>4. Clear(s) \in SUBSET Nat /\ Behind(s) \in SUBSET Nat
    BY <1>1, <1>2
  <1> QED
    BY <1>3, <1>4, FS_Subset, FS_CardinalityType

\* A shift keeps the number of positions.
LEMMA ShiftCounts ==
  ASSUME NEW A \in SUBSET Nat, IsFiniteSet(A)
  PROVE  /\ IsFiniteSet(Shifted(A)) /\ Cardinality(Shifted(A)) = Cardinality(A)
         /\ 1 \notin Shifted(A) \/ 0 \in A
  <1> DEFINE f == [i \in A |-> i + 1]
  <1>1. f \in Bijection(A, Shifted(A))
    <2>1. f \in [A -> Shifted(A)] /\ \A b \in Shifted(A) : \E a \in A : f[a] = b
      BY DEF Shifted
    <2>2. ASSUME NEW a \in A, NEW b \in A, f[a] = f[b] PROVE a = b
      <3>1. a \in Nat /\ b \in Nat /\ a + 1 = b + 1
        BY <2>2
      <3> QED
        BY <3>1
    <2> HIDE DEF f
    <2> QED
      BY <2>1, <2>2 DEF Bijection, Injection, Surjection, IsInjective
  <1>2. ExistsBijection(A, Shifted(A))
    BY <1>1 DEF ExistsBijection
  <1>3. 1 \in Shifted(A) => 0 \in A
    <2> SUFFICES ASSUME 1 \in Shifted(A) PROVE 0 \in A
      OBVIOUS
    <2>1. PICK a \in A : 1 = a + 1
      BY DEF Shifted
    <2>2. a \in Nat
      OBVIOUS
    <2>3. a = 0
      BY <2>1, <2>2
    <2> QED
      BY <2>3
  <1> QED
    BY <1>2, <1>3, FS_Bijection

\* A message that is sent.
LEMMA OnWayAppend ==
  ASSUME NEW s \in Seq(Messages), NEW x \in Messages
  PROVE  /\ x.type # "RESPONSE" \/ Has(s, Finish) =>
              Clear(Append(s, x)) = Clear(s) /\ Behind(Append(s, x)) = Behind(s)
         /\ x.type = "RESPONSE" /\ ~Has(s, Finish) =>
              Cardinality(Clear(Append(s, x))) = Cardinality(Clear(s)) + 1
         /\ ~Has(s, RoiBegin) => Behind(s) = {} /\ (x # RoiBegin => Behind(Append(s, x)) = {})
         /\ x.type = "RESPONSE" /\ ~Has(s, Finish) /\ Has(s, RoiBegin) =>
              Cardinality(Behind(Append(s, x))) = Cardinality(Behind(s)) + 1
  <1> DEFINE t == Append(s, x)
             n == Len(s) + 1
  <1>1. /\ DOMAIN t = (DOMAIN s) \cup {n} /\ n \notin DOMAIN s
        /\ t[n] = x
        /\ \A i \in DOMAIN s : t[i] = s[i]
    BY AppendIndices
  <1>2. n \in Nat /\ \A i \in DOMAIN s : i \in Nat /\ i < n /\ ~(n < i)
    OBVIOUS
  <1>3. ~(n < n)
    BY <1>2
  <1>4. IsFiniteSet(Clear(s)) /\ IsFiniteSet(Behind(s))
    BY OnWayFinite
  <1> HIDE DEF t, n
  <1>5. \A i \in DOMAIN s : i \in Clear(t) <=> i \in Clear(s)
    BY <1>1, <1>2 DEF Clear
  <1>6. n \in Clear(t) <=> x.type = "RESPONSE" /\ ~Has(s, Finish)
    BY <1>1, <1>2, <1>3 DEF Clear, Has
  <1>7. \A i \in DOMAIN s : i \in Behind(t) <=> i \in Behind(s)
    BY <1>1, <1>2, <1>5 DEF Behind
  <1>8. n \in Behind(t) <=> n \in Clear(t) /\ Has(s, RoiBegin)
    BY <1>1, <1>2, <1>3 DEF Behind, Has
  <1>9. /\ Clear(s) \subseteq DOMAIN s /\ Behind(s) \subseteq DOMAIN s
        /\ Clear(t) \subseteq (DOMAIN s) \cup {n} /\ Behind(t) \subseteq (DOMAIN s) \cup {n}
    BY <1>1 DEF Clear, Behind
  <1>10. n \notin Clear(t) => Clear(t) = Clear(s) /\ Behind(t) = Behind(s)
    BY <1>5, <1>7, <1>8, <1>9, <1>1
  <1>11. n \in Clear(t) => Clear(t) = Clear(s) \cup {n} /\ n \notin Clear(s)
    BY <1>1, <1>5, <1>9
  <1>12. n \in Behind(t) => Behind(t) = Behind(s) \cup {n} /\ n \notin Behind(s)
    BY <1>1, <1>7, <1>9
  <1>13. n \in Clear(t) => Cardinality(Clear(t)) = Cardinality(Clear(s)) + 1
    BY <1>4, <1>11, FS_AddElement
  <1>14. n \in Behind(t) => Cardinality(Behind(t)) = Cardinality(Behind(s)) + 1
    BY <1>4, <1>12, FS_AddElement
  <1>15. ~Has(s, RoiBegin) => Behind(s) = {}
    BY DEF Behind, Has
  <1>16. ~Has(s, RoiBegin) => Behind(t) = {}
    BY <1>7, <1>8, <1>9, <1>15
  <1> QED
    BY <1>6, <1>8, <1>10, <1>13, <1>14, <1>15, <1>16 DEF t

\* A message that is read.
LEMMA OnWayTail ==
  ASSUME NEW s \in Seq(Messages), s # <<>>
  PROVE  /\ Head(s).type = "RESPONSE" =>
              /\ Cardinality(Clear(s)) = Cardinality(Clear(Tail(s))) + 1
              /\ Cardinality(Behind(s)) = Cardinality(Behind(Tail(s)))
         /\ Head(s) = RoiBegin => Cardinality(Behind(s)) = Cardinality(Clear(Tail(s)))
         /\ Head(s) = Finish => Clear(s) = {} /\ Behind(s) = {}
  <1> DEFINE t == Tail(s)
  <1>1. /\ t \in Seq(Messages) /\ Head(s) \in Messages
        /\ 1 \in DOMAIN s /\ s[1] = Head(s)
        /\ \A i \in DOMAIN t : i \in Nat /\ i # 0 /\ i + 1 \in DOMAIN s /\ t[i] = s[i+1]
        /\ \A i \in DOMAIN s : i # 1 => i - 1 \in DOMAIN t /\ t[i-1] = s[i]
        /\ \A i \in DOMAIN s : i \in Nat
    BY TailIndices
  <1>2. \A i \in DOMAIN s : i >= 1
    OBVIOUS
  <1>3. /\ IsFiniteSet(Clear(t)) /\ IsFiniteSet(Behind(t))
        /\ Cardinality(Clear(t)) \in Nat /\ Cardinality(Behind(t)) \in Nat
        /\ Clear(t) \in SUBSET Nat /\ Behind(t) \in SUBSET Nat
    BY <1>1, OnWayFinite
  <1> HIDE DEF t
  <1>4. RoiBegin.type # "RESPONSE" /\ Finish.type # "RESPONSE" /\ RoiBegin # Finish
    BY DEF RoiBegin, Finish
  <1>5. 0 \notin Clear(t) /\ 0 \notin Behind(t)
    BY <1>1 DEF Clear, Behind
  <1>6. ASSUME Head(s) # Finish, NEW i \in DOMAIN t
        PROVE  (i + 1) \in Clear(s) <=> i \in Clear(t)
    <2>1. (\A j \in DOMAIN s : j < i + 1 => s[j] # Finish)
            <=> (\A j \in DOMAIN t : j < i => t[j] # Finish)
      <3>1. ASSUME \A j \in DOMAIN s : j < i + 1 => s[j] # Finish, NEW j \in DOMAIN t, j < i
            PROVE  t[j] # Finish
        <4>1. j + 1 \in DOMAIN s /\ j + 1 < i + 1 /\ t[j] = s[j+1]
          BY <1>1, <3>1
        <4> QED
          BY <3>1, <4>1
      <3>2. ASSUME \A j \in DOMAIN t : j < i => t[j] # Finish, NEW j \in DOMAIN s, j < i + 1
            PROVE  s[j] # Finish
        <4>1. CASE j = 1
          BY <1>1, <1>6, <4>1
        <4>2. CASE j # 1
          <5>1. j - 1 \in DOMAIN t /\ t[j-1] = s[j] /\ i \in Nat /\ j \in Nat
            BY <1>1, <4>2
          <5>2. j - 1 < i
            BY <3>2, <5>1
          <5> QED
            BY <3>2, <5>1, <5>2
        <4> QED
          BY <4>1, <4>2
      <3> QED
        BY <3>1, <3>2
    <2>2. i + 1 \in DOMAIN s /\ t[i] = s[i+1]
      BY <1>1
    <2> QED
      BY <2>1, <2>2 DEF Clear
  <1>7. Head(s) # Finish => (1 \in Clear(s) <=> Head(s).type = "RESPONSE")
    BY <1>1, <1>2 DEF Clear
  <1>8. ASSUME Head(s) # Finish
        PROVE  Clear(s) = Shifted(Clear(t)) \cup (IF Head(s).type = "RESPONSE" THEN {1} ELSE {})
    <2>1. ASSUME NEW i \in Clear(s), i # 1 PROVE i \in Shifted(Clear(t))
      <3>1. i \in DOMAIN s /\ i - 1 \in DOMAIN t /\ i = (i - 1) + 1
        BY <1>1, <2>1 DEF Clear
      <3>2. i - 1 \in Clear(t)
        BY <1>6, <1>8, <2>1, <3>1
      <3> QED
        BY <3>1, <3>2 DEF Shifted
    <2>2. ASSUME NEW i \in Clear(t) PROVE i + 1 \in Clear(s)
      BY <1>6, <1>8, <2>2 DEF Clear
    <2> QED
      BY <1>7, <1>8, <2>1, <2>2 DEF Shifted
  <1>9. ASSUME Head(s) # Finish, NEW i \in DOMAIN t
        PROVE  (i + 1) \in Behind(s) <=> i \in Clear(t) /\ (Head(s) = RoiBegin \/ i \in Behind(t))
    <2>1. (\E j \in DOMAIN s : j < i + 1 /\ s[j] = RoiBegin)
            <=> Head(s) = RoiBegin \/ (\E j \in DOMAIN t : j < i /\ t[j] = RoiBegin)
      <3>1. ASSUME NEW j \in DOMAIN s, j < i + 1, s[j] = RoiBegin, Head(s) # RoiBegin
            PROVE  \E k \in DOMAIN t : k < i /\ t[k] = RoiBegin
        <4>1. j # 1
          BY <1>1, <3>1
        <4>2. j - 1 \in DOMAIN t /\ t[j-1] = s[j] /\ i \in Nat /\ j \in Nat
          BY <1>1, <4>1
        <4>3. j - 1 < i
          BY <3>1, <4>2
        <4> QED
          BY <3>1, <4>2, <4>3
      <3>2. ASSUME NEW j \in DOMAIN t, j < i, t[j] = RoiBegin
            PROVE  \E k \in DOMAIN s : k < i + 1 /\ s[k] = RoiBegin
        <4>1. j + 1 \in DOMAIN s /\ j + 1 < i + 1 /\ t[j] = s[j+1]
          BY <1>1, <3>2
        <4> QED
          BY <3>2, <4>1
      <3>3. Head(s) = RoiBegin => \E k \in DOMAIN s : k < i + 1 /\ s[k] = RoiBegin
        <4>1. 1 \in DOMAIN s /\ s[1] = Head(s) /\ 1 < i + 1
          BY <1>1
        <4> QED
          BY <4>1
      <3> QED
        BY <3>1, <3>2, <3>3
    <2> QED
      BY <1>6, <1>9, <2>1 DEF Behind
  <1>10. ASSUME Head(s) # Finish
         PROVE  Behind(s) = Shifted(IF Head(s) = RoiBegin THEN Clear(t) ELSE Behind(t))
    <2> DEFINE B == IF Head(s) = RoiBegin THEN Clear(t) ELSE Behind(t)
    <2>1. B \subseteq DOMAIN t /\ \A i \in DOMAIN t : i + 1 \in Behind(s) <=> i \in B
      BY <1>9, <1>10 DEF Behind, Clear
    <2>2. ASSUME NEW i \in Behind(s) PROVE i \in Shifted(B)
      <3>1. i # 1
        BY <1>1, <1>2 DEF Behind
      <3>2. i - 1 \in DOMAIN t /\ i = (i - 1) + 1
        BY <1>1, <3>1 DEF Behind, Clear
      <3>3. i - 1 \in B
        BY <2>1, <2>2, <3>2
      <3> QED
        BY <3>2, <3>3 DEF Shifted
    <2> HIDE DEF B
    <2>3. Behind(s) = Shifted(B)
      BY <2>1, <2>2 DEF Shifted
    <2> QED
      BY <2>3 DEF B
  <1>11. ASSUME Head(s).type = "RESPONSE"
         PROVE  /\ Cardinality(Clear(s)) = Cardinality(Clear(t)) + 1
                /\ Cardinality(Behind(s)) = Cardinality(Behind(t))
    <2>1. Head(s) # Finish /\ Head(s) # RoiBegin
      BY <1>4, <1>11
    <2>2. Clear(s) = Shifted(Clear(t)) \cup {1} /\ Behind(s) = Shifted(Behind(t))
      BY <1>8, <1>10, <1>11, <2>1
    <2>3. /\ Cardinality(Behind(s)) = Cardinality(Behind(t))
          /\ IsFiniteSet(Shifted(Clear(t))) /\ 1 \notin Shifted(Clear(t))
          /\ Cardinality(Shifted(Clear(t))) = Cardinality(Clear(t))
      BY <1>3, <1>5, <2>2, ShiftCounts
    <2> QED
      BY <2>2, <2>3, FS_AddElement
  <1>12. ASSUME Head(s) = RoiBegin PROVE Cardinality(Behind(s)) = Cardinality(Clear(t))
    BY <1>3, <1>4, <1>10, <1>12, ShiftCounts
  <1>13. ASSUME Head(s) = Finish PROVE Clear(s) = {} /\ Behind(s) = {}
    <2>1. ASSUME NEW i \in Clear(s) PROVE FALSE
      <3>1. i \in DOMAIN s /\ s[i].type = "RESPONSE" /\ \A j \in DOMAIN s : j < i => s[j] # Finish
        BY DEF Clear
      <3>2. i # 1
        BY <1>1, <1>4, <1>13, <3>1
      <3>3. 1 < i
        BY <1>1, <1>2, <3>1, <3>2
      <3> QED
        BY <1>1, <1>13, <3>1, <3>3
    <2> QED
      BY <2>1 DEF Behind
  <1> QED
    BY <1>11, <1>12, <1>13 DEF t

\* A message that is lost behind a FINISH.
LEMMA OnWayFront ==
  ASSUME NEW s \in Seq(Messages), s # <<>>, Has(Front(s), Finish)
  PROVE  Clear(Front(s)) = Clear(s) /\ Behind(Front(s)) = Behind(s)
  <1> DEFINE t == Front(s)
             n == Len(s)
  <1>1. /\ DOMAIN t = (DOMAIN s) \ {n} /\ \A i \in DOMAIN t : t[i] = s[i]
    BY FrontIndices
  <1>2. \A i \in DOMAIN s : i \in Nat /\ ~(n < i)
    OBVIOUS
  <1>3. \A i \in DOMAIN t : i < n
    BY <1>1, <1>2
  <1> HIDE DEF t, n
  <1>4. PICK k \in DOMAIN t : t[k] = Finish
    BY DEF Has, t
  <1>5. n \notin Clear(s)
    BY <1>1, <1>3, <1>4 DEF Clear
  <1>6. \A i \in DOMAIN t : i \in Clear(s) <=> i \in Clear(t)
    BY <1>1, <1>2 DEF Clear
  <1>7. Clear(t) = Clear(s)
    BY <1>1, <1>5, <1>6 DEF Clear
  <1>8. \A i \in Clear(t) : i \in Behind(s) <=> i \in Behind(t)
    BY <1>1, <1>2, <1>7 DEF Behind, Clear
  <1>9. Behind(t) = Behind(s)
    BY <1>7, <1>8 DEF Behind
  <1> QED
    BY <1>7, <1>9 DEF t
-----------------------------------------------------------------------------
(* The latencies of all clients together.                                  *)

\* A number for each client, as pairs.
Pairs(t) == UNION {{c} \X (1..t[c]) : c \in Clients}

\* Which pairs these are.
LEMMA PairsAre ==
  ASSUME NEW t
  PROVE  \A p : p \in Pairs(t) <=> \E c \in Clients : \E k \in 1..t[c] : p = <<c, k>>
  BY DEF Pairs

\* They can be counted.
LEMMA PairsFinite ==
  ASSUME NEW t \in [Clients -> Nat]
  PROVE  IsFiniteSet(Pairs(t)) /\ Cardinality(Pairs(t)) \in Nat
  <1> DEFINE S == {{c} \X (1..t[c]) : c \in Clients}
             f == [c \in Clients |-> {c} \X (1..t[c])]
  <1>1. IsFiniteSet(Clients)
    BY ServerAssumption, FS_Interval DEF Clients, ServerAssumption
  <1>2. f \in [Clients -> S] /\ \A T \in S : \E c \in Clients : f[c] = T
    OBVIOUS
  <1>3. \A T \in S : IsFiniteSet(T)
    <2> SUFFICES ASSUME NEW c \in Clients PROVE IsFiniteSet({c} \X (1..t[c]))
      OBVIOUS
    <2>1. 1 \in Int /\ t[c] \in Int
      OBVIOUS
    <2>2. IsFiniteSet(1..t[c])
      BY <2>1, FS_Interval
    <2>3. IsFiniteSet({c})
      BY FS_Singleton
    <2> QED
      BY <2>2, <2>3, FS_Product
  <1>4. Pairs(t) = UNION S
    BY DEF Pairs
  <1> HIDE DEF S, f
  <1>5. f \in Surjection(Clients, S)
    BY <1>2 DEF Surjection
  <1>6. IsFiniteSet(S)
    BY <1>1, <1>5, FS_Surjection
  <1>7. IsFiniteSet(UNION S)
    BY <1>3, <1>6, FS_UNION
  <1> QED
    BY <1>4, <1>7, FS_CardinalityType

\* One more for one client is one more in all.
LEMMA PairsGrow ==
  ASSUME NEW t \in [Clients -> Nat], NEW u \in [Clients -> Nat], NEW c \in Clients,
         u[c] = t[c] + 1, \A d \in Clients : d # c => u[d] = t[d]
  PROVE  Cardinality(Pairs(u)) = Cardinality(Pairs(t)) + 1
  <1> DEFINE new == <<c, t[c] + 1>>
  <1>0. t[c] \in Nat
    OBVIOUS
  <1>1. new \notin Pairs(t)
    <2> SUFFICES ASSUME NEW d \in Clients, NEW k \in 1..t[d], new = <<d, k>> PROVE FALSE
      BY PairsAre
    <2>1. d = c /\ k = t[c] + 1
      OBVIOUS
    <2> QED
      BY <1>0, <2>1
  <1>2. ASSUME NEW p \in Pairs(u) PROVE p \in Pairs(t) \/ p = new
    <2>0. PICK d \in Clients : \E i \in 1..u[d] : p = <<d, i>>
      BY PairsAre
    <2>1. PICK k \in 1..u[d] : p = <<d, k>>
      BY <2>0
    <2>2. CASE d # c
      <3>1. k \in 1..t[d]
        BY <2>1, <2>2
      <3> QED
        BY <2>1, <3>1, PairsAre
    <2>3. CASE d = c
      <3>1. k \in 1..t[c] \/ k = t[c] + 1
        BY <1>0, <2>1, <2>3
      <3> QED
        BY <2>1, <2>3, <3>1, PairsAre
    <2> QED
      BY <2>2, <2>3
  <1>3. ASSUME NEW p \in Pairs(t) PROVE p \in Pairs(u)
    <2>0. PICK d \in Clients : \E i \in 1..t[d] : p = <<d, i>>
      BY PairsAre
    <2>1. PICK k \in 1..t[d] : p = <<d, k>>
      BY <2>0
    <2>2. k \in 1..u[d]
      BY <1>0, <2>1
    <2> QED
      BY <2>1, <2>2, PairsAre
  <1>4. new \in Pairs(u)
    <2>1. t[c] + 1 \in 1..u[c]
      BY <1>0
    <2> QED
      BY <2>1, PairsAre
  <1> HIDE DEF new
  <1>5. Pairs(u) = Pairs(t) \cup {new}
    BY <1>2, <1>3, <1>4
  <1> QED
    BY <1>1, <1>5, PairsFinite, FS_AddElement
-----------------------------------------------------------------------------
(* The region of interest.                                                 *)

\* What a client has recorded or will record, if it stays until its FINISH.
OnWay(c) ==
  IF ~Connected(c) THEN {} ELSE IF phase[c] = "ROI" THEN Clear(s2c[c]) ELSE Behind(s2c[c])
Expected(c) == samples[c] + Cardinality(OnWay(c))

\* Every client is there, or has got FINISH. As long as this holds of all, they
\* will record the responses of the region of interest, no more and no less.
Whole ==
  NoneKilled /\ \A c \in Clients : GotFinish(c) \/ (Connected(c) /\ server = "up")
WindowInv ==
  MaxReqs > 0 /\ Whole => Cardinality(Pairs([c \in Clients |-> Expected(c)])) = InWindow

\* What a client is expected to record is a number.
LEMMA ExpectedType ==
  ASSUME TypeOK, NEW c \in Clients
  PROVE  /\ Expected(c) \in Nat /\ s2c[c] \in Seq(Messages) /\ samples[c] \in Nat
         /\ Cardinality(OnWay(c)) \in Nat
  <1>1. s2c[c] \in Seq(Messages) /\ samples[c] \in Nat
    BY DEF TypeOK, StreamTypes, ClientTypes
  <1>2. Cardinality(OnWay(c)) \in Nat
    BY <1>1, OnWayFinite, FS_EmptySet DEF OnWay
  <1> QED
    BY <1>1, <1>2 DEF Expected

\* Whole was true before.
LEMMA WholeBefore ==
  ASSUME StreamInv, [Next]_vars, Whole'
  PROVE  Whole
  <1>0. TypeOK /\ LocksExclusive /\ ServedInv /\ LoopInv /\ BcastInv /\ KnownInv
    BY DEF StreamInv, ServiceInv, IndInv
  <1>1. NoneKilled
    BY <1>0, NoneKilledBefore DEF Whole
  <1>2. ASSUME NEW c \in Clients PROVE GotFinish(c) \/ (Connected(c) /\ server = "up")
    <2>1. CASE Connected(c)' /\ server' = "up"
      BY <1>0, <2>1, StaysGone, ServerStaysDown
    <2>2. CASE GotFinish(c)'
      <3>1. ASSUME NEW w \in Workers, GetsNotice(w, c) PROVE Connected(c) /\ server = "up"
        BY <3>1, ServerStaysDown DEF GetsNotice
      <3> QED
        BY <1>0, <2>2, <3>1, FinishComes
    <2> QED
      BY <2>1, <2>2 DEF Whole
  <1> QED
    BY <1>1, <1>2 DEF Whole

\* A response in the region of interest is one more for its client.
LEMMA ExpectedGrows ==
  ASSUME TypeOK, NEW w \in Workers, NEW c \in Clients, GetsResponse(w, c), GotRoi(c),
         ~HasFinish(c)
  PROVE  Expected(c)' = Expected(c) + 1
  <1> DEFINE x == RespMsg(slot[tid[w]].id)
  <1>1. x \in Messages /\ x.type = "RESPONSE"
    BY ServedAnswered DEF GetsResponse, RespMsg, Messages
  <1>2. /\ s2c'[c] = Append(s2c[c], x) /\ UNCHANGED <<phase[c], samples[c]>> /\ Connected(c)
        /\ Connected(c)'
    BY DEF GetsResponse, Connected
  <1>3. s2c[c] \in Seq(Messages) /\ samples[c] \in Nat /\ Cardinality(OnWay(c)) \in Nat
    BY ExpectedType
  <1> HIDE DEF x
  <1>4. Cardinality(OnWay(c)') = Cardinality(OnWay(c)) + 1
    <2>1. CASE phase[c] = "ROI"
      <3>1. OnWay(c) = Clear(s2c[c]) /\ OnWay(c)' = Clear(Append(s2c[c], x))
        BY <1>2, <2>1 DEF OnWay
      <3> QED
        BY <1>1, <1>3, <3>1, OnWayAppend DEF HasFinish
    <2>2. CASE phase[c] # "ROI"
      <3>1. OnWay(c) = Behind(s2c[c]) /\ OnWay(c)' = Behind(Append(s2c[c], x))
        BY <1>2, <2>2 DEF OnWay
      <3>2. Has(s2c[c], RoiBegin)
        BY <2>2 DEF GotRoi
      <3> QED
        BY <1>1, <1>3, <3>1, <3>2, OnWayAppend DEF HasFinish
    <2> QED
      BY <2>1, <2>2
  <1>5. Expected(c)' = samples[c] + Cardinality(OnWay(c)')
    BY <1>2 DEF Expected
  <1> QED
    BY <1>3, <1>4, <1>5 DEF Expected

\* Nothing else is one more or one less.
LEMMA ExpectedKept ==
  ASSUME StreamInv, AllThere, RoiInv, [Next]_vars, Whole', NEW c \in Clients,
         \A w \in Workers : GetsResponse(w, c) => ~GotRoi(c) \/ HasFinish(c)
  PROVE  Expected(c)' = Expected(c)
  <1>0. TypeOK /\ LocksExclusive /\ ServedInv /\ LoopInv /\ BcastInv /\ KnownInv
    BY DEF StreamInv, ServiceInv, IndInv
  <1>1. s2c[c] \in Seq(Messages) /\ samples[c] \in Nat /\ Cardinality(OnWay(c)) \in Nat
    BY <1>0, ExpectedType
  <1>2. ClientRoi(c) /\ ClientRoi(c)'
    BY <1>0, NoneKilledBefore, ClientRoiStep DEF Whole, RoiInv
  <1>3. CASE Quiet(c)
    BY <1>3 DEF Quiet, Expected, OnWay, Connected
  <1>4. ASSUME NEW x \in Messages, s2c'[c] = Append(s2c[c], x), UNCHANGED <<phase[c], samples[c]>>,
               x # RoiBegin \/ x.type # "RESPONSE",
               x.type = "RESPONSE" => ~GotRoi(c) \/ HasFinish(c)
        PROVE  Expected(c)' = Expected(c)
    <2>1. x.type # "RESPONSE" \/ Has(s2c[c], Finish) =>
             Clear(s2c'[c]) = Clear(s2c[c]) /\ Behind(s2c'[c]) = Behind(s2c[c])
      BY <1>1, <1>4, OnWayAppend
    <2>2. x.type = "RESPONSE" /\ ~Has(s2c[c], RoiBegin) => Behind(s2c'[c]) = Behind(s2c[c])
      BY <1>1, <1>4, OnWayAppend DEF RoiBegin
    <2>3. OnWay(c)' = OnWay(c)
      BY <1>4, <2>1, <2>2 DEF OnWay, GotRoi, HasFinish, Connected
    <2> QED
      BY <1>4, <2>3 DEF Expected
  <1>5. ASSUME NEW w \in Workers, WorkerStep(w) PROVE Expected(c)' = Expected(c)
    <2>1. CASE GetsResponse(w, c)
      <3> DEFINE x == RespMsg(slot[tid[w]].id)
      <3>1. x \in Messages /\ x # RoiBegin
        BY <1>0, <2>1, ServedAnswered DEF GetsResponse, RespMsg, Messages, RoiBegin
      <3>2. s2c'[c] = Append(s2c[c], x) /\ UNCHANGED <<phase[c], samples[c]>>
        BY <2>1 DEF GetsResponse
      <3> HIDE DEF x
      <3> QED
        BY <1>4, <2>1, <3>1, <3>2
    <2>2. CASE GetsNotice(w, c)
      <3>1. bcast.msg \in Messages /\ bcast.msg.type # "RESPONSE"
        BY <1>0, <2>2, NoticeGoes DEF GetsNotice
      <3>2. s2c'[c] = Append(s2c[c], bcast.msg) /\ UNCHANGED <<phase[c], samples[c]>>
        BY <2>2 DEF GetsNotice
      <3> QED
        BY <1>4, <3>1, <3>2
    <2> QED
      BY <1>0, <1>3, <1>5, <2>1, <2>2, WorkerCases
  <1>6. ASSUME NEW d \in Clients,
               ClientSend(d) \/ ClientReceive(d) \/ ClientKilled(d) \/ ResetLoses(d)
        PROVE  Expected(c)' = Expected(c)
    <2>1. CASE TakesResponse(c)
      <3>1. /\ s2c'[c] = Tail(s2c[c]) /\ s2c[c] # <<>> /\ Head(s2c[c]).type = "RESPONSE"
            /\ Connected(c) /\ Connected(c)' /\ phase'[c] = phase[c]
            /\ samples'[c] = IF phase[c] = "ROI" THEN samples[c] + 1 ELSE samples[c]
        BY <2>1 DEF TakesResponse, Reads, Connected
      <3>2. /\ Cardinality(Clear(s2c[c])) = Cardinality(Clear(s2c'[c])) + 1
            /\ Cardinality(Behind(s2c[c])) = Cardinality(Behind(s2c'[c]))
        BY <1>1, <3>1, OnWayTail
      <3>3. Cardinality(Clear(s2c'[c])) \in Nat
        <4>1. s2c'[c] \in Seq(Messages)
          BY <1>1, <3>1, TailIndices
        <4> QED
          BY <4>1, OnWayFinite
      <3>4. CASE phase[c] = "ROI"
        <4>1. Expected(c) = samples[c] + Cardinality(Clear(s2c[c]))
          BY <3>1, <3>4 DEF Expected, OnWay
        <4>2. Expected(c)' = (samples[c] + 1) + Cardinality(Clear(s2c'[c]))
          BY <3>1, <3>4 DEF Expected, OnWay
        <4> QED
          BY <1>1, <3>2, <3>3, <4>1, <4>2
      <3>5. CASE phase[c] # "ROI"
        BY <3>1, <3>2, <3>5 DEF Expected, OnWay
      <3> QED
        BY <3>4, <3>5
    <2>2. CASE EntersRoi(c)
      <3>1. /\ s2c'[c] = Tail(s2c[c]) /\ s2c[c] # <<>> /\ Head(s2c[c]) = RoiBegin
            /\ Connected(c) /\ Connected(c)' /\ phase[c] = "WARMUP" /\ phase'[c] = "ROI"
            /\ samples'[c] = 0
        BY <1>0, <2>2, HeadKnown DEF EntersRoi, Reads, Connected
      <3>2. Cardinality(Behind(s2c[c])) = Cardinality(Clear(s2c'[c]))
        BY <1>1, <3>1, OnWayTail
      <3>3. samples[c] = 0
        BY <1>2, <3>1 DEF ClientRoi
      <3> QED
        BY <3>1, <3>2, <3>3 DEF Expected, OnWay
    <2>3. CASE Aborts(c)
      BY <1>2, <2>3 DEF Aborts, ClientRoi
    <2>4. CASE Finishes(c)
      <3>1. /\ Connected(c) /\ ~Connected(c)' /\ samples'[c] = samples[c]
            /\ s2c[c] # <<>> /\ Head(s2c[c]) = Finish
        BY <1>0, <2>4, HeadKnown DEF Finishes, Reads, Connected
      <3>2. Clear(s2c[c]) = {} /\ Behind(s2c[c]) = {}
        BY <1>1, <3>1, OnWayTail
      <3> QED
        BY <3>1, <3>2 DEF Expected, OnWay
    <2>5. CASE Dies(c)
      BY <2>5 DEF Dies, Whole, NoneKilled
    <2>6. CASE LosesLast(c)
      <3>1. /\ server # "up" /\ s2c[c] # <<>> /\ s2c'[c] = Front(s2c[c])
            /\ UNCHANGED <<phase[c], samples[c]>> /\ (Connected(c)' <=> Connected(c))
        BY <2>6 DEF LosesLast, Connected
      <3>2. server' # "up"
        BY <3>1, ServerStaysDown
      <3>3. GotFinish(c)'
        BY <3>2 DEF Whole
      <3>4. CASE ~Connected(c)
        BY <3>1, <3>4 DEF Expected, OnWay
      <3>5. CASE Connected(c)
        <4>1. phase'[c] # "FINISHED"
          BY <3>1, <3>5 DEF Connected
        <4>2. Has(Front(s2c[c]), Finish)
          BY <3>1, <3>3, <4>1 DEF GotFinish, HasFinish
        <4>3. Clear(s2c'[c]) = Clear(s2c[c]) /\ Behind(s2c'[c]) = Behind(s2c[c])
          BY <1>1, <3>1, <4>2, OnWayFront
        <4> QED
          BY <3>1, <3>5, <4>3 DEF Expected, OnWay
      <3> QED
        BY <3>4, <3>5
    <2> QED
      BY <1>0, <1>3, <1>6, <2>1, <2>2, <2>3, <2>4, <2>5, <2>6, ClientCases
  <1>7. CASE UNCHANGED vars
    <2>1. Quiet(c)
      BY <1>7 DEF vars, clientVars, Quiet
    <2> QED
      BY <1>3, <2>1
  <1> QED
    BY <1>5, <1>6, <1>7 DEF Next, Stopped

\* How the number of responses in the region of interest goes on.
LEMMA WindowGrows ==
  ASSUME NEW f \in Nat, finishedReqs = f, NEW g \in Nat, finishedReqs' = g, g = f + 1,
         MaxReqs > 0
  PROVE  /\ Warm /\ ~Counted => InWindow' = InWindow + 1
         /\ ~Warm \/ Counted => InWindow' = InWindow
         /\ InWindow \in Nat
  <1>1. WarmupReqs \in Nat /\ MaxReqs \in Nat
    BY ServerAssumption DEF ServerAssumption
  <1>2. InWindow' = IF WarmupReqs = 0 \/ g < WarmupReqs THEN 0
                    ELSE IF g < WarmupReqs + MaxReqs THEN g - WarmupReqs ELSE MaxReqs
    BY DEF InWindow
  <1>3. InWindow = IF WarmupReqs = 0 \/ f < WarmupReqs THEN 0
                   ELSE IF f < WarmupReqs + MaxReqs THEN f - WarmupReqs ELSE MaxReqs
    BY DEF InWindow
  <1>4. (Warm <=> WarmupReqs > 0 /\ f >= WarmupReqs) /\ (Counted <=> f >= WarmupReqs + MaxReqs)
    BY DEF Warm, Counted
  <1>5. CASE Warm /\ ~Counted
    BY <1>1, <1>2, <1>3, <1>4, <1>5
  <1>6. CASE ~Warm
    BY <1>1, <1>2, <1>3, <1>4, <1>6
  <1>7. CASE Counted
    BY <1>1, <1>2, <1>3, <1>4, <1>7
  <1>8. InWindow \in Nat
    BY <1>1, <1>3
  <1> QED
    BY <1>5, <1>6, <1>7, <1>8

\* A response in the region of interest goes to a client that has got ROI_BEGIN and not
\* FINISH; the others go to clients of whom the opposite is true, or to nobody.
LEMMA ResponseCounts ==
  ASSUME StreamInv, RoiInv, FinishInv, NoneKilled, server = "up", MaxReqs > 0,
         NEW w \in Workers, Respond(w), NEW c, c = slot[tid[w]].fd
  PROVE  /\ c \in Clients
         /\ Warm /\ ~Counted => GetsResponse(w, c) /\ GotRoi(c) /\ ~HasFinish(c)
         /\ (~Warm \/ Counted) /\ Connected(c) => ~GotRoi(c) \/ HasFinish(c)
         /\ \A v \in Workers : \A d : GetsResponse(v, d) => v = w /\ d = c
  <1>0. /\ TypeOK /\ LocksExclusive /\ ServedInv /\ ReturnInv /\ BcastInv
        /\ s2c \in [Clients -> Seq(Messages)] /\ pc[w] = "respond"
    BY DEF StreamInv, ServiceInv, IndInv, TypeOK, StreamTypes, Respond
  <1>1. c \in Clients
    BY <1>0, ResponseGoes
  <1>2. bcast = Idle /\ bcast.msg # RoiBegin
    BY <1>0 DEF BcastInv, LocksExclusive, Idle, Finish, RoiBegin
  <1>3. ASSUME Warm, ~Counted PROVE GetsResponse(w, c) /\ GotRoi(c) /\ ~HasFinish(c)
    <2>1. ~Ending
      BY <1>0, <1>3, MainNotThrough DEF Ending
    <2>2. Connected(c) /\ ~HasFinish(c)
      BY <1>0, <1>1, <2>1, AllConnected
    <2>3. GotRoi(c)
      BY <1>1, <1>2, <1>3, <2>2 DEF RoiInv, RoiAt
    <2>4. Deliver(c, RespMsg(slot[tid[w]].id)) /\ UNCHANGED clientVars
      BY DEF Respond
    <2>5. GetsResponse(w, c)
      BY <1>0, <1>1, <2>2, <2>4 DEF Deliver, GetsResponse, clientVars
    <2> QED
      BY <2>2, <2>3, <2>5
  <1>4. ~Warm => ~GotRoi(c)
    BY <1>1 DEF RoiInv, RoiAt
  <1>5. ASSUME Counted, Connected(c) PROVE HasFinish(c)
    <2>1. ~Due(c)
      BY <1>2 DEF Due, Idle
    <2> QED
      BY <1>1, <1>5, <2>1 DEF FinishInv
  <1>6. ASSUME NEW v \in Workers, NEW d, GetsResponse(v, d) PROVE v = w /\ d = c
    <2>1. pc[v] = "respond"
      BY <1>6 DEF GetsResponse, Respond
    <2>2. v = w
      BY <1>0, <2>1 DEF LocksExclusive
    <2> QED
      BY <1>6, <2>2 DEF GetsResponse
  <1> QED
    BY <1>1, <1>3, <1>4, <1>5, <1>6

\* Every step keeps the count of what the clients will have recorded.
LEMMA WindowStep ==
  ASSUME StreamInv, AllThere, RoiInv, FinishInv, WindowInv, [Next]_vars
  PROVE  WindowInv'
  <1> SUFFICES ASSUME MaxReqs > 0, Whole'
               PROVE  Cardinality(Pairs([c \in Clients |-> Expected(c)'])) = InWindow'
    BY DEF WindowInv
  <1> DEFINE t == [c \in Clients |-> Expected(c)]
             u == [c \in Clients |-> Expected(c)']
  <1>0. /\ TypeOK /\ LocksExclusive /\ ServedInv /\ ReturnInv /\ LoopInv /\ BcastInv
        /\ finishedReqs \in Nat
    BY DEF StreamInv, ServiceInv, IndInv, TypeOK, RequestTypes
  <1>1. Whole /\ NoneKilled
    BY WholeBefore DEF Whole
  <1>2. Cardinality(Pairs(t)) = InWindow
    BY <1>1 DEF WindowInv
  <1>3. t \in [Clients -> Nat]
    BY <1>0, ExpectedType
  <1>4. ASSUME \A c \in Clients : Expected(c)' = Expected(c), InWindow' = InWindow
        PROVE  Cardinality(Pairs(u)) = InWindow'
    BY <1>2, <1>4
  <1>5. ASSUME NEW w \in Workers, Respond(w), server = "up"
        PROVE  Cardinality(Pairs(u)) = InWindow'
    <2>0. PICK c \in Clients : c = slot[tid[w]].fd
      BY <1>0, <1>5, ResponseGoes
    <2>1. /\ Warm /\ ~Counted => GetsResponse(w, c) /\ GotRoi(c) /\ ~HasFinish(c)
          /\ (~Warm \/ Counted) /\ Connected(c) => ~GotRoi(c) \/ HasFinish(c)
          /\ \A v \in Workers : \A d : GetsResponse(v, d) => v = w /\ d = c
      BY <1>1, <1>5, <2>0, ResponseCounts
    <2>2. /\ Warm /\ ~Counted => InWindow' = InWindow + 1
          /\ ~Warm \/ Counted => InWindow' = InWindow
      <3>1. finishedReqs' = finishedReqs + 1
        BY <1>5 DEF Respond
      <3> QED
        BY <1>0, <3>1, WindowGrows
    <2>3. CASE Warm /\ ~Counted
      <3>1. Expected(c)' = Expected(c) + 1
        BY <1>0, <2>1, <2>3, ExpectedGrows
      <3>2. ASSUME NEW d \in Clients, d # c PROVE Expected(d)' = Expected(d)
        BY <2>1, <3>2, ExpectedKept
      <3>3. u[c] = t[c] + 1 /\ \A d \in Clients : d # c => u[d] = t[d]
        BY <2>1, <3>1, <3>2
      <3>4. u \in [Clients -> Nat]
        <4> SUFFICES ASSUME NEW d \in Clients PROVE Expected(d)' \in Nat
          OBVIOUS
        <4>1. Expected(d) \in Nat
          BY <1>0, ExpectedType
        <4>2. Expected(d)' = Expected(d) \/ Expected(d)' = Expected(d) + 1
          BY <3>1, <3>2
        <4> QED
          BY <4>1, <4>2
      <3> HIDE DEF t, u
      <3>5. Cardinality(Pairs(u)) = Cardinality(Pairs(t)) + 1
        BY <1>3, <2>1, <3>3, <3>4, PairsGrow
      <3> QED
        BY <1>2, <2>2, <2>3, <3>5
    <2>4. CASE ~Warm \/ Counted
      <3>1. \A v \in Workers, d \in Clients : GetsResponse(v, d) => ~GotRoi(d) \/ HasFinish(d)
        BY <2>1, <2>4 DEF GetsResponse
      <3>2. \A d \in Clients : Expected(d)' = Expected(d)
        BY <3>1, ExpectedKept
      <3> QED
        BY <1>4, <2>2, <2>4, <3>2
    <2> QED
      BY <2>3, <2>4
  <1>6. ASSUME UNCHANGED finishedReqs PROVE Cardinality(Pairs(u)) = InWindow'
    <2>1. \A v \in Workers : \A d : ~GetsResponse(v, d)
      <3> SUFFICES ASSUME NEW v \in Workers, Respond(v) PROVE FALSE
        BY DEF GetsResponse
      <3>1. finishedReqs' = finishedReqs + 1
        BY DEF Respond
      <3> QED
        BY <1>0, <1>6, <3>1
    <2>2. \A d \in Clients : Expected(d)' = Expected(d)
      BY <2>1, ExpectedKept
    <2>3. InWindow' = InWindow
      BY <1>6 DEF InWindow
    <2> QED
      BY <1>4, <2>2, <2>3
  <1>7. ASSUME NEW w \in Workers, WorkerStep(w), ~Respond(w) PROVE UNCHANGED finishedReqs
    BY <1>7 DEF WorkerStep, Arrive, ThreadStart, CheckQuota, CountRequest, LockRecv,
       RecvRequest, RecvEof, Shrink, RecvTruncated, AllClientsGone, LockSend,
       BroadcastSend, BroadcastEnd, JoinAndFinish, MainReturns, countVars
  <1>8. UNCHANGED serverVars => UNCHANGED finishedReqs
    BY DEF serverVars, countVars
  <1>9. (\E w \in Workers : Respond(w) /\ server = "up") \/ UNCHANGED finishedReqs
    BY <1>7, <1>8, ClientStepsServer DEF Next, Stopped, vars, WorkerStep
  <1> QED
    BY <1>5, <1>6, <1>9

\* While no erase can pass a client over, the clients record what they should.
LEMMA WindowInvHolds == NumClients <= 2 => (Spec => [](TypeOK /\ WindowInv))
  <1> SUFFICES ASSUME NumClients <= 2 PROVE Spec => [](TypeOK /\ WindowInv)
    OBVIOUS
  <1>1. ASSUME Init PROVE WindowInv
    <2>1. /\ InWindow = 0 /\ \A c \in Clients : samples[c] = 0 /\ s2c[c] = <<>>
      <3>1. finishedReqs = 0 /\ WarmupReqs \in Nat /\ MaxReqs \in Nat
        BY <1>1, ServerAssumption DEF Init, ServerAssumption
      <3>2. InWindow = 0
        BY <3>1 DEF InWindow
      <3> QED
        BY <1>1, <3>2 DEF Init
    <2>2. ASSUME NEW c \in Clients PROVE Expected(c) = 0
      <3>1. OnWay(c) = {}
        BY <2>1 DEF OnWay, Clear, Behind
      <3> QED
        BY <2>1, <3>1, FS_EmptySet DEF Expected
    <2>3. Pairs([c \in Clients |-> Expected(c)]) = {}
      BY <2>2 DEF Pairs
    <2> QED
      BY <2>1, <2>3, FS_EmptySet DEF WindowInv
  <1>2. ASSUME StreamInv, AllThere, RoiInv, FinishInv, WindowInv, [Next]_vars PROVE WindowInv'
    BY <1>2, WindowStep
  <1>3. StreamInv => TypeOK
    BY DEF StreamInv, ServiceInv, IndInv
  <1> QED
    BY <1>1, <1>2, <1>3, RoiInvHolds, FinishInvHolds, PTL DEF Spec

\* Once all have finished nothing is on the way any more.
LEMMA WindowImplies == TypeOK /\ WindowInv => WindowExact
  <1> SUFFICES ASSUME TypeOK, WindowInv, MaxReqs > 0, \A c \in Clients : phase[c] = "FINISHED"
               PROVE  Cardinality(Latencies) = InWindow
    BY DEF WindowExact
  <1>1. Whole
    BY DEF Whole, NoneKilled, GotFinish
  <1>2. ASSUME NEW c \in Clients PROVE Expected(c) = samples[c]
    <2>1. OnWay(c) = {} /\ samples[c] \in Nat
      BY DEF OnWay, Connected, TypeOK, ClientTypes
    <2> QED
      BY <2>1, FS_EmptySet DEF Expected
  <1>3. Pairs([c \in Clients |-> Expected(c)]) = Latencies
    BY <1>2 DEF Pairs, Latencies
  <1> QED
    BY <1>1, <1>3 DEF WindowInv

\* With up to two clients, when all have finished by the count they have recorded the
\* latencies of the MaxReqs responses behind the warm-up, no more and no less.
THEOREM WindowIsExactTwo == NumClients <= 2 => (Spec => []WindowExact)
  <1> SUFFICES ASSUME NumClients <= 2 PROVE Spec => []WindowExact
    OBVIOUS
  <1> QED
    BY WindowImplies, WindowInvHolds, PTL
=============================================================================
