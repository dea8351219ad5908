--------------------------- MODULE LoadClientProofs ---------------------------
(***************************************************************************)
(* Proofs about LoadClient: the threads of a client start together, no     *)
(* assertion of the client fails, and what it records is the window of the *)
(* measurement, for any number of threads and of requests.                 *)
(***************************************************************************)
EXTENDS LoadClient, FiniteSetTheorems, SequenceTheorems, TLAPS

\* The types that a step keeps by itself.  The latencies are dumped as the process ends.
Types ==
  /\ process \in {"up", "killed", "aborted", "exit 0", "returned"}
  /\ nthreads \in ThreadCounts
  /\ status \in {"INIT", "WARMUP", "ROI"} /\ dist \in BOOLEAN
  /\ barrier \subseteq Senders
  /\ startedReqs \in 0..MaxStarted /\ inFlightReqs \subseteq Requests
  /\ samples \subseteq Requests /\ lats \subseteq samples
  /\ process # "exit 0" => lats = {}
  /\ req \in [Senders -> Requests] /\ resp \in [Receivers -> Message]
  /\ recvLock \in Receivers \cup {NoThread}
  /\ conn \in {"open", "closed", "answered", "reset", "broken"}
  /\ wire \in Seq(Message) /\ pending \subseteq Requests
  /\ finishedReqs \in Nat /\ others \in 0..MaxOthers
  /\ ordinal \in [Requests -> Nat]

\* The threads that main has created, and what they run.
ActiveSenders == {s \in Senders : pc[s] # "none"}
ActiveReceivers == {r \in Receivers : pc[r] # "none"}
SenderPcs == {"start", "wait1", "setup", "wait2", "generate", "send", "returned", "none"}
ReceiverPcs == {"recv", "read", "apply", "returned", "none"}
ThreadsInv ==
  /\ pc \in [Senders \cup Receivers -> SenderPcs \cup ReceiverPcs]
  /\ \A s \in Senders : pc[s] \in SenderPcs
  /\ \A r \in Receivers : pc[r] \in ReceiverPcs
  /\ Cardinality(ActiveSenders) = nthreads /\ Cardinality(ActiveReceivers) = nthreads
  /\ \A r \in Receivers : resp[r] # Nothing <=> pc[r] = "apply"

\* The two rounds of the start-up barrier: the senders gather in a round until they are
\* all there, then leave it one by one; the first is over before the second begins.
At(p) == {s \in Senders : pc[s] = p}
BarrierInv ==
  /\ dist <=> status # "INIT"
  /\ ~dist =>
       /\ startedReqs = 0 /\ \A s \in ActiveSenders : pc[s] \in {"start", "wait1", "setup"}
       /\ \/ barrier = At("wait1") /\ At("setup") = {} /\ barrier # ActiveSenders
          \/ barrier = {} /\ At("start") = {}
  /\ dist =>
       /\ At("wait1") = {}
       /\ \/ /\ barrier = At("wait2") /\ startedReqs = 0 /\ barrier # ActiveSenders
             /\ ActiveSenders = At("setup") \cup At("wait2")
          \/ barrier = {} /\ At("setup") = {}

\* A request is answered at most once, after it was sent; the server's count is that of
\* the answers.
Answered == {id \in Requests : ordinal[id] > 0}
CountInv ==
  /\ finishedReqs = others + Cardinality(Answered)
  /\ Answered \cup pending \subseteq 0..(startedReqs - 1)
  /\ Answered \cap pending = {} /\ pending \subseteq inFlightReqs
  /\ \A id \in Requests : ordinal[id] <= finishedReqs
  /\ conn = "open" =>
       /\ \A s \in At("send") :
            /\ req[s] \in 0..(startedReqs - 1) /\ req[s] \in inFlightReqs
            /\ req[s] \notin pending \cup Answered
       /\ \A s, u \in At("send") : req[s] = req[u] => s = u

\* Every message the server has sent and no receiver has applied is there once, and a
\* receiver that applies it finds what it asserts.
RoiBegin == [type |-> "ROI_BEGIN", id |-> 0]
FinishMsg == [type |-> "FINISH", id |-> 0]
Response(id) == [type |-> "RESPONSE", id |-> id]
Msgs == {wire[i] : i \in DOMAIN wire} \cup {resp[r] : r \in {q \in Receivers : resp[q] # Nothing}}
Due(m) ==
  \/ m.type = "RESPONSE" /\ m.id \in Answered /\ m.id \in inFlightReqs
  \/ m = RoiBegin /\ finishedReqs >= warmupReqs /\ status # "ROI"
  \/ m = FinishMsg /\ finishedReqs >= warmupReqs + maxReqs
MessageInv ==
  /\ \A m \in Msgs : Due(m)
  /\ \A i, j \in DOMAIN wire : wire[i] = wire[j] => i = j
  /\ \A r, q \in Receivers : resp[r] = resp[q] /\ resp[r] # Nothing => r = q
  /\ \A r \in Receivers, i \in DOMAIN wire : resp[r] # wire[i]
  /\ status = "ROI" => finishedReqs >= warmupReqs

SafeInv == Types /\ ThreadsInv /\ BarrierInv /\ CountInv /\ MessageInv
-----------------------------------------------------------------------------
(* Types and threads.                                                      *)

\* What the constants are.
LEMMA ConstantTypes ==
  /\ IsFiniteSet(Senders) /\ IsFiniteSet(Receivers)
  /\ Senders \cap Receivers = {} /\ NoThread \notin Receivers
  /\ warmupReqs \in Nat \ {0} /\ maxReqs \in Nat \ {0}
  /\ MaxStarted \in Nat /\ MaxOthers \in Nat
  /\ ThreadCounts \subseteq Nat \ {0}
  /\ Requests \subseteq Nat /\ 0 \in Requests
  <1>1. Cardinality(Senders) \in Nat
    BY LoadClientAssumption, FS_CardinalityType DEF LoadClientAssumption
  <1> QED
    BY <1>1, LoadClientAssumption DEF LoadClientAssumption, Requests

\* The counters are numbers.
LEMMA Numbers ==
  ASSUME Types
  PROVE  /\ startedReqs \in Nat /\ finishedReqs \in Nat /\ others \in Nat /\ nthreads \in Nat \ {0}
         /\ ordinal \in [Requests -> Nat] /\ wire \in Seq(Message)
  <1>1. /\ startedReqs \in 0..MaxStarted /\ others \in 0..MaxOthers /\ finishedReqs \in Nat
        /\ ordinal \in [Requests -> Nat] /\ wire \in Seq(Message) /\ nthreads \in ThreadCounts
    BY DEF Types
  <1>2. MaxStarted \in Nat /\ MaxOthers \in Nat /\ ThreadCounts \subseteq Nat \ {0}
    BY ConstantTypes
  <1>3. startedReqs \in Nat /\ others \in Nat
    BY <1>1, <1>2
  <1> QED
    BY <1>1, <1>2, <1>3

\* What the server sends after an answer.
LEMMA BroadcastIs ==
  ASSUME NEW n \in Nat
  PROVE  \/ n = warmupReqs /\ Broadcast(n) = <<RoiBegin>>
         \/ n = warmupReqs + maxReqs /\ n # warmupReqs /\ Broadcast(n) = <<FinishMsg>>
         \/ n # warmupReqs /\ n # warmupReqs + maxReqs /\ Broadcast(n) = <<>>
  BY ConstantTypes DEF Broadcast, RoiBegin, FinishMsg

\* What it sends are messages.
LEMMA BroadcastType ==
  ASSUME NEW n \in Nat
  PROVE  Broadcast(n) \in Seq(Message)
  <1>1. RoiBegin \in Message /\ FinishMsg \in Message
    BY ConstantTypes DEF RoiBegin, FinishMsg, Message
  <1>2. Broadcast(n) \in {<<RoiBegin>>, <<FinishMsg>>, <<>>}
    BY BroadcastIs
  <1>3. <<RoiBegin>> \in Seq(Message) /\ <<FinishMsg>> \in Seq(Message) /\ <<>> \in Seq(Message)
    BY <1>1
  <1> QED
    BY <1>2, <1>3

\* Every step keeps the types.
LEMMA TypesStep ==
  ASSUME Types, MessageInv, [Next]_vars
  PROVE  Types'
  <1> USE DEF threadVars, clientVars, serverVars
  <1>1. ASSUME NEW s \in Senders, process = "up", SenderStep(s) PROVE Types'
    <2>1. CASE TestStatus(s)
      BY <1>1, <2>1 DEF TestStatus, Wait, Types
    <2>2. ASSUME NEW from, NEW to, Leave(s, from, to) PROVE Types'
      BY <1>1, <2>2 DEF Leave, Types
    <2>3. CASE SetUp(s)
      BY <1>1, <2>3 DEF SetUp, Wait, Types
    <2>4. CASE Generate(s)
      <3>1. startedReqs \in Requests /\ startedReqs' \in 0..MaxStarted
        <4>1. /\ startedReqs \in 0..MaxStarted /\ MaxStarted \in Nat
              /\ startedReqs' = IF startedReqs < MaxStarted THEN startedReqs + 1 ELSE startedReqs
          BY <2>4, ConstantTypes DEF Generate, Types
        <4> QED
          BY <4>1 DEF Requests
      <3> QED
        BY <1>1, <2>4, <3>1 DEF Generate, Types
    <2>5. CASE Send(s)
      BY <1>1, <2>5 DEF Send, Types
    <2>6. CASE SendFails(s)
      BY <1>1, <2>6 DEF SendFails, Types
    <2>7. CASE BrokenPipe(s)
      BY <1>1, <2>7 DEF BrokenPipe, Types
    <2> QED
      BY <1>1, <2>1, <2>2, <2>3, <2>4, <2>5, <2>6, <2>7 DEF SenderStep
  <1>2. ASSUME NEW r \in Receivers, process = "up", ReceiverStep(r) PROVE Types'
    <2>0. Nothing \in Message
      BY ConstantTypes DEF Nothing, Message
    <2>1. CASE LockRecv(r)
      BY <1>2, <2>1 DEF LockRecv, Types
    <2>2. CASE Read(r)
      <3>1. Head(wire) \in Message /\ Tail(wire) \in Seq(Message)
        <4>1. wire \in Seq(Message) /\ wire # <<>>
          BY <2>2 DEF Read, Types
        <4> QED
          BY <4>1
      <3> QED
        BY <1>2, <2>2, <3>1 DEF Read, Types
    <2>3. CASE ReadFails(r)
      BY <1>2, <2>3 DEF ReadFails, Types
    <2>4. CASE FiniReq(r)
      <3>1. resp[r].id \in Requests
        BY <2>4 DEF FiniReq, Types
      <3> QED
        BY <1>2, <2>0, <2>4, <3>1 DEF FiniReq, Types
    <2>5. CASE StartRoi(r)
      BY <1>2, <2>0, <2>5 DEF StartRoi, PhaseInRoi, Types
    <2>6. CASE AssertFails(r)
      BY <1>2, <2>6 DEF AssertFails, Types
    <2>7. CASE Finish(r)
      BY <1>2, <2>7 DEF Finish, Types
    <2> QED
      BY <1>2, <2>1, <2>2, <2>3, <2>4, <2>5, <2>6, <2>7 DEF ReceiverStep
  <1>3. ASSUME NEW id \in pending, process = "up", Answer(id) PROVE Types'
    <2>1. finishedReqs' \in Nat /\ wire' \in Seq(Message)
      <3>1. finishedReqs' \in Nat /\ wire \in Seq(Message)
        BY <1>3 DEF Answer, Types
      <3>2. Append(wire, [type |-> "RESPONSE", id |-> id]) \in Seq(Message)
        <4>1. [type |-> "RESPONSE", id |-> id] \in Message
          BY <1>3 DEF Types, Message
        <4> QED
          BY <3>1, <4>1
      <3>3. wire' = Append(wire, [type |-> "RESPONSE", id |-> id]) \o Broadcast(finishedReqs')
        BY <1>3 DEF Answer
      <3>4. Broadcast(finishedReqs') \in Seq(Message)
        BY <3>1, BroadcastType
      <3> HIDE DEF threadVars, clientVars, serverVars
      <3> QED
        BY <3>1, <3>2, <3>3, <3>4
    <2> QED
      BY <1>3, <2>1 DEF Answer, Types
  <1>4. CASE process = "up" /\ AnswerOther
    <2>1. finishedReqs' \in Nat /\ others' \in 0..MaxOthers /\ wire \in Seq(Message)
      <3>1. /\ others \in 0..MaxOthers /\ others < MaxOthers /\ others' = others + 1
            /\ finishedReqs \in Nat /\ finishedReqs' = finishedReqs + 1
            /\ wire \in Seq(Message) /\ MaxOthers \in Nat
        BY <1>4, ConstantTypes DEF AnswerOther, Types
      <3> QED
        BY <3>1
    <2>2. wire' \in Seq(Message)
      <3>1. wire' = wire \o Broadcast(finishedReqs') /\ Broadcast(finishedReqs') \in Seq(Message)
        BY <1>4, <2>1, BroadcastType DEF AnswerOther
      <3> QED
        BY <2>1, <3>1
    <2>3. UNCHANGED <<process, threadVars, clientVars, barrier, recvLock, conn, pending, ordinal>>
      BY <1>4 DEF AnswerOther
    <2> QED
      BY <2>1, <2>2, <2>3 DEF Types
  <1>5. CASE process = "up" /\ ServerEnds
    <2>1. <<>> \in Seq(Message) /\ wire \in Seq(Message)
      <3>1. wire \in Seq(Message)
        BY DEF Types
      <3>2. \A S : <<>> \in Seq(S)
        OBVIOUS
      <3> QED
        BY <3>1, <3>2
    <2>2. wire' \in Seq(Message)
      BY <1>5, <2>1 DEF ServerEnds
    <2>3. conn' \in {"closed", "reset"}
          /\ UNCHANGED <<process, threadVars, clientVars, barrier, recvLock, serverVars>>
      BY <1>5 DEF ServerEnds
    <2> QED
      BY <2>2, <2>3 DEF Types
  <1>6. CASE process = "up" /\ (ResetArrives \/ Join \/ Killed)
    BY <1>6 DEF ResetArrives, Join, Killed, Types
  <1>7. CASE UNCHANGED vars
    BY <1>7 DEF vars, Types
  <1> QED
    BY <1>1, <1>2, <1>3, <1>4, <1>5, <1>6, <1>7 DEF Next

\* What a step may do to the control point of its thread.
LEMMA PcMoves ==
  ASSUME ThreadsInv, NEW t \in Senders \cup Receivers, NEW from, NEW to, Goto(t, from, to)
  PROVE  /\ pc[t] = from /\ pc' = [pc EXCEPT ![t] = to]
         /\ pc'[t] = to /\ \A u \in Senders \cup Receivers : u # t => pc'[u] = pc[u]
  BY DEF Goto, ThreadsInv

\* A step of a sender moves it, and leaves the messages alone.
LEMMA SenderMoves ==
  ASSUME NEW s \in Senders, SenderStep(s)
  PROVE  /\ UNCHANGED <<nthreads, resp, samples, lats, recvLock, wire, finishedReqs, others, ordinal>>
         /\ \/ UNCHANGED pc
            \/ \E from, to : /\ Goto(s, from, to)
                             /\ from \in SenderPcs \ {"none", "returned"} /\ to \in SenderPcs \ {"none"}
  <1> USE DEF threadVars, clientVars, serverVars, SenderPcs
  <1>1. ASSUME NEW from, NEW to, Leave(s, from, to)
        PROVE  /\ UNCHANGED <<nthreads, resp, samples, lats, recvLock, wire, finishedReqs, others, ordinal>>
               /\ Goto(s, from, to)
    BY <1>1 DEF Leave
  <1>2. CASE TestStatus(s)
    BY <1>2 DEF TestStatus
  <1>3. CASE SetUp(s)
    BY <1>3 DEF SetUp
  <1>4. CASE Generate(s)
    BY <1>4 DEF Generate
  <1>5. CASE Send(s)
    BY <1>5 DEF Send
  <1>6. CASE SendFails(s)
    BY <1>6 DEF SendFails
  <1>7. CASE BrokenPipe(s)
    BY <1>7 DEF BrokenPipe
  <1> QED
    BY <1>1, <1>2, <1>3, <1>4, <1>5, <1>6, <1>7 DEF SenderStep

\* A step of a receiver moves it, and leaves the senders and the server alone.
LEMMA ReceiverMoves ==
  ASSUME NEW r \in Receivers, ReceiverStep(r)
  PROVE  /\ UNCHANGED <<nthreads, req, dist, startedReqs, barrier, serverVars>>
         /\ \/ UNCHANGED <<pc, resp>>
            \/ Goto(r, "recv", "read") /\ UNCHANGED resp
            \/ Goto(r, "read", "returned") /\ UNCHANGED resp
            \/ /\ Goto(r, "read", "apply") /\ wire # <<>>
               /\ resp' = [resp EXCEPT ![r] = Head(wire)]
            \/ Goto(r, "apply", "recv") /\ resp' = [resp EXCEPT ![r] = Nothing]
  <1> USE DEF threadVars, clientVars, serverVars
  <1>1. CASE LockRecv(r)
    BY <1>1 DEF LockRecv
  <1>2. CASE Read(r)
    BY <1>2 DEF Read
  <1>3. CASE ReadFails(r)
    BY <1>3 DEF ReadFails
  <1>4. CASE FiniReq(r)
    BY <1>4 DEF FiniReq
  <1>5. CASE StartRoi(r)
    BY <1>5 DEF StartRoi
  <1>6. CASE AssertFails(r) \/ Finish(r)
    BY <1>6 DEF AssertFails, Finish
  <1> QED
    BY <1>1, <1>2, <1>3, <1>4, <1>5, <1>6 DEF ReceiverStep

\* The other steps move no thread.
Outside ==
  \/ \E id \in pending : Answer(id)
  \/ AnswerOther \/ ServerEnds \/ ResetArrives \/ Join \/ Killed \/ UNCHANGED vars

\* They leave the threads, the requests of the client and the barrier alone.
LEMMA OutsideMoves ==
  ASSUME Outside
  PROVE  UNCHANGED <<threadVars, clientVars, barrier>>
  BY DEF Outside, Answer, AnswerOther, ServerEnds, ResetArrives, Join, Killed, vars

\* Every step is one of the three kinds.
LEMMA NextKinds ==
  ASSUME [Next]_vars
  PROVE  \/ process = "up" /\ \E s \in Senders : SenderStep(s)
         \/ process = "up" /\ \E r \in Receivers : ReceiverStep(r)
         \/ Outside
  BY DEF Next, Outside

\* A message that arrives is one.
LEMMA MessagesAre ==
  ASSUME Types, MessageInv, wire # <<>>
  PROVE  /\ 1 \in DOMAIN wire /\ Head(wire) = wire[1] /\ Head(wire) # Nothing
         /\ Tail(wire) \in Seq(Message) /\ DOMAIN Tail(wire) = 1..(Len(wire) - 1)
         /\ Len(wire) \in Nat /\ DOMAIN wire = 1..Len(wire)
         /\ \A i \in DOMAIN Tail(wire) : i + 1 \in DOMAIN wire /\ Tail(wire)[i] = wire[i + 1]
  <1>1. wire \in Seq(Message) /\ wire # <<>>
    BY DEF Types
  <1>2. /\ 1 \in DOMAIN wire /\ Head(wire) = wire[1]
        /\ Tail(wire) \in Seq(Message) /\ DOMAIN Tail(wire) = 1..(Len(wire) - 1)
        /\ Len(wire) \in Nat /\ DOMAIN wire = 1..Len(wire)
        /\ \A i \in DOMAIN Tail(wire) : i + 1 \in DOMAIN wire /\ Tail(wire)[i] = wire[i + 1]
    BY <1>1
  <1>3. Due(wire[1])
    BY <1>2 DEF MessageInv, Msgs
  <1>4. Head(wire) # Nothing
    BY <1>2, <1>3 DEF Due, Nothing, RoiBegin, FinishMsg
  <1> QED
    BY <1>2, <1>4

\* No thread changes its kind, none is created or goes, and a receiver holds a message
\* exactly when it is to apply it.
LEMMA ThreadsStep ==
  ASSUME Types, ThreadsInv, MessageInv, [Next]_vars
  PROVE  ThreadsInv'
  <1>1. ASSUME NEW s \in Senders, SenderStep(s) PROVE ThreadsInv'
    <2>1. UNCHANGED <<nthreads, resp>>
      BY <1>1, SenderMoves
    <2>2. CASE UNCHANGED pc
      BY <2>1, <2>2 DEF ThreadsInv, ActiveSenders, ActiveReceivers
    <2>3. ASSUME NEW from \in SenderPcs \ {"none", "returned"}, NEW to \in SenderPcs \ {"none"},
                 Goto(s, from, to)
          PROVE  ThreadsInv'
      <3>1. /\ pc[s] = from /\ pc' = [pc EXCEPT ![s] = to] /\ pc'[s] = to
            /\ \A u \in Senders \cup Receivers : u # s => pc'[u] = pc[u]
        BY <2>3, PcMoves
      <3>2. \A r \in Receivers : r # s
        BY ConstantTypes
      <3>3. ActiveSenders' = ActiveSenders /\ ActiveReceivers' = ActiveReceivers
        BY <2>3, <3>1, <3>2 DEF ActiveSenders, ActiveReceivers
      <3> QED
        BY <2>1, <3>1, <3>2, <3>3 DEF ThreadsInv
    <2> QED
      BY <1>1, <2>2, <2>3, SenderMoves
  <1>2. ASSUME NEW r \in Receivers, ReceiverStep(r) PROVE ThreadsInv'
    <2>1. UNCHANGED nthreads /\ \A s \in Senders : s # r
      BY <1>2, ReceiverMoves, ConstantTypes
    <2>2. ASSUME NEW from \in ReceiverPcs \ {"none"}, NEW to \in ReceiverPcs \ {"none"}, Goto(r, from, to),
                 \A q \in Receivers : q # r => resp'[q] = resp[q],
                 resp'[r] # Nothing <=> to = "apply"
          PROVE  ThreadsInv'
      <3>1. /\ pc[r] = from /\ pc' = [pc EXCEPT ![r] = to] /\ pc'[r] = to
            /\ \A u \in Senders \cup Receivers : u # r => pc'[u] = pc[u]
        BY <2>2, PcMoves
      <3>2. ActiveSenders' = ActiveSenders /\ ActiveReceivers' = ActiveReceivers
        BY <2>1, <2>2, <3>1 DEF ActiveSenders, ActiveReceivers
      <3> QED
        BY <2>1, <2>2, <3>1, <3>2 DEF ThreadsInv
    <2>3. CASE UNCHANGED <<pc, resp>>
      BY <2>1, <2>3 DEF ThreadsInv, ActiveSenders, ActiveReceivers
    <2>4. CASE (Goto(r, "recv", "read") \/ Goto(r, "read", "returned")) /\ UNCHANGED resp
      BY <2>2, <2>4 DEF ThreadsInv, Goto, ReceiverPcs
    <2>5. CASE /\ Goto(r, "read", "apply") /\ wire # <<>>
               /\ resp' = [resp EXCEPT ![r] = Head(wire)]
      <3>1. resp'[r] # Nothing /\ \A q \in Receivers : q # r => resp'[q] = resp[q]
        BY <2>5, MessagesAre DEF Types
      <3> QED
        BY <2>2, <2>5, <3>1 DEF ReceiverPcs
    <2>6. CASE Goto(r, "apply", "recv") /\ resp' = [resp EXCEPT ![r] = Nothing]
      <3>1. resp'[r] = Nothing /\ \A q \in Receivers : q # r => resp'[q] = resp[q]
        BY <2>6 DEF Types
      <3> QED
        BY <2>2, <2>6, <3>1 DEF ReceiverPcs
    <2> QED
      BY <1>2, <2>3, <2>4, <2>5, <2>6, ReceiverMoves
  <1>3. CASE Outside
    BY <1>3, OutsideMoves DEF threadVars, ThreadsInv, ActiveSenders, ActiveReceivers
  <1> QED
    BY <1>1, <1>2, <1>3, NextKinds
-----------------------------------------------------------------------------
(* The start-up barrier.                                                   *)

\* The barrier opens when all senders have arrived.
LEMMA OpensIs ==
  ASSUME ThreadsInv, NEW set, set \subseteq ActiveSenders
  PROVE  /\ Opens(set) <=> set = ActiveSenders
         /\ set # ActiveSenders => Cardinality(set) < nthreads
  <1>1. IsFiniteSet(ActiveSenders) /\ Cardinality(ActiveSenders) = nthreads
    BY ConstantTypes, FS_Subset DEF ThreadsInv, ActiveSenders
  <1>2. /\ IsFiniteSet(set) /\ Cardinality(set) \in Nat /\ nthreads \in Nat
        /\ Cardinality(set) <= nthreads
        /\ Cardinality(set) = nthreads => set = ActiveSenders
    BY <1>1, FS_Subset, FS_CardinalityType
  <1> QED
    BY <1>1, <1>2 DEF Opens

\* The senders at each point after a sender has moved.
LEMMA AtMoves ==
  ASSUME ThreadsInv, NEW s \in Senders, NEW from, NEW to, Goto(s, from, to), from # to
  PROVE  /\ s \in At(from) /\ s \notin At(to)
         /\ At(from)' = At(from) \ {s} /\ At(to)' = At(to) \cup {s}
         /\ \A p : p # from /\ p # to => {u \in Senders : pc'[u] = p} = At(p)
         /\ from # "none" /\ to # "none" => ActiveSenders' = ActiveSenders
  <1>1. /\ pc[s] = from /\ pc'[s] = to
        /\ \A u \in Senders : u # s => pc'[u] = pc[u]
    BY PcMoves
  <1> QED
    BY <1>1 DEF At, ActiveSenders

\* A step that moves no sender in the rounds of the barrier leaves them alone.
LEMMA BarrierKept ==
  ASSUME BarrierInv, UNCHANGED <<barrier, dist>>, status' # "INIT" <=> status # "INIT",
         ActiveSenders' = ActiveSenders,
         \A s \in Senders : pc'[s] = pc[s] \/ (dist /\ pc[s] \notin {"setup", "wait2"}
                                                 /\ pc'[s] \notin {"wait1", "setup", "wait2"}),
         startedReqs' = startedReqs \/ (dist /\ \E s \in ActiveSenders : pc[s] = "generate")
  PROVE  BarrierInv'
  <1>1. CASE ~dist
    <2>1. \A s \in Senders : pc'[s] = pc[s]
      BY <1>1
    <2>2. /\ At("start")' = At("start") /\ At("wait1")' = At("wait1")
          /\ At("setup")' = At("setup")
      BY <2>1 DEF At
    <2>3. startedReqs' = startedReqs /\ ~dist'
      BY <1>1
    <2>4. startedReqs = 0 /\ \A s \in ActiveSenders' : pc'[s] \in {"start", "wait1", "setup"}
      BY <1>1, <2>1 DEF BarrierInv, ActiveSenders
    <2> QED
      BY <1>1, <2>2, <2>3, <2>4 DEF BarrierInv
  <1>2. CASE dist
    <2>1. At("wait1")' = {}
      <3>1. At("wait1") = {}
        BY <1>2 DEF BarrierInv
      <3> QED
        BY <1>2, <3>1 DEF At
    <2>2. CASE /\ barrier = At("wait2") /\ startedReqs = 0 /\ barrier # ActiveSenders
               /\ ActiveSenders = At("setup") \cup At("wait2")
      <3>1. \A s \in ActiveSenders : pc[s] \in {"setup", "wait2"}
        BY <2>2 DEF At
      <3>2. \A s \in Senders : pc'[s] = pc[s]
        BY <3>1 DEF ActiveSenders
      <3>3. startedReqs' = 0
        BY <2>2, <3>1
      <3> QED
        <4>1. At("setup")' = At("setup") /\ At("wait2")' = At("wait2")
          BY <3>2 DEF At
        <4> QED
          BY <1>2, <2>1, <2>2, <3>3, <4>1 DEF BarrierInv
    <2>3. CASE barrier = {} /\ At("setup") = {}
      <3>1. At("setup")' = {}
        BY <2>3 DEF At
      <3> QED
        BY <1>2, <2>1, <2>3, <3>1 DEF BarrierInv
    <2> QED
      BY <1>2, <2>2, <2>3 DEF BarrierInv
  <1> QED
    BY <1>1, <1>2

\* Every step keeps the senders in the rounds of the barrier.
LEMMA BarrierStep ==
  ASSUME Types, ThreadsInv, BarrierInv, [Next]_vars
  PROVE  BarrierInv'
  <1>1. ASSUME NEW s \in Senders, TestStatus(s) PROVE BarrierInv'
    <2>1. UNCHANGED <<dist, status, startedReqs>>
      BY <1>1 DEF TestStatus, clientVars
    <2>2. CASE status = "INIT" /\ Goto(s, "start", "wait1") /\ Wait(s, barrier)
      <3>1. /\ s \in At("start") /\ At("wait1")' = At("wait1") \cup {s}
            /\ At("start")' = At("start") \ {s} /\ At("setup")' = At("setup")
            /\ ActiveSenders' = ActiveSenders /\ s \in ActiveSenders
        <4>1. pc[s] = "start"
          BY <2>2, PcMoves
        <4>2. s \in ActiveSenders
          BY <4>1 DEF ActiveSenders
        <4>3. {u \in Senders : pc'[u] = "setup"} = At("setup")
          BY <2>2, AtMoves
        <4> QED
          BY <2>2, <4>2, <4>3, AtMoves DEF At
      <3>2. /\ ~dist /\ barrier = At("wait1") /\ At("setup") = {} /\ startedReqs = 0
            /\ \A u \in ActiveSenders : pc[u] \in {"start", "wait1", "setup"}
        BY <2>2, <3>1 DEF BarrierInv
      <3>3. barrier \cup {s} \subseteq ActiveSenders
        BY <3>1, <3>2 DEF At, ActiveSenders
      <3>4. barrier' = IF barrier \cup {s} = ActiveSenders THEN {} ELSE barrier \cup {s}
        BY <2>2, <3>3, OpensIs DEF Wait
      <3>5. \A u \in ActiveSenders' : pc'[u] \in {"start", "wait1", "setup"}
        <4>1. pc'[s] = "wait1" /\ \A u \in Senders : u # s => pc'[u] = pc[u]
          BY <2>2, PcMoves
        <4> QED
          BY <3>1, <3>2, <4>1 DEF ActiveSenders
      <3>6. CASE barrier \cup {s} = ActiveSenders
        <4>1. At("start")' = {}
          BY <3>1, <3>2, <3>6 DEF At, ActiveSenders
        <4> QED
          BY <2>1, <2>2, <3>2, <3>4, <3>5, <3>6, <4>1 DEF BarrierInv
      <3>7. CASE barrier \cup {s} # ActiveSenders
        BY <2>1, <2>2, <3>1, <3>2, <3>4, <3>5, <3>7 DEF BarrierInv
      <3> QED
        BY <3>6, <3>7
    <2>3. CASE status # "INIT" /\ Goto(s, "start", "generate") /\ UNCHANGED barrier
      <3>1. dist /\ ActiveSenders' = ActiveSenders
        BY <2>3, AtMoves DEF BarrierInv
      <3>2. pc[s] = "start" /\ pc'[s] = "generate" /\ \A u \in Senders : u # s => pc'[u] = pc[u]
        BY <2>3, PcMoves
      <3> QED
        BY <2>1, <2>3, <3>1, <3>2, BarrierKept
    <2> QED
      BY <1>1, <2>2, <2>3 DEF TestStatus
  <1>2. ASSUME NEW s \in Senders, Leave(s, "wait1", "setup") PROVE BarrierInv'
    <2>1. UNCHANGED <<dist, status, startedReqs, barrier>> /\ s \notin barrier
          /\ Goto(s, "wait1", "setup")
      BY <1>2 DEF Leave, clientVars
    <2>2. /\ s \in At("wait1") /\ At("start")' = At("start")
          /\ ActiveSenders' = ActiveSenders
      <3>1. {u \in Senders : pc'[u] = "start"} = At("start")
        BY <2>1, AtMoves
      <3> QED
        BY <2>1, <3>1, AtMoves DEF At
    <2>3. /\ ~dist /\ barrier = {} /\ At("start") = {} /\ startedReqs = 0
          /\ \A u \in ActiveSenders : pc[u] \in {"start", "wait1", "setup"}
      BY <2>1, <2>2 DEF BarrierInv
    <2>4. \A u \in ActiveSenders' : pc'[u] \in {"start", "wait1", "setup"}
      <3>1. pc'[s] = "setup" /\ \A u \in Senders : u # s => pc'[u] = pc[u]
        BY <2>1, PcMoves
      <3> QED
        BY <2>2, <2>3, <3>1 DEF ActiveSenders
    <2> QED
      BY <2>1, <2>2, <2>3, <2>4 DEF BarrierInv
  <1>3. ASSUME NEW s \in Senders, SetUp(s) PROVE BarrierInv'
    <2>1. UNCHANGED startedReqs /\ Goto(s, "setup", "wait2")
      BY <1>3 DEF SetUp
    <2>2. /\ s \in At("setup") /\ At("wait2")' = At("wait2") \cup {s}
          /\ At("setup")' = At("setup") \ {s} /\ At("wait1")' = At("wait1")
          /\ ActiveSenders' = ActiveSenders /\ s \in ActiveSenders
      BY <2>1, AtMoves DEF At, ActiveSenders
    <2>3. At("setup") \cup At("wait2") \subseteq ActiveSenders /\ At("setup") \cap At("wait2") = {}
      BY DEF At, ActiveSenders
    <2>4. ASSUME NEW set, set = At("wait2"), Wait(s, set), dist', status' # "INIT",
                 startedReqs = 0, At("wait1") = {}, ActiveSenders = At("setup") \cup At("wait2")
          PROVE  BarrierInv'
      <3>1. set \cup {s} \subseteq ActiveSenders
        BY <2>2, <2>3, <2>4
      <3>2. barrier' = IF set \cup {s} = ActiveSenders THEN {} ELSE set \cup {s}
        BY <2>4, <3>1, OpensIs DEF Wait
      <3>3. CASE set \cup {s} = ActiveSenders
        <4>1. At("setup")' = {}
          BY <2>2, <2>3, <2>4, <3>3
        <4> QED
          BY <2>2, <2>4, <3>2, <3>3, <4>1 DEF BarrierInv
      <3>4. CASE set \cup {s} # ActiveSenders
        <4>1. ActiveSenders' = At("setup")' \cup At("wait2")'
          BY <2>2, <2>4
        <4>2. barrier' = At("wait2")' /\ barrier' # ActiveSenders'
          BY <2>2, <2>4, <3>2, <3>4
        <4> QED
          BY <2>1, <2>2, <2>4, <4>1, <4>2 DEF BarrierInv
      <3> QED
        BY <3>3, <3>4
    <2>5. CASE ~dist
      <3>1. /\ At("wait1") = {} /\ At("start") = {} /\ startedReqs = 0
            /\ \A u \in ActiveSenders : pc[u] \in {"start", "wait1", "setup"}
        BY <1>3, <2>2, <2>5 DEF BarrierInv, SetUp, FirstHere, At
      <3>2. At("wait2") = {} /\ ActiveSenders = At("setup") \cup At("wait2")
        BY <3>1 DEF At, ActiveSenders
      <3>3. dist' /\ status' # "INIT" /\ Wait(s, {})
        BY <1>3, <2>5 DEF SetUp, FirstHere
      <3> QED
        BY <2>4, <3>1, <3>2, <3>3
    <2>6. CASE dist
      <3>1. /\ barrier = At("wait2") /\ startedReqs = 0 /\ At("wait1") = {}
            /\ ActiveSenders = At("setup") \cup At("wait2") /\ status # "INIT"
        BY <2>2, <2>6 DEF BarrierInv
      <3>2. UNCHANGED <<dist, status>> /\ Wait(s, barrier)
        BY <1>3, <2>6 DEF SetUp, FirstHere
      <3> QED
        BY <2>4, <2>6, <3>1, <3>2
    <2> QED
      BY <2>5, <2>6
  <1>4. ASSUME NEW s \in Senders, Leave(s, "wait2", "generate") PROVE BarrierInv'
    <2>1. UNCHANGED <<dist, status, startedReqs, barrier>> /\ s \notin barrier
          /\ Goto(s, "wait2", "generate")
      BY <1>4 DEF Leave, clientVars
    <2>2. /\ s \in At("wait2") /\ At("wait1")' = At("wait1") /\ At("setup")' = At("setup")
          /\ s \in ActiveSenders /\ pc[s] = "wait2"
      BY <2>1, AtMoves DEF At, ActiveSenders
    <2>3. dist /\ At("wait1") = {} /\ barrier = {} /\ At("setup") = {}
      BY <2>1, <2>2 DEF BarrierInv
    <2> QED
      BY <2>1, <2>2, <2>3 DEF BarrierInv
  <1>5. ASSUME NEW s \in Senders, NEW from \in {"generate", "send"},
               NEW to \in {"send", "start", "returned"}, Goto(s, from, to),
               UNCHANGED <<dist, status, barrier>>,
               startedReqs' = startedReqs \/ from = "generate"
        PROVE  BarrierInv'
    <2>1. /\ pc[s] = from /\ pc'[s] = to /\ \A u \in Senders : u # s => pc'[u] = pc[u]
          /\ from # to => ActiveSenders' = ActiveSenders
      BY <1>5, PcMoves, AtMoves
    <2>2. ActiveSenders' = ActiveSenders /\ s \in ActiveSenders
      BY <2>1 DEF ActiveSenders
    <2>3. dist
      BY <2>1, <2>2 DEF BarrierInv
    <2> QED
      BY <1>5, <2>1, <2>2, <2>3, BarrierKept
  <1>6. ASSUME NEW s \in Senders, Generate(s) \/ Send(s) \/ SendFails(s) PROVE BarrierInv'
    <2>1. CASE Generate(s)
      BY <1>5, <2>1 DEF Generate
    <2>2. CASE Send(s)
      BY <1>5, <2>2 DEF Send, clientVars
    <2>3. CASE SendFails(s)
      BY <1>5, <2>3 DEF SendFails, clientVars
    <2> QED
      BY <1>6, <2>1, <2>2, <2>3
  <1>7. ASSUME UNCHANGED <<barrier, dist, startedReqs>>, status' # "INIT" <=> status # "INIT",
               \A s \in Senders : pc'[s] = pc[s]
        PROVE  BarrierInv'
    <2>1. ActiveSenders' = ActiveSenders
      BY <1>7 DEF ActiveSenders
    <2> QED
      BY <1>7, <2>1, BarrierKept
  <1>8. ASSUME NEW r \in Receivers, ReceiverStep(r) PROVE BarrierInv'
    <2>1. \A s \in Senders : pc'[s] = pc[s]
      <3>1. \A s \in Senders : s # r
        BY ConstantTypes
      <3> QED
        BY <1>8, <3>1, ReceiverMoves, PcMoves
    <2>2. status' # "INIT" <=> status # "INIT"
      BY <1>8 DEF ReceiverStep, LockRecv, Read, ReadFails, FiniReq, StartRoi, PhaseInRoi,
                  AssertFails, Finish, clientVars
    <2> QED
      BY <1>7, <1>8, <2>1, <2>2, ReceiverMoves
  <1>9. ASSUME NEW s \in Senders, BrokenPipe(s) PROVE BarrierInv'
    BY <1>7, <1>9 DEF BrokenPipe, threadVars, clientVars
  <1>10. CASE Outside
    BY <1>7, <1>10, OutsideMoves DEF threadVars, clientVars
  <1>11. ASSUME NEW s \in Senders, SenderStep(s) PROVE BarrierInv'
    BY <1>1, <1>2, <1>3, <1>4, <1>6, <1>9, <1>11 DEF SenderStep
  <1> QED
    BY <1>8, <1>10, <1>11, NextKinds
-----------------------------------------------------------------------------
(* The answers.                                                            *)

\* A step of which the count of the answers takes no notice.
LEMMA CountKept ==
  ASSUME CountInv, UNCHANGED <<finishedReqs, others, ordinal, pending, startedReqs, req>>,
         \A id \in inFlightReqs \ Answered : id \in inFlightReqs',
         conn' = "open" => conn = "open" /\ At("send")' \subseteq At("send")
  PROVE  CountInv'
  <1>1. Answered' = Answered
    BY DEF Answered
  <1>2. pending \subseteq inFlightReqs'
    BY DEF CountInv
  <1>3. ASSUME conn' = "open", NEW s \in At("send")' PROVE req[s] \in inFlightReqs'
    BY <1>3 DEF CountInv
  <1> QED
    BY <1>1, <1>2, <1>3 DEF CountInv

\* The steps of the senders that neither generate nor send a request.
LEMMA SenderIdles ==
  ASSUME Types, ThreadsInv, NEW s \in Senders,
         TestStatus(s) \/ Leave(s, "wait1", "setup") \/ SetUp(s) \/ Leave(s, "wait2", "generate")
           \/ SendFails(s) \/ BrokenPipe(s)
  PROVE  /\ UNCHANGED <<finishedReqs, others, ordinal, pending, startedReqs, req, inFlightReqs,
                        wire, resp, samples>>
         /\ conn' = "open" => conn = "open" /\ At("send")' \subseteq At("send")
         /\ status' = "ROI" => status = "ROI"
         /\ conn' = "open" \/ conn' = conn \/ conn' = "broken"
  <1> USE DEF threadVars, clientVars, serverVars
  <1>1. ASSUME NEW from, NEW to, Goto(s, from, to), to # "send" PROVE At("send")' \subseteq At("send")
    <2>1. pc'[s] # "send" /\ \A u \in Senders : u # s => pc'[u] = pc[u]
      BY <1>1, PcMoves
    <2> QED
      BY <2>1 DEF At
  <1>2. CASE TestStatus(s)
    BY <1>1, <1>2 DEF TestStatus
  <1>3. ASSUME NEW from, NEW to, Leave(s, from, to)
        PROVE  /\ UNCHANGED <<finishedReqs, others, ordinal, pending, startedReqs, req, inFlightReqs,
                              wire, resp, samples, conn, status>>
               /\ Goto(s, from, to)
    BY <1>3 DEF Leave
  <1>4. CASE SetUp(s)
    BY <1>1, <1>4 DEF SetUp
  <1>5. CASE SendFails(s)
    BY <1>5 DEF SendFails
  <1>6. CASE BrokenPipe(s)
    BY <1>6 DEF BrokenPipe, At
  <1>7. CASE Leave(s, "wait1", "setup") \/ Leave(s, "wait2", "generate")
    BY <1>1, <1>3, <1>7
  <1> QED
    BY <1>2, <1>4, <1>5, <1>6, <1>7

\* Every step keeps the count of the answers.
LEMMA CountStep ==
  ASSUME Types, ThreadsInv, CountInv, MessageInv, [Next]_vars
  PROVE  CountInv'
  <1>0. /\ startedReqs \in Nat /\ finishedReqs \in Nat /\ others \in Nat
        /\ ordinal \in [Requests -> Nat] /\ Answered \subseteq Requests
        /\ IsFiniteSet(Answered) /\ Cardinality(Answered) \in Nat
    <2>1. Answered \subseteq Requests /\ IsFiniteSet(Requests)
      BY ConstantTypes, FS_Interval DEF Answered, Requests
    <2>2. IsFiniteSet(Answered)
      BY <2>1, FS_Subset
    <2>3. Cardinality(Answered) \in Nat
      BY <2>2, FS_CardinalityType
    <2> QED
      BY <2>1, <2>2, <2>3, Numbers
  <1>1. ASSUME NEW s \in Senders, SenderStep(s) PROVE CountInv'
    <2>1. CASE Generate(s)
      <3>1. /\ UNCHANGED <<finishedReqs, others, ordinal, pending, conn>>
            /\ req' = [req EXCEPT ![s] = startedReqs]
            /\ inFlightReqs' = inFlightReqs \cup {startedReqs}
            /\ startedReqs < MaxStarted \/ conn # "open"
            /\ startedReqs' = IF startedReqs < MaxStarted THEN startedReqs + 1 ELSE startedReqs
            /\ Goto(s, "generate", "send")
        BY <2>1 DEF Generate, serverVars
      <3>2. Answered' = Answered
        BY <3>1 DEF Answered
      <3>3. 0..(startedReqs - 1) \subseteq 0..(startedReqs' - 1)
        BY <1>0, <3>1
      <3>4. CASE conn # "open"
        BY <3>1, <3>2, <3>3, <3>4 DEF CountInv
      <3>5. CASE conn = "open"
        <4>1. /\ startedReqs \in 0..(startedReqs' - 1) /\ startedReqs \notin 0..(startedReqs - 1)
              /\ startedReqs \in inFlightReqs'
          BY <1>0, <3>1, <3>5
        <4>2. At("send")' = At("send") \cup {s} /\ s \notin At("send")
          BY <3>1, AtMoves
        <4>3. req'[s] = startedReqs /\ \A u \in Senders : u # s => req'[u] = req[u]
          BY <3>1 DEF Types
        <4>4. At("send") \subseteq Senders
          BY DEF At
        <4>5. ASSUME NEW u \in At("send")'
              PROVE  /\ req'[u] \in 0..(startedReqs' - 1) /\ req'[u] \in inFlightReqs'
                     /\ req'[u] \notin pending \cup Answered
          BY <3>1, <3>3, <3>5, <4>1, <4>2, <4>3, <4>4, <4>5 DEF CountInv
        <4>6. ASSUME NEW u \in At("send")', NEW v \in At("send")', req'[u] = req'[v]
              PROVE  u = v
          BY <3>5, <4>1, <4>2, <4>3, <4>4, <4>6 DEF CountInv
        <4> QED
          BY <3>1, <3>2, <3>3, <4>5, <4>6 DEF CountInv
      <3> QED
        BY <3>4, <3>5
    <2>2. CASE Send(s)
      <3>1. /\ UNCHANGED <<finishedReqs, others, ordinal, startedReqs, req, inFlightReqs>>
            /\ Goto(s, "send", "start")
            /\ \/ conn = "open" /\ pending' = pending \cup {req[s]} /\ UNCHANGED conn
               \/ conn' = "answered" /\ UNCHANGED pending
        BY <2>2 DEF Send, clientVars
      <3>2. Answered' = Answered
        BY <3>1 DEF Answered
      <3>3. s \in At("send") /\ At("send")' = At("send") \ {s}
        BY <3>1, AtMoves
      <3> QED
        BY <3>1, <3>2, <3>3 DEF CountInv
    <2>3. CASE TestStatus(s) \/ Leave(s, "wait1", "setup") \/ SetUp(s) \/ Leave(s, "wait2", "generate")
                 \/ SendFails(s) \/ BrokenPipe(s)
      BY <2>3, SenderIdles, CountKept
    <2> QED
      BY <1>1, <2>1, <2>2, <2>3 DEF SenderStep
  <1>2. ASSUME NEW r \in Receivers, ReceiverStep(r) PROVE CountInv'
    <2>1. UNCHANGED <<finishedReqs, others, ordinal, pending, startedReqs, req>>
      BY <1>2, ReceiverMoves DEF serverVars
    <2>2. At("send")' = At("send")
      <3>1. \A s \in Senders : s # r
        BY ConstantTypes
      <3> QED
        BY <1>2, <3>1, ReceiverMoves, PcMoves DEF At
    <2>3. conn' = "open" => conn = "open"
      BY <1>2 DEF ReceiverStep, LockRecv, Read, ReadFails, FiniReq, StartRoi, AssertFails, Finish
    <2>4. \A id \in inFlightReqs \ Answered : id \in inFlightReqs'
      <3>1. CASE FiniReq(r)
        <4>1. inFlightReqs' = inFlightReqs \ {resp[r].id} /\ resp[r].type = "RESPONSE"
          BY <3>1 DEF FiniReq
        <4>2. resp[r] \in Msgs
          BY <4>1 DEF Msgs, Nothing
        <4>3. resp[r].id \in Answered
          BY <4>1, <4>2 DEF MessageInv, Due, RoiBegin, FinishMsg
        <4> QED
          BY <4>1, <4>3
      <3>2. CASE ~FiniReq(r)
        BY <1>2, <3>2 DEF ReceiverStep, LockRecv, Read, ReadFails, StartRoi, AssertFails, Finish,
                          clientVars
      <3> QED
        BY <3>1, <3>2
    <2> QED
      BY <2>1, <2>2, <2>3, <2>4, CountKept
  <1>3. ASSUME NEW id \in pending, Answer(id) PROVE CountInv'
    <2>1. /\ UNCHANGED <<others, startedReqs, req, inFlightReqs, conn, pc>>
          /\ pending' = pending \ {id} /\ finishedReqs' = finishedReqs + 1
          /\ ordinal' = [ordinal EXCEPT ![id] = finishedReqs + 1]
      BY <1>3 DEF Answer, threadVars, clientVars
    <2>2. id \in Requests /\ id \notin Answered
      BY DEF Types, CountInv
    <2>3. Answered' = Answered \cup {id}
      BY <1>0, <2>1, <2>2 DEF Answered
    <2>4. Cardinality(Answered') = Cardinality(Answered) + 1
      BY <1>0, <2>2, <2>3, FS_AddElement
    <2>5. finishedReqs' = others' + Cardinality(Answered')
      BY <1>0, <2>1, <2>4 DEF CountInv
    <2>6. \A i \in Requests : ordinal'[i] <= finishedReqs'
      BY <1>0, <2>1 DEF CountInv
    <2>7. At("send")' = At("send")
      BY <2>1 DEF At
    <2>8. /\ Answered' \cup pending' \subseteq 0..(startedReqs' - 1)
          /\ Answered' \cap pending' = {} /\ pending' \subseteq inFlightReqs'
      BY <2>1, <2>2, <2>3 DEF CountInv
    <2> QED
      BY <2>1, <2>3, <2>5, <2>6, <2>7, <2>8 DEF CountInv
  <1>4. CASE AnswerOther
    <2>1. /\ UNCHANGED <<ordinal, pending, startedReqs, req, inFlightReqs, conn, pc>>
          /\ others' = others + 1 /\ finishedReqs' = finishedReqs + 1
      BY <1>4 DEF AnswerOther, threadVars, clientVars
    <2>2. Answered' = Answered /\ At("send")' = At("send")
      BY <2>1 DEF Answered, At
    <2>3. finishedReqs' = others' + Cardinality(Answered')
      BY <1>0, <2>1, <2>2 DEF CountInv
    <2>4. \A i \in Requests : ordinal'[i] <= finishedReqs'
      BY <1>0, <2>1 DEF CountInv
    <2> QED
      BY <2>1, <2>2, <2>3, <2>4 DEF CountInv
  <1>5. CASE ServerEnds \/ ResetArrives \/ Join \/ Killed \/ UNCHANGED vars
    <2>1. /\ UNCHANGED <<finishedReqs, others, ordinal, pending, startedReqs, req, inFlightReqs, pc>>
          /\ conn' = "open" => conn = "open"
      BY <1>5 DEF ServerEnds, ResetArrives, Join, Killed, vars, threadVars, clientVars, serverVars
    <2> QED
      BY <2>1, CountKept DEF At
  <1> QED
    BY <1>1, <1>2, <1>3, <1>4, <1>5, NextKinds DEF Outside
-----------------------------------------------------------------------------
(* The messages.                                                           *)

\* What a concatenation holds.
LEMMA Concat ==
  ASSUME NEW S, NEW a \in Seq(S), NEW b \in Seq(S)
  PROVE  /\ DOMAIN a = 1..Len(a) /\ DOMAIN b = 1..Len(b) /\ Len(a) \in Nat /\ Len(b) \in Nat
         /\ DOMAIN (a \o b) = 1..(Len(a) + Len(b))
         /\ \A i \in DOMAIN a : (a \o b)[i] = a[i]
         /\ \A i \in DOMAIN b : (a \o b)[Len(a) + i] = b[i]
         /\ \A i \in DOMAIN (a \o b) : i \in DOMAIN a \/ (i - Len(a) \in DOMAIN b /\ i > Len(a))
  OBVIOUS

\* What a receiver holds and what travels, after a step that keeps Msgs or takes one away.
LEMMA MessagesKept ==
  ASSUME MessageInv, UNCHANGED <<wire, finishedReqs, ordinal>>,
         \A r \in Receivers : resp'[r] = resp[r] \/ resp'[r] = Nothing,
         \A m \in Msgs' : m.type = "RESPONSE" /\ m.id \in inFlightReqs => m.id \in inFlightReqs',
         status' = "ROI" => status = "ROI"
  PROVE  MessageInv'
  <1>1. Answered' = Answered
    BY DEF Answered
  <1>2. ASSUME NEW m \in Msgs' PROVE Due(m)'
    <2>1. m \in Msgs /\ (m.type = "RESPONSE" /\ m.id \in inFlightReqs => m.id \in inFlightReqs')
      BY <1>2 DEF Msgs
    <2>2. Due(m)
      BY <2>1 DEF MessageInv
    <2> QED
      BY <1>1, <2>1, <2>2 DEF Due
  <1>3. /\ \A i, j \in DOMAIN wire : wire[i] = wire[j] => i = j
        /\ \A r, q \in Receivers : resp'[r] = resp'[q] /\ resp'[r] # Nothing => r = q
        /\ status' = "ROI" => finishedReqs' >= warmupReqs
    BY DEF MessageInv
  <1>4. \A r \in Receivers, i \in DOMAIN wire : resp'[r] # wire[i]
    <2>1. \A i \in DOMAIN wire : wire[i] # Nothing
      BY DEF MessageInv, Due, Msgs, Nothing, RoiBegin, FinishMsg
    <2> QED
      BY <2>1 DEF MessageInv
  <1> QED
    BY <1>2, <1>3, <1>4 DEF MessageInv

\* What the server appends are messages that were not there.
LEMMA WireGrows ==
  ASSUME Types, MessageInv, NEW new \in Seq(Message), wire' = wire \o new,
         UNCHANGED <<resp, inFlightReqs, status>>, finishedReqs' = finishedReqs + 1,
         Answered \subseteq Answered',
         \A i \in DOMAIN new : Due(new[i])' /\ new[i] \notin Msgs,
         \A i, j \in DOMAIN new : new[i] = new[j] => i = j
  PROVE  MessageInv'
  <1>0. wire \in Seq(Message)
    BY DEF Types
  <1>1. /\ DOMAIN wire = 1..Len(wire) /\ DOMAIN new = 1..Len(new)
        /\ Len(wire) \in Nat /\ Len(new) \in Nat
        /\ DOMAIN wire' = 1..(Len(wire) + Len(new))
        /\ \A i \in DOMAIN wire : wire'[i] = wire[i]
        /\ \A i \in DOMAIN new : wire'[Len(wire) + i] = new[i]
        /\ \A i \in DOMAIN wire' : i \in DOMAIN wire \/ (i - Len(wire) \in DOMAIN new /\ i > Len(wire))
    BY <1>0, Concat
  <1>2. ASSUME NEW i \in DOMAIN wire'
        PROVE  \/ i \in DOMAIN wire /\ wire'[i] = wire[i] /\ wire[i] \in Msgs
               \/ /\ i - Len(wire) \in DOMAIN new /\ wire'[i] = new[i - Len(wire)]
                  /\ wire'[i] \notin Msgs /\ wire'[i] # Nothing /\ i \in Nat
    <2>1. CASE i \in DOMAIN wire
      BY <1>1, <2>1 DEF Msgs
    <2>2. CASE i - Len(wire) \in DOMAIN new /\ i > Len(wire)
      <3>1. wire'[i] = new[i - Len(wire)] /\ i \in Nat
        <4>1. i \in Nat /\ Len(wire) + (i - Len(wire)) = i
          BY <1>1
        <4> QED
          BY <1>1, <2>2, <4>1
      <3>2. new[i - Len(wire)] \notin Msgs
        BY <2>2
      <3>3. new[i - Len(wire)] # Nothing
        BY <2>2 DEF Due, Nothing, RoiBegin, FinishMsg
      <3> QED
        BY <2>2, <3>1, <3>2, <3>3
    <2> QED
      BY <1>1, <2>1, <2>2
  <1>3. ASSUME NEW m, Due(m) PROVE Due(m)'
    <2>1. finishedReqs' >= warmupReqs \/ ~(finishedReqs >= warmupReqs)
      BY ConstantTypes, Numbers
    <2>2. finishedReqs' >= warmupReqs + maxReqs \/ ~(finishedReqs >= warmupReqs + maxReqs)
      BY ConstantTypes, Numbers
    <2> QED
      BY <1>3, <2>1, <2>2 DEF Due
  <1>4. ASSUME NEW m \in Msgs' PROVE Due(m)'
    <2>1. CASE m \in Msgs
      <3>1. Due(m)
        BY <2>1 DEF MessageInv
      <3> QED
        BY <1>3, <3>1
    <2>2. CASE m \notin Msgs
      <3>1. PICK i \in DOMAIN wire' : m = wire'[i]
        BY <1>4, <2>2 DEF Msgs
      <3>2. i - Len(wire) \in DOMAIN new /\ m = new[i - Len(wire)]
        BY <1>2, <2>2, <3>1
      <3> QED
        BY <3>2
    <2> QED
      BY <2>1, <2>2
  <1>5. ASSUME NEW i \in DOMAIN wire', NEW j \in DOMAIN wire', wire'[i] = wire'[j] PROVE i = j
    <2>1. CASE i \in DOMAIN wire /\ j \in DOMAIN wire
      BY <1>1, <1>5, <2>1 DEF MessageInv
    <2>2. CASE i \notin DOMAIN wire /\ j \notin DOMAIN wire
      <3>1. /\ i - Len(wire) \in DOMAIN new /\ wire'[i] = new[i - Len(wire)]
            /\ j - Len(wire) \in DOMAIN new /\ wire'[j] = new[j - Len(wire)]
            /\ i \in Nat /\ j \in Nat
        BY <1>2, <2>2
      <3>2. i - Len(wire) = j - Len(wire)
        BY <1>5, <3>1
      <3> QED
        BY <1>1, <3>1, <3>2
    <2> QED
      BY <1>2, <1>5, <2>1, <2>2
  <1>6. ASSUME NEW r \in Receivers, NEW i \in DOMAIN wire' PROVE resp'[r] # wire'[i]
    <2>1. CASE i \in DOMAIN wire
      BY <1>1, <2>1 DEF MessageInv
    <2>2. CASE i \notin DOMAIN wire
      <3>1. wire'[i] \notin Msgs /\ wire'[i] # Nothing
        BY <1>2, <2>2
      <3> QED
        BY <3>1 DEF Msgs
    <2> QED
      BY <2>1, <2>2
  <1>7. status' = "ROI" => finishedReqs' >= warmupReqs
    <2>1. status = "ROI" => finishedReqs >= warmupReqs
      BY DEF MessageInv
    <2>2. finishedReqs >= warmupReqs => finishedReqs' >= warmupReqs
      BY ConstantTypes, Numbers
    <2> QED
      BY <2>1, <2>2
  <1>8. \A r, q \in Receivers : resp'[r] = resp'[q] /\ resp'[r] # Nothing => r = q
    BY DEF MessageInv
  <1> QED
    BY <1>4, <1>5, <1>6, <1>7, <1>8 DEF MessageInv

\* What an answer appends.
LEMMA AppendConcat ==
  ASSUME NEW S, NEW a \in Seq(S), NEW x \in S, NEW y \in S
  PROVE  /\ Append(a, x) \o <<>> = a \o <<x>>
         /\ Append(a, x) \o <<y>> = a \o <<x, y>>
  <1>1. Append(a, x) = a \o <<x>> /\ <<x>> \o <<y>> = <<x, y>>
    <2>1. Append(a, x) = a \o <<x>>
      BY AppendIsConcat
    <2>2. <<x>> \o <<y>> = <<x, y>>
      <3>1. <<x>> \in Seq(S) /\ <<y>> \in Seq(S) /\ <<x, y>> \in Seq(S)
        OBVIOUS
      <3>2. /\ Len(<<x, y>>) = 2 /\ <<x, y>>[1] = x /\ <<x, y>>[2] = y
            /\ Len(<<x>>) = 1 /\ Len(<<y>>) = 1 /\ <<x>>[1] = x /\ <<y>>[1] = y
        OBVIOUS
      <3>3. /\ <<x>> \o <<y>> \in Seq(S) /\ Len(<<x>> \o <<y>>) = 2
            /\ (<<x>> \o <<y>>)[1] = x /\ (<<x>> \o <<y>>)[2] = y
        BY <3>1, <3>2, ConcatProperties
      <3> DEFINE l == <<x>> \o <<y>>
      <3> DEFINE t == <<x, y>>
      <3>4. l \in Seq(S) /\ t \in Seq(S) /\ Len(l) = Len(t) /\ Len(l) = 2
        BY <3>1, <3>2, <3>3
      <3>5. \A i \in 1..Len(l) : l[i] = t[i]
        BY <3>2, <3>3
      <3> HIDE DEF l, t
      <3>6. l = t
        BY <3>4, <3>5, SeqEqual
      <3> QED
        BY <3>6 DEF l, t
    <2> QED
      BY <2>1, <2>2
  <1>2. <<x>> \in Seq(S) /\ <<y>> \in Seq(S) /\ Append(a, x) \in Seq(S)
    OBVIOUS
  <1>3. Append(a, x) \o <<>> = Append(a, x)
    BY <1>2, ConcatEmptySeq
  <1>4. (a \o <<x>>) \o <<y>> = a \o (<<x>> \o <<y>>)
    BY <1>2, ConcatAssociative
  <1> QED
    BY <1>1, <1>3, <1>4

\* A message of the server's count was not sent before.
LEMMA BroadcastNew ==
  ASSUME Types, MessageInv, NEW m, finishedReqs' = finishedReqs + 1, UNCHANGED status,
         \/ m = RoiBegin /\ finishedReqs' = warmupReqs
         \/ m = FinishMsg /\ finishedReqs' = warmupReqs + maxReqs
  PROVE  Due(m)' /\ m \notin Msgs /\ m \in Message
  <1>1. finishedReqs \in Nat /\ warmupReqs \in Nat /\ maxReqs \in Nat
    BY ConstantTypes, Numbers
  <1>2. m \in Message
    BY ConstantTypes DEF RoiBegin, FinishMsg, Message
  <1>3. CASE m = RoiBegin /\ finishedReqs' = warmupReqs
    <2>1. ~(finishedReqs >= warmupReqs) /\ finishedReqs' >= warmupReqs
      BY <1>1, <1>3
    <2>2. status # "ROI"
      BY <2>1 DEF MessageInv
    <2>3. ~Due(m)
      BY <1>3, <2>1 DEF Due, RoiBegin, FinishMsg
    <2> QED
      BY <1>2, <1>3, <2>1, <2>2, <2>3 DEF Due, MessageInv
  <1>4. CASE m = FinishMsg /\ finishedReqs' = warmupReqs + maxReqs
    <2>1. ~(finishedReqs >= warmupReqs + maxReqs) /\ finishedReqs' >= warmupReqs + maxReqs
      BY <1>1, <1>4
    <2>2. ~Due(m)
      BY <1>4, <2>1 DEF Due, RoiBegin, FinishMsg
    <2> QED
      BY <1>2, <1>4, <2>1, <2>2 DEF Due, MessageInv
  <1> QED
    BY <1>3, <1>4

\* Every step keeps the messages.
LEMMA MessageStep ==
  ASSUME Types, ThreadsInv, CountInv, MessageInv, [Next]_vars
  PROVE  MessageInv'
  <1>1. ASSUME NEW s \in Senders, SenderStep(s) PROVE MessageInv'
    <2>1. UNCHANGED <<resp, wire, finishedReqs, ordinal>>
      BY <1>1, SenderMoves
    <2>2. inFlightReqs \subseteq inFlightReqs' /\ (status' = "ROI" => status = "ROI")
      <3>1. CASE Generate(s)
        BY <3>1 DEF Generate
      <3>2. CASE Send(s)
        BY <3>2 DEF Send, clientVars
      <3>3. CASE ~Generate(s) /\ ~Send(s)
        BY <1>1, <3>3, SenderIdles DEF SenderStep
      <3> QED
        BY <3>1, <3>2, <3>3
    <2> QED
      BY <2>1, <2>2, MessagesKept
  <1>2. ASSUME NEW r \in Receivers, ReceiverStep(r) PROVE MessageInv'
    <2>1. UNCHANGED <<finishedReqs, ordinal>>
      BY <1>2, ReceiverMoves DEF serverVars
    <2>2. CASE Read(r)
      <3>1. /\ resp' = [resp EXCEPT ![r] = Head(wire)] /\ wire' = Tail(wire) /\ wire # <<>>
            /\ UNCHANGED <<status, inFlightReqs>>
        BY <2>2 DEF Read, clientVars
      <3>2. resp[r] = Nothing
        BY <2>2 DEF Read, Goto, ThreadsInv
      <3>3. /\ resp'[r] = wire[1] /\ wire[1] # Nothing /\ 1 \in DOMAIN wire
            /\ \A q \in Receivers : q # r => resp'[q] = resp[q]
        BY <3>1, MessagesAre DEF Types
      <3>4. /\ \A i \in DOMAIN wire' : /\ i + 1 \in DOMAIN wire /\ wire'[i] = wire[i + 1]
                                       /\ i \in Nat /\ i + 1 # 1
        <4>1. /\ DOMAIN wire' = 1..(Len(wire) - 1) /\ Len(wire) \in Nat
              /\ \A i \in DOMAIN wire' : i + 1 \in DOMAIN wire /\ wire'[i] = wire[i + 1]
          BY <3>1, MessagesAre
        <4>2. \A i \in DOMAIN wire' : i \in Nat /\ i + 1 # 1
          BY <4>1
        <4> QED
          BY <4>1, <4>2
      <3>5. Msgs' \subseteq Msgs
        <4>1. ASSUME NEW m \in {wire'[i] : i \in DOMAIN wire'} PROVE m \in Msgs
          BY <3>4 DEF Msgs
        <4>2. ASSUME NEW q \in Receivers, resp'[q] # Nothing PROVE resp'[q] \in Msgs
          BY <3>3, <4>2 DEF Msgs
        <4> QED
          BY <4>1, <4>2 DEF Msgs
      <3>6. ASSUME NEW m \in Msgs' PROVE Due(m)'
        <4>1. Due(m)
          BY <3>5 DEF MessageInv
        <4> QED
          BY <2>1, <3>1, <4>1 DEF Due, Answered
      <3>7. ASSUME NEW i \in DOMAIN wire', NEW j \in DOMAIN wire', wire'[i] = wire'[j] PROVE i = j
        <4>1. i + 1 = j + 1
          BY <3>4, <3>7 DEF MessageInv
        <4> QED
          BY <3>4, <4>1
      <3>8. ASSUME NEW p \in Receivers, NEW q \in Receivers, resp'[p] = resp'[q], resp'[p] # Nothing
            PROVE  p = q
        BY <3>2, <3>3, <3>8 DEF MessageInv
      <3>9. ASSUME NEW q \in Receivers, NEW i \in DOMAIN wire' PROVE resp'[q] # wire'[i]
        BY <3>3, <3>4 DEF MessageInv
      <3>10. status' = "ROI" => finishedReqs' >= warmupReqs
        BY <2>1, <3>1 DEF MessageInv
      <3> QED
        BY <3>6, <3>7, <3>8, <3>9, <3>10 DEF MessageInv
    <2>3. CASE FiniReq(r)
      <3>1. /\ resp' = [resp EXCEPT ![r] = Nothing] /\ UNCHANGED <<status, wire>>
            /\ inFlightReqs' = inFlightReqs \ {resp[r].id} /\ resp[r].type = "RESPONSE"
        BY <2>3 DEF FiniReq
      <3>2. /\ resp'[r] = Nothing /\ \A q \in Receivers : q # r => resp'[q] = resp[q]
            /\ resp[r] # Nothing /\ resp[r] \in Message
        <4>1. resp \in [Receivers -> Message]
          BY DEF Types
        <4>2. resp[r] # Nothing
          BY <3>1 DEF Nothing
        <4> QED
          BY <3>1, <4>1, <4>2
      <3>3. ASSUME NEW m \in Msgs', m.type = "RESPONSE" PROVE m.id # resp[r].id
        <4>1. m \in Message /\ m # resp[r]
          <5>1. CASE \E i \in DOMAIN wire : m = wire[i]
            <6>1. wire \in Seq(Message)
              BY Numbers
            <6>2. \A i \in DOMAIN wire : wire[i] \in Message
              BY <6>1
            <6>3. \A i \in DOMAIN wire : wire[i] # resp[r]
              BY DEF MessageInv
            <6> QED
              BY <5>1, <6>2, <6>3
          <5>2. CASE \E q \in Receivers : m = resp'[q] /\ resp'[q] # Nothing
            <6>1. PICK q \in Receivers : m = resp[q] /\ q # r /\ resp[q] # Nothing
              BY <3>2, <5>2
            <6> QED
              BY <6>1 DEF Types, MessageInv
          <5> QED
            BY <3>1, <3>3, <5>1, <5>2 DEF Msgs
        <4> QED
          BY <3>1, <3>2, <3>3, <4>1 DEF Message
      <3> QED
        BY <2>1, <3>1, <3>2, <3>3, MessagesKept
    <2>4. CASE StartRoi(r)
      <3>1. /\ resp' = [resp EXCEPT ![r] = Nothing] /\ UNCHANGED <<inFlightReqs, wire>>
            /\ status' = "ROI" /\ resp[r].type = "ROI_BEGIN"
        BY <2>4 DEF StartRoi, PhaseInRoi
      <3>2. /\ resp'[r] = Nothing /\ \A q \in Receivers : q # r => resp'[q] = resp[q]
            /\ resp[r] # Nothing
        <4>1. resp \in [Receivers -> Message]
          BY DEF Types
        <4>2. resp[r] # Nothing
          BY <3>1 DEF Nothing
        <4> QED
          BY <3>1, <4>1, <4>2
      <3>3. Due(resp[r])
        BY <3>2 DEF MessageInv, Msgs
      <3>4. resp[r] = RoiBegin /\ finishedReqs >= warmupReqs
        BY <3>1, <3>3 DEF Due, RoiBegin, FinishMsg
      <3>5. ASSUME NEW m \in Msgs' PROVE m \in Msgs /\ m # RoiBegin
        BY <3>1, <3>2, <3>4, <3>5 DEF Msgs, MessageInv
      <3>6. ASSUME NEW m \in Msgs' PROVE Due(m)'
        <4>1. Due(m) /\ m # RoiBegin
          BY <3>5 DEF MessageInv
        <4> QED
          BY <2>1, <3>1, <4>1 DEF Due, Answered
      <3>7. \A p, q \in Receivers : resp'[p] = resp'[q] /\ resp'[p] # Nothing => p = q
        BY <3>2 DEF MessageInv
      <3>8. \A q \in Receivers, i \in DOMAIN wire' : resp'[q] # wire'[i]
        <4>1. \A i \in DOMAIN wire : wire[i] # Nothing
          BY DEF MessageInv, Due, Msgs, Nothing, RoiBegin, FinishMsg
        <4> QED
          BY <3>1, <3>2, <4>1 DEF MessageInv
      <3>9. \A i, j \in DOMAIN wire' : wire'[i] = wire'[j] => i = j
        BY <3>1 DEF MessageInv
      <3> QED
        BY <2>1, <3>4, <3>6, <3>7, <3>8, <3>9 DEF MessageInv
    <2>5. CASE LockRecv(r) \/ ReadFails(r) \/ AssertFails(r) \/ Finish(r)
      <3>1. UNCHANGED <<status, inFlightReqs, wire, resp>>
        BY <2>5 DEF LockRecv, ReadFails, AssertFails, Finish, threadVars, clientVars
      <3> QED
        BY <2>1, <3>1, MessagesKept
    <2> QED
      BY <1>2, <2>2, <2>3, <2>4, <2>5 DEF ReceiverStep
  <1>3. ASSUME NEW id \in pending, Answer(id) PROVE MessageInv'
    <2>1. /\ UNCHANGED <<resp, status, inFlightReqs>> /\ finishedReqs' = finishedReqs + 1
          /\ ordinal' = [ordinal EXCEPT ![id] = finishedReqs + 1]
          /\ wire' = Append(wire, Response(id)) \o Broadcast(finishedReqs')
      BY <1>3 DEF Answer, threadVars, clientVars, Response
    <2>2. /\ id \in Requests /\ id \notin Answered /\ id \in inFlightReqs
      BY DEF Types, CountInv
    <2>3. /\ Answered \subseteq Answered' /\ id \in Answered'
      <3>1. /\ ordinal'[id] = finishedReqs + 1 /\ finishedReqs \in Nat
            /\ \A i \in Requests : i # id => ordinal'[i] = ordinal[i]
        BY <2>1, <2>2, Numbers
      <3>2. ordinal'[id] > 0
        BY <3>1
      <3> QED
        BY <2>2, <3>1, <3>2 DEF Answered
    <2>4. Response(id) \in Message /\ Due(Response(id))' /\ Response(id) \notin Msgs
      <3>1. Response(id) \in Message /\ Due(Response(id))'
        BY <2>1, <2>2, <2>3 DEF Response, Message, Due
      <3>2. ~Due(Response(id))
        BY <2>2 DEF Response, Due, RoiBegin, FinishMsg
      <3> QED
        BY <3>1, <3>2 DEF MessageInv
    <2>5. finishedReqs' \in Nat /\ wire \in Seq(Message)
      BY <2>1, Numbers
    <2>6. ASSUME NEW m \in Message, Broadcast(finishedReqs') = <<m>>, Due(m)', m \notin Msgs,
                 m # Response(id)
          PROVE  MessageInv'
      <3> DEFINE new == <<Response(id), m>>
      <3>1. wire' = wire \o new /\ new \in Seq(Message)
        BY <2>1, <2>4, <2>5, <2>6, AppendConcat
      <3>2. DOMAIN new = 1..2 /\ new[1] = Response(id) /\ new[2] = m
        OBVIOUS
      <3>3. \A i \in DOMAIN new : Due(new[i])' /\ new[i] \notin Msgs
        BY <2>4, <2>6, <3>2
      <3>4. \A i, j \in DOMAIN new : new[i] = new[j] => i = j
        BY <2>6, <3>2
      <3> HIDE DEF new
      <3> QED
        BY <2>1, <2>3, <3>1, <3>3, <3>4, WireGrows
    <2>7. CASE Broadcast(finishedReqs') = <<>>
      <3> DEFINE new == <<Response(id)>>
      <3>1. wire' = wire \o new /\ new \in Seq(Message)
        BY <2>1, <2>4, <2>5, <2>7, AppendConcat
      <3>2. DOMAIN new = 1..1 /\ new[1] = Response(id)
        OBVIOUS
      <3>3. \A i \in DOMAIN new : Due(new[i])' /\ new[i] \notin Msgs
        BY <2>4, <3>2
      <3>4. \A i, j \in DOMAIN new : new[i] = new[j] => i = j
        BY <3>2
      <3> HIDE DEF new
      <3> QED
        BY <2>1, <2>3, <3>1, <3>3, <3>4, WireGrows
    <2>8. RoiBegin # Response(id) /\ FinishMsg # Response(id)
      BY DEF RoiBegin, FinishMsg, Response
    <2> QED
      BY <2>1, <2>5, <2>6, <2>7, <2>8, BroadcastIs, BroadcastNew
  <1>4. CASE AnswerOther
    <2>1. /\ UNCHANGED <<resp, status, inFlightReqs, ordinal>> /\ finishedReqs' = finishedReqs + 1
          /\ wire' = wire \o Broadcast(finishedReqs')
      BY <1>4 DEF AnswerOther, threadVars, clientVars
    <2>2. Answered' = Answered
      BY <2>1 DEF Answered
    <2>3. finishedReqs' \in Nat /\ Broadcast(finishedReqs') \in Seq(Message)
      <3>1. finishedReqs' \in Nat
        BY <2>1, Numbers
      <3> QED
        BY <3>1, BroadcastType
    <2>4. ASSUME NEW m, Broadcast(finishedReqs') = <<m>>, Due(m)', m \notin Msgs PROVE MessageInv'
      <3> DEFINE new == <<m>>
      <3>0. wire' = wire \o new /\ new \in Seq(Message)
        BY <2>1, <2>3, <2>4
      <3>1. DOMAIN new = 1..1 /\ new[1] = m
        OBVIOUS
      <3>2. \A i \in DOMAIN new : Due(new[i])' /\ new[i] \notin Msgs
        BY <2>4, <3>1
      <3>3. \A i, j \in DOMAIN new : new[i] = new[j] => i = j
        BY <3>1
      <3> HIDE DEF new
      <3> QED
        BY <2>1, <2>2, <3>0, <3>2, <3>3, WireGrows
    <2>5. CASE Broadcast(finishedReqs') = <<>>
      BY <2>1, <2>2, <2>3, <2>5, WireGrows
    <2> QED
      BY <2>1, <2>3, <2>4, <2>5, BroadcastIs, BroadcastNew
  <1>5. CASE ServerEnds \/ ResetArrives \/ Join \/ Killed \/ UNCHANGED vars
    <2>1. UNCHANGED <<resp, status, inFlightReqs, finishedReqs, ordinal>> /\ wire' \in {wire, <<>>}
      BY <1>5 DEF ServerEnds, ResetArrives, Join, Killed, vars, threadVars, clientVars, serverVars
    <2>2. CASE wire' = wire
      BY <2>1, <2>2, MessagesKept
    <2>3. CASE wire' = <<>>
      <3>1. DOMAIN wire' = {} /\ Msgs' \subseteq Msgs /\ Answered' = Answered
        BY <2>1, <2>3 DEF Msgs, Answered
      <3>2. ASSUME NEW m \in Msgs' PROVE Due(m)'
        <4>1. Due(m)
          BY <3>1 DEF MessageInv
        <4> QED
          BY <2>1, <3>1, <4>1 DEF Due
      <3> QED
        BY <2>1, <3>1, <3>2 DEF MessageInv
    <2> QED
      BY <2>1, <2>2, <2>3
  <1> QED
    BY <1>1, <1>2, <1>3, <1>4, <1>5, NextKinds DEF Outside
-----------------------------------------------------------------------------
(* The invariant of the client.                                            *)

\* The client starts with the invariant.
LEMMA SafeInit ==
  ASSUME Init
  PROVE  SafeInv /\ process = "up"
  <1>1. /\ process = "up" /\ nthreads \in ThreadCounts
        /\ status = "INIT" /\ dist = FALSE /\ barrier = {}
        /\ startedReqs = 0 /\ inFlightReqs = {} /\ samples = {} /\ lats = {}
        /\ req = [s \in Senders |-> 0] /\ resp = [r \in Receivers |-> Nothing]
        /\ recvLock = NoThread /\ conn = "open" /\ wire = <<>>
        /\ pending = {} /\ finishedReqs = 0 /\ others = 0 /\ ordinal = [id \in Requests |-> 0]
    BY DEF Init
  <1>2. PICK S \in SUBSET Senders, R \in SUBSET Receivers :
          /\ Cardinality(S) = nthreads /\ Cardinality(R) = nthreads
          /\ pc = [t \in Senders \cup Receivers |->
                     IF t \in S THEN "start" ELSE IF t \in R THEN "recv" ELSE "none"]
    BY DEF Init
  <1>3. /\ \A s \in Senders : pc[s] = IF s \in S THEN "start" ELSE "none"
        /\ \A r \in Receivers : pc[r] = IF r \in R THEN "recv" ELSE "none"
    BY <1>2, ConstantTypes
  <1>4. ActiveSenders = S /\ ActiveReceivers = R
    BY <1>3 DEF ActiveSenders, ActiveReceivers
  <1>5. Types
    <2>1. 0 \in Requests /\ Nothing \in Message /\ MaxStarted \in Nat /\ MaxOthers \in Nat
      BY ConstantTypes DEF Nothing, Message
    <2>2. startedReqs \in 0..MaxStarted /\ others \in 0..MaxOthers /\ finishedReqs \in Nat
      BY <1>1, <2>1
    <2>3. wire \in Seq(Message)
      <3>1. \A T : <<>> \in Seq(T)
        OBVIOUS
      <3> QED
        BY <1>1, <3>1
    <2>4. req \in [Senders -> Requests] /\ resp \in [Receivers -> Message]
          /\ ordinal \in [Requests -> Nat]
      BY <1>1, <2>1
    <2> QED
      BY <1>1, <2>2, <2>3, <2>4 DEF Types
  <1>6. ThreadsInv
    <2>1. pc \in [Senders \cup Receivers -> SenderPcs \cup ReceiverPcs]
      BY <1>2 DEF SenderPcs, ReceiverPcs
    <2>2. \A r \in Receivers : resp[r] = Nothing /\ pc[r] # "apply"
      BY <1>1, <1>3
    <2>3. /\ \A s \in Senders : pc[s] \in SenderPcs
          /\ \A r \in Receivers : pc[r] \in ReceiverPcs
      BY <1>3 DEF SenderPcs, ReceiverPcs
    <2> QED
      BY <1>2, <1>4, <2>1, <2>2, <2>3 DEF ThreadsInv
  <1>7. BarrierInv
    <2>1. At("wait1") = {} /\ At("setup") = {}
      BY <1>3 DEF At
    <2>2. \A s \in ActiveSenders : pc[s] = "start"
      BY <1>3, <1>4
    <2>3. S # {}
      <3>1. nthreads # 0
        BY <1>5, Numbers
      <3> QED
        BY <1>2, <3>1, FS_EmptySet
    <2> QED
      BY <1>1, <1>4, <2>1, <2>2, <2>3 DEF BarrierInv
  <1>8. CountInv
    <2>1. Answered = {}
      BY <1>1 DEF Answered
    <2>2. At("send") = {}
      BY <1>3 DEF At
    <2>3. Cardinality({}) = 0
      BY FS_EmptySet
    <2> QED
      BY <1>1, <2>1, <2>2, <2>3 DEF CountInv
  <1>9. MessageInv
    <2>1. Msgs = {} /\ DOMAIN wire = {} /\ \A r \in Receivers : resp[r] = Nothing
      BY <1>1 DEF Msgs
    <2> QED
      BY <1>1, <2>1 DEF MessageInv
  <1> QED
    BY <1>1, <1>5, <1>6, <1>7, <1>8, <1>9 DEF SafeInv

\* Every step of the client keeps it.
LEMMA SafeStep ==
  ASSUME SafeInv, [Next]_vars
  PROVE  SafeInv'
  BY TypesStep, ThreadsStep, BarrierStep, CountStep, MessageStep DEF SafeInv

\* While nobody has generated a request, the answers are those to other clients.
LEMMA OnlyOthers ==
  ASSUME SafeInv, ~dist
  PROVE  finishedReqs <= MaxOthers
  <1>1. startedReqs = 0
    BY DEF SafeInv, BarrierInv
  <1>2. Answered \subseteq 0..(startedReqs - 1)
    BY DEF SafeInv, CountInv
  <1>3. Answered = {}
    BY <1>1, <1>2
  <1>4. Cardinality(Answered) = 0
    BY <1>3, FS_EmptySet
  <1>5. finishedReqs = others + 0
    BY <1>4 DEF SafeInv, CountInv
  <1>6. others \in 0..MaxOthers /\ MaxOthers \in Nat
    BY ConstantTypes DEF SafeInv, Types
  <1> QED
    BY <1>5, <1>6

\* No assertion of a receiver fails: it holds a message that is due.
LEMMA NoAssertFails ==
  ASSUME SafeInv, MaxOthers < warmupReqs, NEW r \in Receivers, AssertFails(r)
  PROVE  FALSE
  <1>1. resp[r] # Nothing
    BY DEF SafeInv, ThreadsInv, AssertFails
  <1>2. Due(resp[r])
    BY <1>1 DEF SafeInv, MessageInv, Msgs
  <1>3. CASE UnknownId(r)
    BY <1>2, <1>3 DEF UnknownId, Due, RoiBegin, FinishMsg
  <1>4. CASE RoiUnexpected(r)
    <2>1. finishedReqs >= warmupReqs /\ status # "ROI" /\ status # "WARMUP"
      BY <1>2, <1>4 DEF RoiUnexpected, Due, RoiBegin, FinishMsg
    <2>2. ~dist
      BY <2>1 DEF SafeInv, BarrierInv, Types
    <2>3. finishedReqs \in Nat /\ MaxOthers \in Nat /\ warmupReqs \in Nat
      BY Numbers, ConstantTypes DEF SafeInv
    <2> QED
      BY <2>1, <2>2, <2>3, OnlyOthers
  <1> QED
    BY <1>3, <1>4 DEF AssertFails

\* No step is a failing assertion.
LEMMA AssertionsStep ==
  ASSUME SafeInv, AssertionsHold, [Next]_vars
  PROVE  AssertionsHold'
  <1> SUFFICES ASSUME MaxOthers < warmupReqs PROVE process' # "aborted"
    BY DEF AssertionsHold
  <1>0. process # "aborted"
    BY DEF AssertionsHold
  <1>1. ASSUME NEW s \in Senders, SenderStep(s) PROVE process' # "aborted"
    <2>1. process' \in {process, "killed"}
      BY <1>1 DEF SenderStep, TestStatus, Leave, SetUp, Generate, Send, SendFails, BrokenPipe
    <2> QED
      BY <1>0, <2>1
  <1>2. ASSUME NEW r \in Receivers, ReceiverStep(r) PROVE process' # "aborted"
    <2>1. ~AssertFails(r)
      BY NoAssertFails
    <2>2. process' \in {process, "exit 0"}
      BY <1>2, <2>1 DEF ReceiverStep, LockRecv, Read, ReadFails, FiniReq, StartRoi, Finish
    <2> QED
      BY <1>0, <2>2
  <1>3. CASE Outside
    <2>1. process' \in {process, "returned", "killed"}
      BY <1>3 DEF Outside, Answer, AnswerOther, ServerEnds, ResetArrives, Join, Killed, vars
    <2> QED
      BY <1>0, <2>1
  <1> QED
    BY <1>1, <1>2, <1>3, NextKinds

\* The invariant implies the bounds that the type invariant states: the senders at the
\* barrier are fewer than it is made for, and the server's count stays below its bound.
LEMMA SafeInvBounds ==
  ASSUME SafeInv
  PROVE  /\ Cardinality(barrier) < nthreads
         /\ finishedReqs \in 0..(MaxStarted + MaxOthers)
         /\ ordinal \in [Requests -> 0..(MaxStarted + MaxOthers)]
  <1>1. Cardinality(barrier) < nthreads
    <2>1. barrier \subseteq ActiveSenders
      BY DEF SafeInv, BarrierInv, At, ActiveSenders
    <2>2. CASE barrier # ActiveSenders
      BY <2>1, <2>2, OpensIs DEF SafeInv
    <2>3. CASE barrier = ActiveSenders
      <3>1. barrier = {}
        BY <2>3 DEF SafeInv, BarrierInv
      <3>2. Cardinality(barrier) = 0 /\ nthreads \in Nat \ {0}
        BY <3>1, FS_EmptySet, Numbers DEF SafeInv
      <3> QED
        BY <3>2
    <2> QED
      BY <2>2, <2>3
  <1>2. finishedReqs \in 0..(MaxStarted + MaxOthers)
    <2>1. Answered \subseteq 0..(startedReqs - 1) /\ finishedReqs = others + Cardinality(Answered)
      BY DEF SafeInv, CountInv
    <2>2. startedReqs \in 0..MaxStarted /\ others \in 0..MaxOthers /\ finishedReqs \in Nat
          /\ MaxStarted \in Nat /\ MaxOthers \in Nat
      BY ConstantTypes DEF SafeInv, Types
    <2>3. IsFiniteSet(0..(startedReqs - 1)) /\ Cardinality(0..(startedReqs - 1)) = startedReqs
      <3>1. 0 \in Int /\ startedReqs - 1 \in Int
        BY <2>2
      <3>2. /\ IsFiniteSet(0..(startedReqs - 1))
            /\ Cardinality(0..(startedReqs - 1)) = IF 0 > startedReqs - 1 THEN 0 ELSE startedReqs - 1 - 0 + 1
        BY <3>1, FS_Interval
      <3> QED
        BY <2>2, <3>2
    <2>4. Cardinality(Answered) <= startedReqs /\ Cardinality(Answered) \in Nat
      BY <2>1, <2>3, FS_Subset, FS_CardinalityType
    <2> QED
      BY <2>1, <2>2, <2>4
  <1>3. ordinal \in [Requests -> 0..(MaxStarted + MaxOthers)]
    <2>1. ordinal \in [Requests -> Nat] /\ \A id \in Requests : ordinal[id] <= finishedReqs
      BY Numbers DEF SafeInv, CountInv
    <2>2. \A id \in Requests : ordinal[id] \in 0..(MaxStarted + MaxOthers)
      BY <1>2, <2>1, ConstantTypes
    <2> QED
      BY <2>1, <2>2
  <1> QED
    BY <1>1, <1>2, <1>3

\* The invariant implies what the run checks.
LEMMA SafeInvImplies ==
  ASSUME SafeInv, AssertionsHold
  PROVE  ClientInv
  <1>1. TypeOK
    <2>1. pc \in [Senders \cup Receivers ->
                    {"start", "wait1", "setup", "wait2", "generate", "send",
                     "recv", "read", "apply", "returned", "none"}]
      BY DEF SafeInv, ThreadsInv, SenderPcs, ReceiverPcs
    <2> QED
      BY <2>1, SafeInvBounds DEF SafeInv, Types, TypeOK
  <1>2. StartTogether
    <2>1. SUFFICES ASSUME startedReqs > 0
                   PROVE  dist /\ \A s \in Senders : pc[s] \notin {"wait1", "setup"}
      BY DEF StartTogether
    <2>2. startedReqs # 0
      BY <2>1, Numbers DEF SafeInv
    <2>3. dist /\ At("wait1") = {} /\ At("setup") = {}
      BY <2>2 DEF SafeInv, BarrierInv
    <2> QED
      BY <2>3 DEF At
  <1> QED
    BY <1>1, <1>2 DEF ClientInv

\* What a client promises, for any number of threads and requests: the arrival times run
\* from a moment at which every sender is there, the start-up barrier is never overfilled,
\* and no order of the receivers makes an assertion of finiReq or startRoi fail as long as
\* the answers to other clients alone do not end the warm-up.
THEOREM ClientIsSafe == Spec => []ClientInv
  <1>1. Init => SafeInv /\ AssertionsHold
    BY SafeInit DEF AssertionsHold
  <1>2. SafeInv /\ AssertionsHold /\ [Next]_vars => SafeInv' /\ AssertionsHold'
    BY SafeStep, AssertionsStep
  <1>3. SafeInv /\ AssertionsHold => ClientInv
    BY SafeInvImplies
  <1> QED
    BY <1>1, <1>2, <1>3, PTL DEF Spec
-----------------------------------------------------------------------------
(* What is recorded: warm-up requests.                                     *)

\* A response to a request of the warm-up; the receivers that are to apply one.
Warm(m) == m.type = "RESPONSE" /\ ordinal[m.id] <= warmupReqs
Held == {r \in Receivers : Warm(resp[r])}

\* The warm-up's responses travel before ROI_BEGIN.  Those that ROI_BEGIN overtakes are in
\* the hands of receivers other than its own.
OrderInv ==
  /\ samples \subseteq Answered
  /\ \A i, j \in DOMAIN wire : i < j /\ wire[i] = RoiBegin => ~Warm(wire[j])
  /\ status = "ROI" \/ (\E r \in Receivers : resp[r] = RoiBegin)
       => \A i \in DOMAIN wire : ~Warm(wire[i])
  /\ status # "ROI" => samples = {}
  /\ status = "ROI" => Cardinality(WarmupSamples) + Cardinality(Held) < nthreads

\* The sets that are counted are finite.
LEMMA HeldFinite ==
  ASSUME SafeInv, OrderInv
  PROVE  /\ IsFiniteSet(Requests) /\ IsFiniteSet(WarmupSamples) /\ IsFiniteSet(Held)
         /\ Cardinality(WarmupSamples) \in Nat /\ Cardinality(Held) \in Nat
         /\ nthreads \in Nat \ {0} /\ Held \subseteq ActiveReceivers
         /\ IsFiniteSet(ActiveReceivers) /\ Cardinality(ActiveReceivers) = nthreads
  <1>1. IsFiniteSet(Requests)
    BY ConstantTypes, FS_Interval DEF Requests
  <1>2. WarmupSamples \subseteq Requests
    BY DEF WarmupSamples, SafeInv, Types
  <1>3. Held \subseteq ActiveReceivers /\ ActiveReceivers \subseteq Receivers
    BY DEF Held, Warm, Nothing, ActiveReceivers, SafeInv, ThreadsInv
  <1>4. IsFiniteSet(ActiveReceivers) /\ IsFiniteSet(Held) /\ IsFiniteSet(WarmupSamples)
    BY <1>1, <1>2, <1>3, ConstantTypes, FS_Subset
  <1> QED
    BY <1>1, <1>3, <1>4, FS_CardinalityType, Numbers DEF SafeInv, ThreadsInv

\* What an answer makes the server send: the response, then what its count calls for.
LEMMA AnswerSends ==
  ASSUME SafeInv, NEW id \in pending, Answer(id)
  PROVE  \E new \in Seq(Message) :
           /\ wire' = wire \o new /\ 1 \in DOMAIN new /\ new[1] = Response(id)
           /\ \A i \in DOMAIN new :
                \/ i = 1
                \/ i = 2 /\ new[i] = RoiBegin /\ finishedReqs' = warmupReqs
                \/ i = 2 /\ new[i] = FinishMsg /\ finishedReqs' = warmupReqs + maxReqs
           /\ finishedReqs' = warmupReqs => \E i \in DOMAIN new : new[i] = RoiBegin
  <1>1. /\ finishedReqs' = finishedReqs + 1
        /\ wire' = Append(wire, Response(id)) \o Broadcast(finishedReqs')
    BY DEF Answer, Response
  <1>2. /\ Response(id) \in Message /\ RoiBegin \in Message /\ FinishMsg \in Message
        /\ wire \in Seq(Message) /\ finishedReqs' \in Nat
    <2>1. id \in Requests /\ 0 \in Requests
      BY ConstantTypes DEF SafeInv, Types
    <2>2. Response(id) \in Message /\ RoiBegin \in Message /\ FinishMsg \in Message
      BY <2>1 DEF Response, RoiBegin, FinishMsg, Message
    <2>3. wire \in Seq(Message) /\ finishedReqs' \in Nat
      BY <1>1, Numbers DEF SafeInv
    <2> QED
      BY <2>2, <2>3
  <1>3. CASE finishedReqs' = warmupReqs /\ Broadcast(finishedReqs') = <<RoiBegin>>
    <2> DEFINE new == <<Response(id), RoiBegin>>
    <2>1. new \in Seq(Message) /\ Append(wire, Response(id)) \o <<RoiBegin>> = wire \o new
      BY <1>2, AppendConcat
    <2>2. wire' = wire \o new
      BY <1>1, <1>3, <2>1
    <2>3. DOMAIN new = 1..2 /\ new[1] = Response(id) /\ new[2] = RoiBegin
      OBVIOUS
    <2>4. 1 \in DOMAIN new /\ 2 \in DOMAIN new /\ \A i \in DOMAIN new : i = 1 \/ i = 2
      BY <2>3
    <2> HIDE DEF new
    <2> QED
      BY <1>3, <2>1, <2>2, <2>3, <2>4
  <1>4. CASE /\ finishedReqs' = warmupReqs + maxReqs /\ finishedReqs' # warmupReqs
             /\ Broadcast(finishedReqs') = <<FinishMsg>>
    <2> DEFINE new == <<Response(id), FinishMsg>>
    <2>1. new \in Seq(Message) /\ Append(wire, Response(id)) \o <<FinishMsg>> = wire \o new
      BY <1>2, AppendConcat
    <2>2. wire' = wire \o new
      BY <1>1, <1>4, <2>1
    <2>3. DOMAIN new = 1..2 /\ new[1] = Response(id) /\ new[2] = FinishMsg
      OBVIOUS
    <2>4. 1 \in DOMAIN new /\ 2 \in DOMAIN new /\ \A i \in DOMAIN new : i = 1 \/ i = 2
      BY <2>3
    <2> HIDE DEF new
    <2> QED
      BY <1>4, <2>1, <2>2, <2>3, <2>4
  <1>5. CASE finishedReqs' # warmupReqs /\ Broadcast(finishedReqs') = <<>>
    <2> DEFINE new == <<Response(id)>>
    <2>1. wire' = wire \o new /\ new \in Seq(Message)
      BY <1>1, <1>2, <1>5, AppendConcat
    <2>2. DOMAIN new = 1..1 /\ new[1] = Response(id)
      OBVIOUS
    <2> HIDE DEF new
    <2> QED
      BY <1>5, <2>1, <2>2
  <1> QED
    BY <1>2, <1>3, <1>4, <1>5, BroadcastIs

\* What an answer to another client makes it send to this one.
LEMMA OtherSends ==
  ASSUME SafeInv, AnswerOther
  PROVE  \E new \in Seq(Message) :
           /\ wire' = wire \o new
           /\ \A i \in DOMAIN new :
                \/ i = 1 /\ new[i] = RoiBegin /\ finishedReqs' = warmupReqs
                \/ i = 1 /\ new[i] = FinishMsg /\ finishedReqs' = warmupReqs + maxReqs
           /\ finishedReqs' = warmupReqs => \E i \in DOMAIN new : new[i] = RoiBegin
  <1>1. finishedReqs' = finishedReqs + 1 /\ wire' = wire \o Broadcast(finishedReqs')
    BY DEF AnswerOther
  <1>2. finishedReqs' \in Nat
    BY <1>1, Numbers DEF SafeInv
  <1>3. Broadcast(finishedReqs') \in Seq(Message)
    BY <1>2, BroadcastType
  <1>4. \A m : DOMAIN <<m>> = 1..1 /\ <<m>>[1] = m
    OBVIOUS
  <1>5. DOMAIN <<>> = {}
    OBVIOUS
  <1>6. CASE Broadcast(finishedReqs') = <<>> /\ finishedReqs' # warmupReqs
    BY <1>1, <1>3, <1>5, <1>6
  <1>7. ASSUME NEW m, Broadcast(finishedReqs') = <<m>>,
               \/ m = RoiBegin /\ finishedReqs' = warmupReqs
               \/ m = FinishMsg /\ finishedReqs' = warmupReqs + maxReqs /\ finishedReqs' # warmupReqs
        PROVE  \E new \in Seq(Message) :
                 /\ wire' = wire \o new
                 /\ \A i \in DOMAIN new :
                      \/ i = 1 /\ new[i] = RoiBegin /\ finishedReqs' = warmupReqs
                      \/ i = 1 /\ new[i] = FinishMsg /\ finishedReqs' = warmupReqs + maxReqs
                 /\ finishedReqs' = warmupReqs => \E i \in DOMAIN new : new[i] = RoiBegin
    <2> DEFINE new == <<m>>
    <2>1. wire' = wire \o new /\ new \in Seq(Message)
      BY <1>1, <1>3, <1>7
    <2>2. DOMAIN new = 1..1 /\ new[1] = m
      OBVIOUS
    <2> HIDE DEF new
    <2> QED
      BY <1>7, <2>1, <2>2
  <1> QED
    BY <1>2, <1>6, <1>7, BroadcastIs

\* Where a message can be, before and after the server sends some more.
LEMMA WireIs ==
  ASSUME Types, NEW new \in Seq(Message), wire' = wire \o new
  PROVE  /\ \A i \in DOMAIN wire : i \in DOMAIN wire' /\ wire'[i] = wire[i] /\ i <= Len(wire)
         /\ \A i \in DOMAIN new : Len(wire) + i \in DOMAIN wire' /\ wire'[Len(wire) + i] = new[i]
         /\ \A i \in DOMAIN wire' \ DOMAIN wire :
              i > Len(wire) /\ i - Len(wire) \in DOMAIN new /\ wire'[i] = new[i - Len(wire)]
         /\ DOMAIN wire' \subseteq Nat /\ DOMAIN wire \subseteq Nat /\ DOMAIN new \subseteq Nat \ {0}
         /\ Len(wire) \in Nat
  <1>1. /\ DOMAIN wire = 1..Len(wire) /\ DOMAIN new = 1..Len(new)
        /\ Len(wire) \in Nat /\ Len(new) \in Nat
        /\ DOMAIN wire' = 1..(Len(wire) + Len(new))
        /\ \A i \in DOMAIN wire : wire'[i] = wire[i]
        /\ \A i \in DOMAIN new : wire'[Len(wire) + i] = new[i]
    BY Numbers, Concat
  <1>2. \A i \in DOMAIN wire : i \in DOMAIN wire' /\ i <= Len(wire)
    BY <1>1
  <1>3. \A i \in DOMAIN new : Len(wire) + i \in DOMAIN wire'
    BY <1>1
  <1>4. \A i \in DOMAIN wire' \ DOMAIN wire :
          i > Len(wire) /\ i - Len(wire) \in DOMAIN new /\ Len(wire) + (i - Len(wire)) = i
    BY <1>1
  <1>5. \A i \in DOMAIN wire' \ DOMAIN wire : wire'[i] = new[i - Len(wire)]
    BY <1>1, <1>4
  <1>6. DOMAIN wire' \subseteq Nat /\ DOMAIN wire \subseteq Nat /\ DOMAIN new \subseteq Nat \ {0}
    BY <1>1
  <1> QED
    BY <1>1, <1>2, <1>3, <1>4, <1>5, <1>6

\* ROI_BEGIN is under way only when the warm-up is over.
LEMMA RoiBeginDue ==
  ASSUME MessageInv, RoiBegin \in Msgs \/ status = "ROI"
  PROVE  finishedReqs >= warmupReqs
  BY DEF MessageInv, Due, RoiBegin, FinishMsg

\* Counted sets that do not grow keep their bound.
LEMMA FewWarmKept ==
  ASSUME SafeInv, OrderInv, status = "ROI", nthreads' = nthreads,
         WarmupSamples' \subseteq WarmupSamples, Held' \subseteq Held
  PROVE  Cardinality(WarmupSamples') + Cardinality(Held') < nthreads'
  <1>1. /\ Cardinality(WarmupSamples') <= Cardinality(WarmupSamples)
        /\ Cardinality(Held') <= Cardinality(Held)
        /\ IsFiniteSet(WarmupSamples') /\ IsFiniteSet(Held')
    BY HeldFinite, FS_Subset
  <1>2. Cardinality(WarmupSamples') \in Nat /\ Cardinality(Held') \in Nat
    BY <1>1, FS_CardinalityType
  <1>3. Cardinality(WarmupSamples) + Cardinality(Held) < nthreads
    BY DEF OrderInv
  <1> QED
    BY <1>1, <1>2, <1>3, HeldFinite

\* A step that neither reads nor sends a message.
LEMMA OrderKept ==
  ASSUME SafeInv, OrderInv, UNCHANGED <<wire, resp, samples, ordinal, nthreads>>,
         status' = "ROI" <=> status = "ROI"
  PROVE  OrderInv'
  <1>1. Answered' = Answered
    BY DEF Answered
  <1>2. WarmupSamples' = WarmupSamples /\ Held' = Held
    BY DEF WarmupSamples, Held, Warm
  <1> QED
    BY <1>1, <1>2 DEF OrderInv, Warm

\* The server sends a response of the warm-up before ROI_BEGIN.
LEMMA OrderGrows ==
  ASSUME SafeInv, OrderInv, NEW new \in Seq(Message), wire' = wire \o new,
         UNCHANGED <<resp, samples, status, nthreads>>, samples \subseteq Answered',
         \A m \in Message : Warm(m)' => Warm(m),
         WarmupSamples' \subseteq WarmupSamples,
         \A i \in DOMAIN new : Warm(new[i])' => i = 1 /\ finishedReqs < warmupReqs
  PROVE  OrderInv'
  <1>1. finishedReqs \in Nat /\ warmupReqs \in Nat
    BY ConstantTypes, Numbers DEF SafeInv
  <1>2. /\ \A i \in DOMAIN wire : i \in DOMAIN wire' /\ wire'[i] = wire[i] /\ i <= Len(wire)
        /\ \A i \in DOMAIN wire' \ DOMAIN wire :
             i > Len(wire) /\ i - Len(wire) \in DOMAIN new /\ wire'[i] = new[i - Len(wire)]
        /\ DOMAIN wire' \subseteq Nat /\ DOMAIN wire \subseteq Nat /\ DOMAIN new \subseteq Nat \ {0}
        /\ Len(wire) \in Nat
    BY WireIs DEF SafeInv
  <1>3. ASSUME NEW i \in DOMAIN wire' \ DOMAIN wire, wire'[i].type = "RESPONSE",
               ordinal'[wire'[i].id] <= warmupReqs
        PROVE  i = Len(wire) + 1 /\ finishedReqs < warmupReqs
    <2>1. i - Len(wire) = 1 /\ finishedReqs < warmupReqs
      BY <1>2, <1>3 DEF Warm
    <2> QED
      BY <1>2, <2>1
  <1>4. ASSUME NEW i \in DOMAIN wire, wire'[i].type = "RESPONSE", ordinal'[wire'[i].id] <= warmupReqs
        PROVE  Warm(wire[i])
    <2>1. wire \in Seq(Message)
      BY Numbers DEF SafeInv
    <2>2. wire[i] \in Message
      BY <2>1
    <2> QED
      BY <1>2, <1>4, <2>2 DEF Warm
  <1>5. ASSUME NEW i \in DOMAIN wire', NEW j \in DOMAIN wire', i < j, wire'[i] = RoiBegin,
               wire'[j].type = "RESPONSE", ordinal'[wire'[j].id] <= warmupReqs
        PROVE  FALSE
    <2>1. CASE i \in DOMAIN wire /\ j \in DOMAIN wire
      BY <1>2, <1>4, <1>5, <2>1 DEF OrderInv
    <2>2. CASE j \notin DOMAIN wire
      <3>1. j = Len(wire) + 1 /\ finishedReqs < warmupReqs
        BY <1>3, <1>5, <2>2
      <3>2. i \in DOMAIN wire
        BY <1>2, <1>5, <3>1
      <3>3. RoiBegin \in Msgs
        BY <1>2, <1>5, <3>2 DEF Msgs
      <3> QED
        BY <1>1, <3>1, <3>3, RoiBeginDue DEF SafeInv
    <2>3. CASE j \in DOMAIN wire /\ i \notin DOMAIN wire
      BY <1>2, <1>5, <2>3
    <2> QED
      BY <2>1, <2>2, <2>3
  <1>6. ASSUME status = "ROI" \/ (\E r \in Receivers : resp[r] = RoiBegin), NEW i \in DOMAIN wire',
               wire'[i].type = "RESPONSE", ordinal'[wire'[i].id] <= warmupReqs
        PROVE  FALSE
    <2>1. i \notin DOMAIN wire
      BY <1>4, <1>6 DEF OrderInv
    <2>2. RoiBegin \in Msgs \/ status = "ROI"
      BY <1>6 DEF Msgs, RoiBegin, Nothing
    <2>3. finishedReqs >= warmupReqs
      BY <2>2, RoiBeginDue DEF SafeInv
    <2> QED
      BY <1>1, <1>3, <1>6, <2>1, <2>3
  <1>7. Held' \subseteq Held
    <2>1. \A r \in Receivers : resp[r] \in Message
      BY DEF SafeInv, Types
    <2> QED
      BY <2>1 DEF Held
  <1>8. status' = "ROI" => Cardinality(WarmupSamples') + Cardinality(Held') < nthreads'
    BY <1>7, FewWarmKept
  <1>9. status' # "ROI" => samples' = {}
    BY DEF OrderInv
  <1> QED
    BY <1>5, <1>6, <1>8, <1>9 DEF OrderInv, Warm

\* A sender does not move the phase to or from ROI.
LEMMA SenderPhase ==
  ASSUME SafeInv, NEW s \in Senders, SenderStep(s)
  PROVE  status' = "ROI" <=> status = "ROI"
  <1>1. CASE SetUp(s)
    <2>1. status' = status \/ (~dist /\ status' = "WARMUP")
      BY <1>1 DEF SetUp, FirstHere
    <2>2. ~dist => status = "INIT"
      BY DEF SafeInv, BarrierInv
    <2> QED
      BY <2>1, <2>2
  <1>2. CASE ~SetUp(s)
    BY <1>2 DEF SenderStep, TestStatus, Leave, Generate, Send, SendFails, BrokenPipe, clientVars
  <1> QED
    BY <1>1, <1>2

\* What reading a message changes: its reader held none before.
LEMMA ReadIs ==
  ASSUME SafeInv, NEW r \in Receivers, Read(r)
  PROVE  /\ UNCHANGED <<status, samples, ordinal, nthreads, inFlightReqs, finishedReqs, conn, lats>>
         /\ resp[r] = Nothing /\ pc[r] = "read" /\ resp'[r] = wire[1] /\ 1 \in DOMAIN wire
         /\ \A q \in Receivers : q # r => resp'[q] = resp[q]
         /\ \A i \in DOMAIN wire' : i + 1 \in DOMAIN wire /\ wire'[i] = wire[i + 1] /\ i \in Nat \ {0}
         /\ \A i \in DOMAIN wire : i \in Nat \ {0} /\ (i # 1 => i - 1 \in DOMAIN wire' /\ wire'[i - 1] = wire[i])
  <1>1. /\ resp' = [resp EXCEPT ![r] = Head(wire)] /\ wire' = Tail(wire) /\ wire # <<>>
        /\ UNCHANGED <<status, samples, ordinal, nthreads, inFlightReqs, finishedReqs, conn, lats>>
    BY DEF Read, clientVars, serverVars
  <1>2. resp[r] = Nothing /\ pc[r] = "read"
    BY DEF Read, Goto, SafeInv, ThreadsInv
  <1>3. /\ 1 \in DOMAIN wire /\ Head(wire) = wire[1]
        /\ DOMAIN wire' = 1..(Len(wire) - 1) /\ DOMAIN wire = 1..Len(wire) /\ Len(wire) \in Nat
        /\ \A i \in DOMAIN wire' : i + 1 \in DOMAIN wire /\ wire'[i] = wire[i + 1]
    BY <1>1, MessagesAre DEF SafeInv
  <1>4. resp \in [Receivers -> Message]
    BY DEF SafeInv, Types
  <1>5. /\ \A i \in DOMAIN wire' : i \in Nat \ {0}
        /\ \A i \in DOMAIN wire : i \in Nat \ {0} /\ (i # 1 => i - 1 \in DOMAIN wire' /\ (i - 1) + 1 = i)
    BY <1>3
  <1>6. \A i \in DOMAIN wire : i # 1 => wire'[i - 1] = wire[i]
    BY <1>3, <1>5
  <1> QED
    BY <1>1, <1>2, <1>3, <1>4, <1>5, <1>6

\* What applying a response changes.
LEMMA FiniReqIs ==
  ASSUME SafeInv, NEW r \in Receivers, FiniReq(r)
  PROVE  /\ UNCHANGED <<status, wire, ordinal, nthreads, finishedReqs, conn, lats>>
         /\ resp[r] = Response(resp[r].id) /\ resp[r].id \in Answered /\ pc[r] = "apply"
         /\ resp'[r] = Nothing /\ \A q \in Receivers : q # r => resp'[q] = resp[q]
         /\ samples' = IF status = "ROI" THEN samples \cup {resp[r].id} ELSE samples
  <1>1. /\ resp' = [resp EXCEPT ![r] = Nothing] /\ resp[r].type = "RESPONSE" /\ pc[r] = "apply"
        /\ UNCHANGED <<status, wire, ordinal, nthreads, finishedReqs, conn, lats>>
        /\ samples' = IF status = "ROI" THEN samples \cup {resp[r].id} ELSE samples
    BY DEF FiniReq, Goto, serverVars
  <1>2. resp \in [Receivers -> Message]
    BY DEF SafeInv, Types
  <1>3. resp[r] \in Msgs
    BY <1>1 DEF Msgs, Nothing
  <1>4. resp[r].id \in Answered
    BY <1>1, <1>3 DEF SafeInv, MessageInv, Due, RoiBegin, FinishMsg
  <1>5. resp[r] = Response(resp[r].id)
    BY <1>1, <1>2 DEF Response, Message
  <1> QED
    BY <1>1, <1>2, <1>4, <1>5

\* What the beginning of the region of interest changes.
LEMMA StartRoiIs ==
  ASSUME SafeInv, NEW r \in Receivers, StartRoi(r)
  PROVE  /\ UNCHANGED <<wire, ordinal, nthreads, finishedReqs, conn, lats>>
         /\ resp[r] = RoiBegin /\ status = "WARMUP" /\ status' = "ROI" /\ samples' = {}
         /\ resp'[r] = Nothing /\ \A q \in Receivers : q # r => resp'[q] = resp[q]
         /\ pc[r] = "apply"
  <1>1. /\ resp' = [resp EXCEPT ![r] = Nothing] /\ resp[r].type = "ROI_BEGIN" /\ pc[r] = "apply"
        /\ UNCHANGED <<wire, ordinal, nthreads, finishedReqs, conn, lats>>
        /\ status = "WARMUP" /\ status' = "ROI" /\ samples' = {}
    BY DEF StartRoi, PhaseInRoi, Goto, serverVars
  <1>2. resp \in [Receivers -> Message]
    BY DEF SafeInv, Types
  <1>3. resp[r] \in Msgs
    BY <1>1 DEF Msgs, Nothing
  <1>4. resp[r] = RoiBegin
    BY <1>1, <1>3 DEF SafeInv, MessageInv, Due, RoiBegin, FinishMsg
  <1> QED
    BY <1>1, <1>2, <1>4

\* What an answer changes in the books: the request had none.
LEMMA AnswerIs ==
  ASSUME SafeInv, NEW id \in pending, Answer(id)
  PROVE  /\ UNCHANGED <<resp, samples, status, nthreads, pc, lats>> /\ conn = "open" /\ conn' = conn
         /\ id \in Requests /\ id \notin Answered /\ ordinal[id] = 0
         /\ finishedReqs \in Nat /\ finishedReqs' = finishedReqs + 1 /\ ordinal'[id] = finishedReqs + 1
         /\ \A i \in Requests : ordinal[i] \in Nat /\ (i # id => ordinal'[i] = ordinal[i])
         /\ Answered \subseteq Answered' /\ Response(id) \notin Msgs
  <1>1. /\ UNCHANGED <<resp, samples, status, nthreads, pc, lats>> /\ conn = "open" /\ conn' = conn
        /\ finishedReqs' = finishedReqs + 1
        /\ ordinal' = [ordinal EXCEPT ![id] = finishedReqs + 1]
    BY DEF Answer, threadVars, clientVars
  <1>2. id \in Requests /\ id \notin Answered
    BY DEF SafeInv, Types, CountInv
  <1>3. ordinal \in [Requests -> Nat] /\ finishedReqs \in Nat
    BY Numbers DEF SafeInv
  <1>4. ordinal[id] = 0
    BY <1>2, <1>3 DEF Answered
  <1>5. /\ ordinal'[id] = finishedReqs + 1
        /\ \A i \in Requests : ordinal[i] \in Nat /\ (i # id => ordinal'[i] = ordinal[i])
    BY <1>1, <1>2, <1>3
  <1>6. Answered \subseteq Answered'
    BY <1>2, <1>5 DEF Answered
  <1>7. Response(id) \notin Msgs
    BY <1>2 DEF SafeInv, MessageInv, Due, Response, RoiBegin, FinishMsg
  <1> QED
    BY <1>1, <1>2, <1>3, <1>4, <1>5, <1>6, <1>7

\* Every step keeps the order of the messages and the number of the warm-up's samples.
LEMMA OrderStep ==
  ASSUME SafeInv, OrderInv, [Next]_vars
  PROVE  OrderInv'
  <1>1. ASSUME NEW s \in Senders, SenderStep(s) PROVE OrderInv'
    BY <1>1, SenderMoves, SenderPhase, OrderKept
  <1>2. ASSUME NEW r \in Receivers, Read(r) PROVE OrderInv'
    <2>1. /\ UNCHANGED <<status, samples, ordinal, nthreads>>
          /\ resp[r] = Nothing /\ resp'[r] = wire[1] /\ 1 \in DOMAIN wire
          /\ \A q \in Receivers : q # r => resp'[q] = resp[q]
          /\ \A i \in DOMAIN wire' : i + 1 \in DOMAIN wire /\ wire'[i] = wire[i + 1] /\ i \in Nat \ {0}
      BY <1>2, ReadIs
    <2>2. Answered' = Answered /\ WarmupSamples' = WarmupSamples
      BY <2>1 DEF Answered, WarmupSamples
    <2>3. ASSUME NEW i \in DOMAIN wire', NEW j \in DOMAIN wire', i < j, wire'[i] = RoiBegin
          PROVE  ~Warm(wire[j + 1])
      <3>1. i + 1 < j + 1
        BY <2>1, <2>3
      <3> QED
        BY <2>1, <2>3, <3>1 DEF OrderInv
    <2>4. ASSUME NEW q \in Receivers, resp'[q] = RoiBegin, NEW i \in DOMAIN wire'
          PROVE  ~Warm(wire[i + 1])
      <3>1. CASE q = r
        <4>1. wire[1] = RoiBegin /\ 1 < i + 1
          BY <2>1, <2>4, <3>1
        <4> QED
          BY <2>1, <4>1 DEF OrderInv
      <3>2. CASE q # r
        BY <2>1, <2>4, <3>2 DEF OrderInv
      <3> QED
        BY <3>1, <3>2
    <2>5. ASSUME status = "ROI" PROVE \A i \in DOMAIN wire' : ~Warm(wire[i + 1])
      BY <2>1, <2>5 DEF OrderInv
    <2>6. status' = "ROI" => Cardinality(WarmupSamples') + Cardinality(Held') < nthreads'
      <3>1. SUFFICES ASSUME status = "ROI"
                     PROVE  Cardinality(WarmupSamples') + Cardinality(Held') < nthreads'
        BY <2>1
      <3>2. ~Warm(wire[1])
        BY <2>1, <3>1 DEF OrderInv
      <3>3. Held' \subseteq Held
        BY <2>1, <3>2 DEF Held, Warm
      <3> QED
        BY <2>1, <2>2, <3>1, <3>3, FewWarmKept
    <2> QED
      BY <2>1, <2>2, <2>3, <2>4, <2>5, <2>6 DEF OrderInv, Warm
  <1>3. ASSUME NEW r \in Receivers, FiniReq(r) PROVE OrderInv'
    <2> DEFINE id == resp[r].id
    <2>1. /\ UNCHANGED <<status, wire, ordinal, nthreads>>
          /\ resp[r] = Response(id) /\ id \in Answered
          /\ resp'[r] = Nothing /\ \A q \in Receivers : q # r => resp'[q] = resp[q]
          /\ samples' = IF status = "ROI" THEN samples \cup {id} ELSE samples
      BY <1>3, FiniReqIs
    <2> HIDE DEF id
    <2>2. Answered' = Answered
      BY <2>1 DEF Answered
    <2>3. \A q \in Receivers : resp'[q] = RoiBegin => resp[q] = RoiBegin
      BY <2>1 DEF Nothing, RoiBegin
    <2>4. Held' = Held \ {r}
      BY <2>1 DEF Held, Warm, Nothing
    <2>5. status' = "ROI" => Cardinality(WarmupSamples') + Cardinality(Held') < nthreads'
      <3>1. SUFFICES ASSUME status = "ROI"
                     PROVE  Cardinality(WarmupSamples') + Cardinality(Held') < nthreads'
        BY <2>1
      <3>2. CASE ordinal[id] > warmupReqs
        <4>1. WarmupSamples' \subseteq WarmupSamples
          <5>1. ordinal[id] \in Nat /\ warmupReqs \in Nat
            BY <2>1, ConstantTypes, Numbers DEF SafeInv, Answered
          <5> QED
            BY <2>1, <3>1, <3>2, <5>1 DEF WarmupSamples
        <4> QED
          BY <2>1, <2>4, <3>1, <4>1, FewWarmKept
      <3>3. CASE ordinal[id] <= warmupReqs
        <4>1. r \in Held
          BY <2>1, <3>3 DEF Held, Warm, Response
        <4>2. Cardinality(Held') = Cardinality(Held) - 1
          BY <2>4, <4>1, HeldFinite, FS_RemoveElement
        <4>3. WarmupSamples' = WarmupSamples \cup {id}
          BY <2>1, <3>1, <3>3 DEF WarmupSamples
        <4>4. /\ Cardinality(WarmupSamples') <= Cardinality(WarmupSamples) + 1
              /\ Cardinality(WarmupSamples') \in Nat
          <5>1. \/ id \in WarmupSamples /\ WarmupSamples' = WarmupSamples
                \/ id \notin WarmupSamples /\ Cardinality(WarmupSamples') = Cardinality(WarmupSamples) + 1
            <6>1. CASE id \in WarmupSamples
              <7>1. WarmupSamples \cup {id} = WarmupSamples
                BY <6>1
              <7> QED
                BY <4>3, <6>1, <7>1
            <6>2. CASE id \notin WarmupSamples
              BY <4>3, <6>2, HeldFinite, FS_AddElement
            <6> QED
              BY <6>1, <6>2
          <5> QED
            BY <5>1, HeldFinite
        <4>5. Cardinality(WarmupSamples) + Cardinality(Held) < nthreads
          BY <3>1 DEF OrderInv
        <4> QED
          BY <2>1, <4>2, <4>4, <4>5, HeldFinite
      <3>4. ordinal[id] \in Nat /\ warmupReqs \in Nat
        BY <2>1, ConstantTypes, Numbers DEF SafeInv, Answered
      <3> QED
        BY <3>2, <3>3, <3>4
    <2>6. samples' \subseteq Answered' /\ (status' # "ROI" => samples' = {})
      BY <2>1, <2>2 DEF OrderInv
    <2> QED
      BY <2>1, <2>3, <2>5, <2>6 DEF OrderInv, Warm
  <1>4. ASSUME NEW r \in Receivers, StartRoi(r) PROVE OrderInv'
    <2>1. /\ UNCHANGED <<wire, ordinal, nthreads>> /\ pc[r] = "apply"
          /\ resp[r] = RoiBegin /\ status' = "ROI" /\ samples' = {}
          /\ resp'[r] = Nothing /\ \A q \in Receivers : q # r => resp'[q] = resp[q]
      BY <1>4, StartRoiIs
    <2>2. \A i \in DOMAIN wire : ~Warm(wire[i])
      BY <2>1 DEF OrderInv
    <2>3. WarmupSamples' = {} /\ Cardinality(WarmupSamples') = 0
      BY <2>1, FS_EmptySet DEF WarmupSamples
    <2>4. Held' \subseteq ActiveReceivers \ {r} /\ r \in ActiveReceivers
      <3>1. r \in ActiveReceivers
        BY <2>1 DEF ActiveReceivers
      <3>2. Held' \subseteq Held \ {r}
        BY <2>1 DEF Held, Warm, Nothing
      <3> QED
        BY <3>1, <3>2, HeldFinite
    <2>5. /\ Cardinality(ActiveReceivers \ {r}) = nthreads - 1
          /\ IsFiniteSet(ActiveReceivers \ {r})
      BY <2>4, HeldFinite, FS_RemoveElement
    <2>6. Cardinality(Held') <= nthreads - 1 /\ Cardinality(Held') \in Nat
      BY <2>4, <2>5, FS_Subset, FS_CardinalityType
    <2>7. Cardinality(WarmupSamples') + Cardinality(Held') < nthreads'
      BY <2>1, <2>3, <2>6, HeldFinite
    <2> QED
      BY <2>1, <2>2, <2>7 DEF OrderInv, Warm
  <1>5. ASSUME NEW r \in Receivers, ReceiverStep(r) PROVE OrderInv'
    <2>1. CASE LockRecv(r) \/ ReadFails(r) \/ AssertFails(r) \/ Finish(r)
      <3>1. UNCHANGED <<wire, resp, samples, ordinal, nthreads, status>>
        BY <2>1 DEF LockRecv, ReadFails, AssertFails, Finish, threadVars, clientVars, serverVars
      <3> QED
        BY <3>1, OrderKept
    <2> QED
      BY <1>2, <1>3, <1>4, <1>5, <2>1 DEF ReceiverStep
  <1>6. ASSUME NEW id \in pending, Answer(id) PROVE OrderInv'
    <2>1. /\ UNCHANGED <<resp, samples, status, nthreads>>
          /\ id \in Requests /\ id \notin Answered /\ ordinal[id] = 0
          /\ finishedReqs \in Nat /\ ordinal'[id] = finishedReqs + 1
          /\ \A i \in Requests : ordinal[i] \in Nat /\ (i # id => ordinal'[i] = ordinal[i])
          /\ Answered \subseteq Answered'
      BY <1>6, AnswerIs
    <2>2. PICK new \in Seq(Message) :
            /\ wire' = wire \o new
            /\ \A i \in DOMAIN new :
                 (i = 1 /\ new[i] = Response(id)) \/ new[i] = RoiBegin \/ new[i] = FinishMsg
      BY <1>6, AnswerSends
    <2>3. warmupReqs \in Nat /\ samples \subseteq Requests
      BY ConstantTypes DEF SafeInv, Types
    <2>4. ASSUME NEW m \in Message, Warm(m)' PROVE Warm(m)
      <3>1. m.id \in Requests
        BY DEF Message
      <3> QED
        BY <2>1, <2>3, <2>4, <3>1 DEF Warm
    <2>5. WarmupSamples' \subseteq WarmupSamples
      BY <2>1, <2>3 DEF WarmupSamples
    <2>6. ASSUME NEW i \in DOMAIN new, Warm(new[i])' PROVE i = 1 /\ finishedReqs < warmupReqs
      <3>1. i = 1 /\ new[i] = Response(id)
        BY <2>2, <2>6 DEF Warm, RoiBegin, FinishMsg
      <3>2. ordinal'[id] <= warmupReqs
        BY <2>6, <3>1 DEF Warm, Response
      <3> QED
        BY <2>1, <2>3, <3>1, <3>2
    <2>7. samples \subseteq Answered'
      BY <2>1 DEF OrderInv
    <2> QED
      BY <2>1, <2>2, <2>4, <2>5, <2>6, <2>7, OrderGrows
  <1>7. CASE AnswerOther
    <2>1. UNCHANGED <<resp, samples, status, nthreads, ordinal>>
      BY <1>7 DEF AnswerOther, threadVars, clientVars
    <2>2. PICK new \in Seq(Message) :
            wire' = wire \o new /\ \A i \in DOMAIN new : new[i] = RoiBegin \/ new[i] = FinishMsg
      BY <1>7, OtherSends
    <2>3. Answered' = Answered /\ WarmupSamples' = WarmupSamples /\ samples \subseteq Answered
      BY <2>1 DEF Answered, WarmupSamples, OrderInv
    <2>4. \A m \in Message : Warm(m)' => Warm(m)
      BY <2>1 DEF Warm
    <2>5. \A i \in DOMAIN new : ~Warm(new[i])'
      BY <2>2 DEF Warm, RoiBegin, FinishMsg
    <2> QED
      BY <2>1, <2>2, <2>3, <2>4, <2>5, OrderGrows
  <1>8. CASE ServerEnds \/ ResetArrives \/ Join \/ Killed \/ UNCHANGED vars
    <2>1. UNCHANGED <<resp, samples, status, nthreads, ordinal>> /\ wire' \in {wire, <<>>}
      BY <1>8 DEF ServerEnds, ResetArrives, Join, Killed, vars, threadVars, clientVars, serverVars
    <2>2. CASE wire' = <<>>
      <3>1. DOMAIN wire' = {} /\ Answered' = Answered /\ WarmupSamples' = WarmupSamples /\ Held' = Held
        BY <2>1, <2>2 DEF Answered, WarmupSamples, Held, Warm
      <3> QED
        BY <2>1, <3>1 DEF OrderInv
    <2> QED
      BY <2>1, <2>2, OrderKept
  <1> QED
    BY <1>1, <1>5, <1>6, <1>7, <1>8, NextKinds DEF Outside
-----------------------------------------------------------------------------
(* What is recorded: a client with one receiver.                           *)

\* A request answered after the warm-up; its response and FINISH, which the server sends
\* after ROI_BEGIN; a message that is taken before the one at place j.
Late == {id \in Requests : ordinal[id] > warmupReqs}
LateMsg(m) == m = FinishMsg \/ \E id \in Late : m = Response(id)
Reads(m) == \E r \in Receivers : resp[r] = m
Ahead(m, j) == Reads(m) \/ \E i \in DOMAIN wire : i < j /\ wire[i] = m
Taken(id, j) == id \in samples \/ Ahead(Response(id), j)

\* While the connection is open no answer is lost; before the region of interest begins,
\* what the server sends after ROI_BEGIN comes after it; FINISH comes after the answers to
\* the measured requests and before every later one.
NothingLost ==
  conn = "open" =>
    /\ finishedReqs >= warmupReqs => status = "ROI" \/ RoiBegin \in Msgs
    /\ \A id \in Late : id \in samples \/ Response(id) \in Msgs
AfterRoi ==
  status # "ROI" =>
    /\ \A r \in Receivers : ~LateMsg(resp[r])
    /\ \A j \in DOMAIN wire : LateMsg(wire[j]) => Ahead(RoiBegin, j)
BeforeFinish ==
  \A i \in DOMAIN wire : wire[i] = FinishMsg =>
    /\ \A id \in Measured : Taken(id, i)
    /\ \A id \in Requests : Taken(id, i) => ordinal[id] <= warmupReqs + maxReqs
AtFinish ==
  Reads(FinishMsg) =>
    /\ Measured \subseteq samples
    /\ \A id \in samples : ordinal[id] <= warmupReqs + maxReqs
StreamInv == nthreads = 1 => NothingLost /\ AfterRoi /\ BeforeFinish /\ AtFinish

\* The messages are told apart.
LEMMA MessagesDiffer ==
  /\ RoiBegin # Nothing /\ FinishMsg # Nothing /\ RoiBegin # FinishMsg
  /\ \A id : Response(id) # Nothing /\ Response(id) # RoiBegin /\ Response(id) # FinishMsg
  /\ \A i, j : Response(i) = Response(j) => i = j
  BY DEF RoiBegin, FinishMsg, Nothing, Response

\* One receiver holds at most one message.
LEMMA OneReceiver ==
  ASSUME SafeInv, nthreads = 1, NEW r \in Receivers, pc[r] # "none"
  PROVE  \A q \in Receivers : q # r => resp[q] = Nothing
  <1>1. IsFiniteSet(ActiveReceivers) /\ Cardinality(ActiveReceivers) = 1
    BY ConstantTypes, FS_Subset DEF ActiveReceivers, SafeInv, ThreadsInv
  <1>2. PICK x : ActiveReceivers = {x}
    BY <1>1, FS_Singleton
  <1>3. r = x
    BY <1>2 DEF ActiveReceivers
  <1> QED
    BY <1>2, <1>3 DEF ActiveReceivers, SafeInv, ThreadsInv

\* Who is taken ahead is under way.
LEMMA AheadIsUnderWay ==
  ASSUME NEW m, NEW j, Ahead(m, j), m # Nothing
  PROVE  m \in Msgs
  BY DEF Ahead, Reads, Msgs

\* A step that neither reads nor sends a message nor applies one.
LEMMA StreamKept ==
  ASSUME StreamInv, UNCHANGED <<wire, resp, samples, ordinal, finishedReqs, nthreads>>,
         conn' = "open" => conn = "open", status' = "ROI" <=> status = "ROI"
  PROVE  StreamInv'
  <1>1. Late' = Late /\ Measured' = Measured /\ Msgs' = Msgs
    BY DEF Late, Measured, Msgs
  <1>2. \A m, j : Ahead(m, j)' <=> Ahead(m, j)
    BY DEF Ahead, Reads
  <1>3. /\ \A m : LateMsg(m)' <=> LateMsg(m)
        /\ \A id, j : Taken(id, j)' <=> Taken(id, j)
    BY <1>1, <1>2 DEF LateMsg, Taken
  <1>4. ASSUME NothingLost PROVE NothingLost'
    BY <1>1, <1>4 DEF NothingLost
  <1>5. ASSUME AfterRoi PROVE AfterRoi'
    <2>1. \A r \in Receivers : LateMsg(resp[r])' <=> LateMsg(resp[r])
      BY <1>1 DEF LateMsg
    <2>2. \A j \in DOMAIN wire : LateMsg(wire[j])' <=> LateMsg(wire[j])
      BY <1>1 DEF LateMsg
    <2> QED
      BY <1>2, <1>5, <2>1, <2>2 DEF AfterRoi
  <1>6. ASSUME BeforeFinish PROVE BeforeFinish'
    BY <1>1, <1>3, <1>6 DEF BeforeFinish
  <1>7. ASSUME AtFinish PROVE AtFinish'
    BY <1>1, <1>7 DEF AtFinish, Reads
  <1> QED
    BY <1>4, <1>5, <1>6, <1>7 DEF StreamInv

\* Reading keeps the order: the first message of the wire is in the hands of the receiver.
LEMMA StreamRead ==
  ASSUME SafeInv, OrderInv, StreamInv, nthreads = 1, NEW r \in Receivers, Read(r)
  PROVE  StreamInv'
  <1>1. /\ UNCHANGED <<status, samples, ordinal, nthreads, finishedReqs, conn>>
        /\ resp[r] = Nothing /\ pc[r] = "read" /\ resp'[r] = wire[1] /\ 1 \in DOMAIN wire
        /\ \A q \in Receivers : q # r => resp'[q] = resp[q]
        /\ \A i \in DOMAIN wire' : i + 1 \in DOMAIN wire /\ wire'[i] = wire[i + 1] /\ i \in Nat \ {0}
        /\ \A i \in DOMAIN wire :
             i \in Nat \ {0} /\ (i # 1 => i - 1 \in DOMAIN wire' /\ wire'[i - 1] = wire[i])
    BY ReadIs
  <1>2. \A q \in Receivers : resp[q] = Nothing /\ (q # r => resp'[q] = Nothing)
    BY <1>1, OneReceiver
  <1>3. Late' = Late /\ Measured' = Measured
    BY <1>1 DEF Late, Measured
  <1>4. \A m : LateMsg(m)' <=> LateMsg(m)
    BY <1>3 DEF LateMsg
  <1>5. \A m : m # Nothing => ~Reads(m) /\ (Reads(m)' <=> m = wire[1])
    BY <1>1, <1>2 DEF Reads
  <1>6. ASSUME NEW m, m # Nothing, NEW j \in DOMAIN wire'
        PROVE  Ahead(m, j)' <=> Ahead(m, j + 1)
    <2>1. ASSUME NEW i \in DOMAIN wire', i < j, wire'[i] = m PROVE Ahead(m, j + 1)
      <3>1. i + 1 < j + 1 /\ i + 1 \in DOMAIN wire /\ wire[i + 1] = m
        BY <1>1, <2>1
      <3> QED
        BY <3>1 DEF Ahead
    <2>2. ASSUME m = wire[1] PROVE Ahead(m, j + 1)
      <3>1. 1 < j + 1
        BY <1>1
      <3> QED
        BY <1>1, <2>2, <3>1 DEF Ahead
    <2>3. ASSUME NEW i \in DOMAIN wire, i < j + 1, wire[i] = m, i # 1 PROVE Ahead(m, j)'
      <3>1. i - 1 < j /\ i - 1 \in DOMAIN wire' /\ wire'[i - 1] = m
        BY <1>1, <2>3
      <3> QED
        BY <3>1 DEF Ahead
    <2>4. ASSUME m = wire[1] PROVE Ahead(m, j)'
      BY <1>5, <1>6, <2>4 DEF Ahead
    <2> QED
      BY <1>5, <1>6, <2>1, <2>2, <2>3, <2>4 DEF Ahead
  <1>7. ASSUME NEW m, m # Nothing PROVE ~Ahead(m, 1)
    <2>1. \A i \in DOMAIN wire : ~(i < 1)
      BY <1>1
    <2> QED
      BY <1>5, <1>7, <2>1 DEF Ahead
  <1>8. ASSUME NEW m \in Msgs PROVE m \in Msgs'
    <2>1. m # Nothing
      BY DEF SafeInv, MessageInv, Due, Nothing, RoiBegin, FinishMsg
    <2>2. PICK i \in DOMAIN wire : m = wire[i]
      BY <1>2 DEF Msgs
    <2>3. CASE i = 1
      BY <1>1, <2>1, <2>2, <2>3 DEF Msgs
    <2>4. CASE i # 1
      BY <1>1, <2>2, <2>4 DEF Msgs
    <2> QED
      BY <2>3, <2>4
  <1>9. NothingLost'
    BY <1>1, <1>3, <1>8 DEF NothingLost, StreamInv
  <1>10. AfterRoi'
    <2>1. SUFFICES ASSUME status # "ROI" PROVE AfterRoi'
      BY <1>1 DEF AfterRoi
    <2>2. \A j \in DOMAIN wire : LateMsg(wire[j]) => Ahead(RoiBegin, j)
      BY <2>1 DEF StreamInv, AfterRoi
    <2>3. ASSUME NEW q \in Receivers, resp'[q] = FinishMsg \/ \E id \in Late : resp'[q] = Response(id)
          PROVE  FALSE
      <3>1. q = r
        BY <1>2, <2>3, MessagesDiffer
      <3>2. LateMsg(wire[1])
        BY <1>1, <2>3, <3>1 DEF LateMsg
      <3> QED
        BY <1>1, <1>7, <2>2, <3>2, MessagesDiffer
    <2>4. ASSUME NEW j \in DOMAIN wire',
                 wire'[j] = FinishMsg \/ \E id \in Late : wire'[j] = Response(id)
          PROVE  Ahead(RoiBegin, j)'
      <3>1. LateMsg(wire[j + 1]) /\ j + 1 \in DOMAIN wire
        BY <1>1, <2>4 DEF LateMsg
      <3> QED
        BY <1>6, <2>2, <3>1, MessagesDiffer
    <2> QED
      BY <1>3, <2>3, <2>4 DEF AfterRoi, LateMsg
  <1>11. ASSUME NEW j \in DOMAIN wire', NEW id PROVE Taken(id, j)' <=> Taken(id, j + 1)
    BY <1>1, <1>6, MessagesDiffer DEF Taken
  <1>12. BeforeFinish'
    <2>1. ASSUME NEW i \in DOMAIN wire', wire'[i] = FinishMsg
          PROVE  /\ \A id \in Measured : Taken(id, i + 1)
                 /\ \A id \in Requests : Taken(id, i + 1) => ordinal[id] <= warmupReqs + maxReqs
      <3>1. i + 1 \in DOMAIN wire /\ wire[i + 1] = FinishMsg
        BY <1>1, <2>1
      <3> QED
        BY <3>1 DEF StreamInv, BeforeFinish
    <2> QED
      BY <1>1, <1>3, <1>11, <2>1 DEF BeforeFinish
  <1>13. AtFinish'
    <2>1. SUFFICES ASSUME wire[1] = FinishMsg
                   PROVE  Measured \subseteq samples
                          /\ \A id \in samples : ordinal[id] <= warmupReqs + maxReqs
      BY <1>1, <1>3, <1>5, MessagesDiffer DEF AtFinish
    <2>2. /\ \A id \in Measured : Taken(id, 1)
          /\ \A id \in Requests : Taken(id, 1) => ordinal[id] <= warmupReqs + maxReqs
      BY <1>1, <2>1 DEF StreamInv, BeforeFinish
    <2>3. \A id : Taken(id, 1) <=> id \in samples
      BY <1>7, MessagesDiffer DEF Taken
    <2>4. samples \subseteq Requests
      BY DEF SafeInv, Types
    <2> QED
      BY <2>2, <2>3, <2>4
  <1> QED
    BY <1>9, <1>10, <1>12, <1>13 DEF StreamInv

\* Applying a message keeps it: only its receiver holds one.
LEMMA StreamApply ==
  ASSUME SafeInv, OrderInv, StreamInv, nthreads = 1, NEW r \in Receivers, FiniReq(r) \/ StartRoi(r)
  PROVE  StreamInv'
  <1> DEFINE id == resp[r].id
  <1>1. /\ UNCHANGED <<wire, ordinal, nthreads, finishedReqs, conn>> /\ resp[r] # Nothing
        /\ pc[r] = "apply" /\ resp'[r] = Nothing /\ \A q \in Receivers : q # r => resp'[q] = resp[q]
        /\ \/ /\ resp[r] = Response(id) /\ UNCHANGED status
              /\ samples' = IF status = "ROI" THEN samples \cup {id} ELSE samples
           \/ resp[r] = RoiBegin /\ status # "ROI" /\ status' = "ROI" /\ samples' = {}
    BY FiniReqIs, StartRoiIs, MessagesDiffer
  <1> HIDE DEF id
  <1>2. \A q \in Receivers : (q # r => resp[q] = Nothing) /\ resp'[q] = Nothing
    BY <1>1, OneReceiver
  <1>3. /\ Late' = Late /\ Measured' = Measured /\ Measured \subseteq Late
        /\ warmupReqs \in Nat /\ maxReqs \in Nat
    BY <1>1, ConstantTypes DEF Late, Measured
  <1>4. \A m : m # Nothing => ~Reads(m)' /\ (Reads(m) <=> m = resp[r])
    BY <1>1, <1>2 DEF Reads
  <1>5. ASSUME NEW m, NEW j, m # Nothing, m # resp[r] PROVE Ahead(m, j)' <=> Ahead(m, j)
    BY <1>1, <1>4, <1>5 DEF Ahead
  <1>6. ASSUME NEW m \in Msgs, m # resp[r] PROVE m \in Msgs'
    BY <1>1, <1>2, <1>6 DEF Msgs
  <1>7. status # "ROI" => samples = {}
    BY DEF OrderInv
  <1>8. CASE resp[r] = RoiBegin /\ status # "ROI" /\ status' = "ROI" /\ samples' = {}
    <2>1. samples' = samples
      BY <1>7, <1>8
    <2>2. \A x, j : Taken(x, j)' <=> Taken(x, j)
      BY <1>5, <1>8, <2>1, MessagesDiffer DEF Taken
    <2>3. NothingLost'
      BY <1>1, <1>3, <1>6, <1>8, <2>1, MessagesDiffer DEF NothingLost, StreamInv
    <2>4. AfterRoi' /\ AtFinish'
      BY <1>4, <1>8, MessagesDiffer DEF AfterRoi, AtFinish
    <2>5. BeforeFinish'
      BY <1>1, <1>3, <2>2 DEF BeforeFinish, StreamInv
    <2> QED
      BY <2>3, <2>4, <2>5 DEF StreamInv
  <1>9. CASE /\ resp[r] = Response(id) /\ UNCHANGED status
             /\ samples' = IF status = "ROI" THEN samples \cup {id} ELSE samples
    <2>1. status # "ROI" => id \notin Late
      BY <1>9 DEF StreamInv, AfterRoi, LateMsg
    <2>2. ASSUME NEW x \in Late, NEW j, Taken(x, j) PROVE Taken(x, j)'
      <3>1. CASE x = id
        BY <1>9, <2>1, <3>1 DEF Taken
      <3>2. CASE x # id
        BY <1>5, <1>9, <2>2, <3>2, MessagesDiffer DEF Taken
      <3> QED
        BY <3>1, <3>2
    <2>3. ASSUME NEW x, NEW j, Taken(x, j)' PROVE Taken(x, j)
      <3>1. CASE x = id
        <4>1. Reads(Response(id))
          BY <1>4, <1>9, MessagesDiffer
        <4> QED
          BY <3>1, <4>1 DEF Taken, Ahead
      <3>2. CASE x # id
        BY <1>5, <1>9, <2>3, <3>2, MessagesDiffer DEF Taken
      <3> QED
        BY <3>1, <3>2
    <2>4. NothingLost'
      <3>1. ASSUME NEW x \in Late, x \in samples \/ Response(x) \in Msgs
            PROVE  x \in samples' \/ Response(x) \in Msgs'
        <4>1. CASE x = id
          BY <1>9, <2>1, <4>1
        <4>2. CASE x # id
          BY <1>6, <1>9, <3>1, <4>2, MessagesDiffer
        <4> QED
          BY <4>1, <4>2
      <3>2. RoiBegin \in Msgs => RoiBegin \in Msgs'
        BY <1>6, <1>9, MessagesDiffer
      <3> QED
        BY <1>1, <1>3, <1>9, <3>1, <3>2 DEF NothingLost, StreamInv
    <2>5. AfterRoi'
      <3>1. SUFFICES ASSUME status # "ROI" PROVE AfterRoi'
        BY <1>9 DEF AfterRoi
      <3>2. \A q \in Receivers : ~LateMsg(resp[q])'
        BY <1>2, MessagesDiffer DEF LateMsg
      <3>3. ASSUME NEW j \in DOMAIN wire, LateMsg(wire[j])' PROVE Ahead(RoiBegin, j)'
        <4>1. LateMsg(wire[j])
          BY <1>1, <1>3, <3>3 DEF LateMsg
        <4>2. Ahead(RoiBegin, j)
          BY <3>1, <4>1 DEF StreamInv, AfterRoi
        <4> QED
          BY <1>5, <1>9, <4>2, MessagesDiffer
      <3> QED
        BY <1>1, <3>2, <3>3 DEF AfterRoi
    <2>6. BeforeFinish'
      BY <1>1, <1>3, <2>2, <2>3 DEF BeforeFinish, StreamInv
    <2>7. AtFinish'
      BY <1>4, MessagesDiffer DEF AtFinish
    <2> QED
      BY <2>4, <2>5, <2>6, <2>7 DEF StreamInv
  <1> QED
    BY <1>1, <1>8, <1>9

\* The server answers the requests of N, at most one, and sends what its count calls for.
LEMMA StreamGrows ==
  ASSUME SafeInv, SafeInv', OrderInv, StreamInv, nthreads = 1, conn = "open",
         NEW new \in Seq(Message), wire' = wire \o new, NEW N \in SUBSET Requests,
         UNCHANGED <<resp, samples, status, nthreads, conn>>, finishedReqs' = finishedReqs + 1,
         \A id \in Requests \ N : ordinal'[id] = ordinal[id],
         \A id \in N : /\ ordinal'[id] = finishedReqs + 1 /\ ordinal[id] = 0 /\ id \notin Answered
                       /\ Response(id) \notin Msgs
                       /\ 1 \in DOMAIN new /\ new[1] = Response(id),
         \A i \in DOMAIN new :
           \/ i = 1 /\ \E id \in N : new[i] = Response(id)
           \/ new[i] = RoiBegin
           \/ new[i] = FinishMsg /\ finishedReqs' = warmupReqs + maxReqs /\ (N # {} => i = 2),
         finishedReqs' = warmupReqs => \E i \in DOMAIN new : new[i] = RoiBegin
  PROVE  StreamInv'
  <1>1. /\ finishedReqs \in Nat /\ warmupReqs \in Nat \ {0} /\ maxReqs \in Nat \ {0}
        /\ \A id \in Requests : ordinal[id] \in Nat /\ ordinal'[id] \in Nat /\ ordinal'[id] <= finishedReqs'
    <2>1. ordinal \in [Requests -> Nat] /\ finishedReqs \in Nat
      BY Numbers DEF SafeInv
    <2>2. ordinal' \in [Requests -> Nat] /\ \A id \in Requests : ordinal'[id] <= finishedReqs'
      BY DEF SafeInv, Types, CountInv
    <2> QED
      BY <2>1, <2>2, ConstantTypes
  <1>2. /\ \A i \in DOMAIN wire : i \in DOMAIN wire' /\ wire'[i] = wire[i] /\ i <= Len(wire)
        /\ \A i \in DOMAIN new : Len(wire) + i \in DOMAIN wire' /\ wire'[Len(wire) + i] = new[i]
        /\ \A i \in DOMAIN wire' \ DOMAIN wire :
             i > Len(wire) /\ i - Len(wire) \in DOMAIN new /\ wire'[i] = new[i - Len(wire)]
        /\ DOMAIN wire' \subseteq Nat /\ DOMAIN wire \subseteq Nat /\ DOMAIN new \subseteq Nat \ {0}
        /\ Len(wire) \in Nat
    BY WireIs DEF SafeInv
  <1>3. /\ \A id \in Requests : id \in Late' <=> id \in Late \/ (id \in N /\ finishedReqs >= warmupReqs)
        /\ Late \subseteq Requests /\ Late' \subseteq Requests
        /\ \A id \in N : id \notin Late
    BY <1>1 DEF Late
  <1>4. /\ \A id \in Measured : id \in Late
        /\ \A id \in Measured' : id \in Measured \/ id \in N
        /\ finishedReqs >= warmupReqs + maxReqs => Measured' = Measured
        /\ Measured \subseteq Requests /\ Measured' \subseteq Requests
    BY <1>1 DEF Measured, Late
  <1>5. \A m : Reads(m)' <=> Reads(m)
    BY DEF Reads
  <1>6. \A m \in Msgs : m \in Msgs'
    BY <1>2 DEF Msgs
  <1>7. \A i \in DOMAIN new : new[i] \in Msgs'
    BY <1>2 DEF Msgs
  <1>8. ASSUME NEW m, NEW j \in DOMAIN wire PROVE Ahead(m, j)' <=> Ahead(m, j)
    <2>1. ASSUME NEW i \in DOMAIN wire', i < j PROVE i \in DOMAIN wire
      BY <1>2, <2>1
    <2> QED
      BY <1>2, <1>5, <2>1 DEF Ahead
  <1>9. ASSUME NEW m \in Msgs, NEW j \in DOMAIN wire' \ DOMAIN wire PROVE Ahead(m, j)'
    <2>1. CASE \E r \in Receivers : m = resp[r]
      BY <1>5, <2>1 DEF Ahead, Reads
    <2>2. CASE \E i \in DOMAIN wire : m = wire[i]
      <3>1. PICK i \in DOMAIN wire : m = wire[i]
        BY <2>2
      <3>2. i \in DOMAIN wire' /\ wire'[i] = m /\ i < j
        BY <1>2, <3>1
      <3> QED
        BY <3>2 DEF Ahead
    <2> QED
      BY <2>1, <2>2 DEF Msgs
  <1>10. ASSUME NEW m \in Msgs, LateMsg(m)' PROVE LateMsg(m)
    <2>1. ASSUME NEW id \in Late', m = Response(id) PROVE id \in Late
      BY <1>3, <2>1
    <2> QED
      BY <1>10, <2>1 DEF LateMsg
  <1>11. FinishMsg \in Msgs => finishedReqs >= warmupReqs + maxReqs
    BY DEF SafeInv, MessageInv, Due, FinishMsg, RoiBegin
  <1>12. finishedReqs >= warmupReqs => status = "ROI" \/ RoiBegin \in Msgs
    BY DEF StreamInv, NothingLost
  <1>13. NothingLost'
    <2>1. ASSUME finishedReqs' >= warmupReqs PROVE status' = "ROI" \/ RoiBegin \in Msgs'
      <3>1. finishedReqs >= warmupReqs \/ finishedReqs' = warmupReqs
        BY <1>1, <2>1
      <3> QED
        BY <1>6, <1>7, <1>12, <3>1
    <2>2. ASSUME NEW id \in Late' PROVE id \in samples' \/ Response(id) \in Msgs'
      <3>1. CASE id \in Late
        BY <1>6, <3>1 DEF StreamInv, NothingLost
      <3>2. CASE id \in N
        <4>1. 1 \in DOMAIN new /\ new[1] = Response(id)
          BY <3>2
        <4> QED
          BY <1>7, <4>1
      <3> QED
        BY <1>3, <3>1, <3>2
    <2> QED
      BY <2>1, <2>2 DEF NothingLost
  <1>14. AfterRoi'
    <2>1. SUFFICES ASSUME status # "ROI" PROVE AfterRoi'
      BY DEF AfterRoi
    <2>2. ASSUME NEW r \in Receivers, LateMsg(resp[r])' PROVE FALSE
      <3>1. resp[r] # Nothing
        BY <2>2, MessagesDiffer DEF LateMsg
      <3>2. resp[r] \in Msgs
        BY <3>1 DEF Msgs
      <3>3. LateMsg(resp[r])
        <4>1. ASSUME NEW id \in Late', resp[r] = Response(id) PROVE id \in Late
          BY <1>3, <3>2, <4>1
        <4> QED
          BY <2>2, <4>1 DEF LateMsg
      <3> QED
        BY <2>1, <3>3 DEF StreamInv, AfterRoi
    <2>3. ASSUME NEW j \in DOMAIN wire',
                 wire'[j] = FinishMsg \/ \E id \in Late' : wire'[j] = Response(id)
          PROVE  Ahead(RoiBegin, j)'
      <3>1. CASE j \in DOMAIN wire
        <4>1. wire[j] \in Msgs /\ wire'[j] = wire[j]
          BY <1>2, <3>1 DEF Msgs
        <4>2. LateMsg(wire[j])
          <5>1. ASSUME NEW id \in Late', wire[j] = Response(id) PROVE id \in Late
            BY <1>3, <4>1, <5>1
          <5> QED
            BY <2>3, <4>1, <5>1 DEF LateMsg
        <4> QED
          BY <1>8, <2>1, <3>1, <4>2 DEF StreamInv, AfterRoi
      <3>2. CASE j \notin DOMAIN wire
        <4> DEFINE k == j - Len(wire)
        <4>1. k \in DOMAIN new /\ wire'[j] = new[k]
          BY <1>2, <3>2
        <4> HIDE DEF k
        <4>2. finishedReqs >= warmupReqs
          <5>1. CASE wire'[j] = FinishMsg
            <6>1. finishedReqs' = warmupReqs + maxReqs
              BY <4>1, <5>1, MessagesDiffer
            <6> QED
              BY <1>1, <6>1
          <5>2. ASSUME NEW id \in Late', wire'[j] = Response(id) PROVE finishedReqs >= warmupReqs
            <6>1. id \in N
              BY <4>1, <5>2, MessagesDiffer
            <6> QED
              BY <1>3, <5>2, <6>1
          <5> QED
            BY <2>3, <5>1, <5>2
        <4>3. RoiBegin \in Msgs
          BY <1>12, <2>1, <4>2
        <4> QED
          BY <1>9, <3>2, <4>3
      <3> QED
        BY <3>1, <3>2
    <2> QED
      BY <2>2, <2>3 DEF AfterRoi, LateMsg
  <1>15. ASSUME NEW id \in samples PROVE id \notin N /\ id \in Requests
    BY DEF OrderInv, Answered
  <1>16. BeforeFinish'
    <2>1. ASSUME NEW i \in DOMAIN wire, wire[i] = FinishMsg
          PROVE  /\ \A id \in Measured' : Taken(id, i)'
                 /\ \A id \in Requests : Taken(id, i)' => ordinal'[id] <= warmupReqs + maxReqs
      <3>1. Measured' = Measured
        BY <1>4, <1>11, <2>1 DEF Msgs
      <3>2. \A id : Taken(id, i)' <=> Taken(id, i)
        BY <1>8 DEF Taken
      <3>3. /\ \A id \in Measured : Taken(id, i)
            /\ \A id \in Requests : Taken(id, i) => ordinal[id] <= warmupReqs + maxReqs
        BY <2>1 DEF StreamInv, BeforeFinish
      <3>4. \A id \in N : ~Taken(id, i)
        BY <1>15, AheadIsUnderWay, MessagesDiffer DEF Taken
      <3> QED
        BY <3>1, <3>2, <3>3, <3>4
    <2>2. ASSUME NEW i \in DOMAIN wire' \ DOMAIN wire, wire'[i] = FinishMsg
          PROVE  /\ \A id \in Measured' : Taken(id, i)'
                 /\ \A id \in Requests : Taken(id, i)' => ordinal'[id] <= warmupReqs + maxReqs
      <3>1. i - Len(wire) \in DOMAIN new /\ new[i - Len(wire)] = FinishMsg /\ i \in Nat
        BY <1>2, <2>2
      <3>2. finishedReqs' = warmupReqs + maxReqs /\ (N # {} => i - Len(wire) = 2)
        BY <3>1, MessagesDiffer
      <3>3. ASSUME NEW id \in Measured' PROVE Taken(id, i)'
        <4>1. CASE id \in Measured
          <5>1. id \in samples \/ Response(id) \in Msgs
            BY <1>4, <4>1 DEF StreamInv, NothingLost
          <5> QED
            BY <1>9, <5>1 DEF Taken
        <4>2. CASE id \in N
          <5>1. 1 \in DOMAIN new /\ new[1] = Response(id) /\ i - Len(wire) = 2
            BY <3>2, <4>2
          <5>2. Len(wire) + 1 < i /\ Len(wire) + 1 \in DOMAIN wire' /\ wire'[Len(wire) + 1] = Response(id)
            <6>1. Len(wire) + 1 < i
              BY <1>2, <3>1, <5>1
            <6> QED
              BY <1>2, <5>1, <6>1
          <5> QED
            BY <5>2 DEF Taken, Ahead
        <4> QED
          BY <1>4, <4>1, <4>2
      <3> QED
        BY <1>1, <3>2, <3>3
    <2> QED
      BY <1>2, <2>1, <2>2 DEF BeforeFinish
  <1>17. AtFinish'
    <2>1. SUFFICES ASSUME Reads(FinishMsg)
                   PROVE  Measured' \subseteq samples
                          /\ \A id \in samples : ordinal'[id] <= warmupReqs + maxReqs
      BY <1>5 DEF AtFinish
    <2>2. Measured' = Measured
      BY <1>4, <1>11, <2>1, MessagesDiffer DEF Msgs, Reads
    <2> QED
      BY <1>15, <2>1, <2>2 DEF StreamInv, AtFinish
  <1> QED
    BY <1>13, <1>14, <1>16, <1>17 DEF StreamInv

\* Every step keeps the stream of a client with one receiver.
LEMMA StreamStep ==
  ASSUME SafeInv, SafeInv', OrderInv, StreamInv, [Next]_vars
  PROVE  StreamInv'
  <1>0. nthreads' = nthreads
    BY SenderMoves, ReceiverMoves, OutsideMoves, NextKinds DEF threadVars
  <1> SUFFICES ASSUME nthreads = 1 PROVE StreamInv'
    BY <1>0 DEF StreamInv
  <1>1. ASSUME NEW s \in Senders, SenderStep(s) PROVE StreamInv'
    <2>1. conn' = "open" => conn = "open"
      BY <1>1 DEF SenderStep, TestStatus, Leave, SetUp, Generate, Send, SendFails, BrokenPipe
    <2> QED
      BY <1>1, <2>1, SenderMoves, SenderPhase, StreamKept
  <1>2. ASSUME NEW r \in Receivers, ReceiverStep(r) PROVE StreamInv'
    <2>1. CASE LockRecv(r) \/ ReadFails(r) \/ AssertFails(r) \/ Finish(r)
      <3>1. /\ UNCHANGED <<wire, resp, samples, ordinal, finishedReqs, nthreads, status>>
            /\ conn' = "open" => conn = "open"
        BY <2>1 DEF LockRecv, ReadFails, AssertFails, Finish, threadVars, clientVars, serverVars
      <3> QED
        BY <3>1, StreamKept
    <2> QED
      BY <1>2, <2>1, StreamRead, StreamApply DEF ReceiverStep
  <1>3. ASSUME NEW id \in pending, Answer(id) PROVE StreamInv'
    <2>1. /\ UNCHANGED <<resp, samples, status, nthreads>> /\ conn = "open" /\ conn' = conn
          /\ id \in Requests /\ id \notin Answered /\ ordinal[id] = 0
          /\ finishedReqs' = finishedReqs + 1 /\ ordinal'[id] = finishedReqs + 1
          /\ \A i \in Requests : i # id => ordinal'[i] = ordinal[i]
          /\ Response(id) \notin Msgs
      BY <1>3, AnswerIs
    <2>2. PICK new \in Seq(Message) :
            /\ wire' = wire \o new /\ 1 \in DOMAIN new /\ new[1] = Response(id)
            /\ \A i \in DOMAIN new :
                 \/ i = 1
                 \/ i = 2 /\ new[i] = RoiBegin /\ finishedReqs' = warmupReqs
                 \/ i = 2 /\ new[i] = FinishMsg /\ finishedReqs' = warmupReqs + maxReqs
            /\ finishedReqs' = warmupReqs => \E i \in DOMAIN new : new[i] = RoiBegin
      BY <1>3, AnswerSends
    <2> DEFINE N == {id}
    <2>3. /\ N \in SUBSET Requests /\ id \in N
          /\ \A i \in Requests \ N : ordinal'[i] = ordinal[i]
          /\ \A i \in N : /\ ordinal'[i] = finishedReqs + 1 /\ ordinal[i] = 0 /\ i \notin Answered
                          /\ Response(i) \notin Msgs
                          /\ 1 \in DOMAIN new /\ new[1] = Response(i)
      BY <2>1, <2>2
    <2> HIDE DEF N
    <2>4. \A i \in DOMAIN new :
            \/ i = 1 /\ \E x \in N : new[i] = Response(x)
            \/ new[i] = RoiBegin
            \/ new[i] = FinishMsg /\ finishedReqs' = warmupReqs + maxReqs /\ (N # {} => i = 2)
      BY <2>2, <2>3
    <2> QED
      BY <2>1, <2>2, <2>3, <2>4, StreamGrows
  <1>4. CASE AnswerOther
    <2>1. /\ UNCHANGED <<resp, samples, status, nthreads, conn, ordinal>> /\ conn = "open"
          /\ finishedReqs' = finishedReqs + 1
      BY <1>4 DEF AnswerOther, threadVars, clientVars
    <2>2. PICK new \in Seq(Message) :
            /\ wire' = wire \o new
            /\ \A i \in DOMAIN new :
                 new[i] = RoiBegin \/ (new[i] = FinishMsg /\ finishedReqs' = warmupReqs + maxReqs)
            /\ finishedReqs' = warmupReqs => \E i \in DOMAIN new : new[i] = RoiBegin
      BY <1>4, OtherSends
    <2> DEFINE N == {}
    <2>3. N \in SUBSET Requests /\ N = {} /\ \A i \in Requests \ N : ordinal'[i] = ordinal[i]
      BY <2>1
    <2> HIDE DEF N
    <2> QED
      BY <2>1, <2>2, <2>3, StreamGrows
  <1>5. CASE ServerEnds
    <2>1. /\ UNCHANGED <<resp, samples, status, nthreads, ordinal, finishedReqs>>
          /\ conn' # "open" /\ wire' \in {wire, <<>>}
      BY <1>5 DEF ServerEnds, threadVars, clientVars, serverVars
    <2>2. CASE wire' = <<>>
      <3>1. /\ DOMAIN wire' = {} /\ Late' = Late /\ Measured' = Measured
            /\ Reads(FinishMsg)' <=> Reads(FinishMsg)
        BY <2>1, <2>2 DEF Late, Measured, Reads
      <3>2. NothingLost' /\ BeforeFinish'
        BY <2>1, <3>1 DEF NothingLost, BeforeFinish
      <3>3. \A r \in Receivers : LateMsg(resp[r])' <=> LateMsg(resp[r])
        BY <2>1, <3>1 DEF LateMsg
      <3>4. AfterRoi' /\ AtFinish'
        BY <2>1, <3>1, <3>3 DEF StreamInv, AfterRoi, AtFinish
      <3> QED
        BY <3>2, <3>4 DEF StreamInv
    <2> QED
      BY <2>1, <2>2, StreamKept
  <1>6. CASE ResetArrives \/ Join \/ Killed \/ UNCHANGED vars
    <2>1. /\ UNCHANGED <<resp, samples, status, nthreads, ordinal, wire, finishedReqs>>
          /\ conn' = "open" => conn = "open"
      BY <1>6 DEF ResetArrives, Join, Killed, vars, threadVars, clientVars, serverVars
    <2> QED
      BY <2>1, StreamKept
  <1> QED
    BY <1>1, <1>2, <1>3, <1>4, <1>5, <1>6, NextKinds DEF Outside

\* The latencies that a client with one receiver dumps are those of the measured requests.
EndInv == nthreads = 1 /\ process = "exit 0" => lats = Measured

\* Every step keeps that.
LEMMA EndStep ==
  ASSUME SafeInv, OrderInv, StreamInv, EndInv, [Next]_vars
  PROVE  EndInv'
  <1>0. SUFFICES ASSUME nthreads' = 1, process' = "exit 0" PROVE lats' = Measured'
    BY DEF EndInv
  <1>1. nthreads = 1
    BY <1>0, SenderMoves, ReceiverMoves, OutsideMoves, NextKinds DEF threadVars
  <1>2. CASE UNCHANGED vars
    BY <1>0, <1>1, <1>2 DEF vars, threadVars, clientVars, serverVars, EndInv, Measured
  <1>3. ASSUME NEW r \in Receivers, Finish(r) PROVE lats' = Measured'
    <2>1. resp[r].type = "FINISH" /\ lats' = samples /\ ordinal' = ordinal
      BY <1>3 DEF Finish, serverVars
    <2>2. Due(resp[r])
      <3>1. resp[r] # Nothing
        BY <2>1 DEF Nothing
      <3>2. resp[r] \in Msgs
        BY <3>1 DEF Msgs
      <3> QED
        BY <3>2 DEF SafeInv, MessageInv
    <2>3. resp[r] = FinishMsg
      BY <2>1, <2>2 DEF Due, RoiBegin
    <2>4. Measured \subseteq samples /\ \A id \in samples : ordinal[id] <= warmupReqs + maxReqs
      BY <1>1, <2>3 DEF StreamInv, AtFinish, Reads
    <2>5. WarmupSamples = {}
      <3>1. CASE status = "ROI"
        <4>1. Cardinality(WarmupSamples) + Cardinality(Held) < 1
          BY <1>1, <3>1 DEF OrderInv
        <4>2. Cardinality(WarmupSamples) = 0
          <5>1. Cardinality(WarmupSamples) \in Nat /\ Cardinality(Held) \in Nat
            BY HeldFinite
          <5> QED
            BY <4>1, <5>1
        <4> QED
          BY <4>2, HeldFinite, FS_EmptySet
      <3>2. CASE status # "ROI"
        BY <3>2 DEF OrderInv, WarmupSamples
      <3> QED
        BY <3>1, <3>2
    <2>6. ordinal \in [Requests -> Nat] /\ samples \subseteq Requests
      BY DEF SafeInv, Types
    <2>7. warmupReqs \in Nat /\ maxReqs \in Nat
      BY ConstantTypes
    <2>8. ASSUME NEW id \in samples PROVE id \in Measured
      <3>1. ordinal[id] \in Nat /\ ~(ordinal[id] <= warmupReqs) /\ ordinal[id] <= warmupReqs + maxReqs
        BY <2>4, <2>5, <2>6 DEF WarmupSamples
      <3>2. ordinal[id] \in (warmupReqs + 1)..(warmupReqs + maxReqs)
        BY <2>7, <3>1
      <3> QED
        BY <2>6, <3>2 DEF Measured
    <2>9. Measured' = Measured
      BY <2>1 DEF Measured
    <2> QED
      BY <2>1, <2>4, <2>8, <2>9
  <1>4. CASE process = "up" /\ \A r \in Receivers : ~Finish(r)
    <2>1. ASSUME NEW s \in Senders, SenderStep(s) PROVE process' \in {process, "killed"}
      BY <2>1 DEF SenderStep, TestStatus, Leave, SetUp, Generate, Send, SendFails, BrokenPipe
    <2>2. ASSUME NEW r \in Receivers, ReceiverStep(r) PROVE process' \in {process, "aborted"}
      BY <1>4, <2>2 DEF ReceiverStep, LockRecv, Read, ReadFails, FiniReq, StartRoi, AssertFails
    <2>3. Outside => process' \in {process, "returned", "killed"}
      BY DEF Outside, Answer, AnswerOther, ServerEnds, ResetArrives, Join, Killed, vars
    <2> QED
      BY <1>0, <1>4, <2>1, <2>2, <2>3, NextKinds
  <1> QED
    BY <1>2, <1>3, <1>4 DEF Next

\* What a client records: with any number of threads, the warm-up's requests among its
\* samples are fewer than its receivers; with one receiver it dumps exactly its requests
\* that were answered between ROI_BEGIN and FINISH.
THEOREM ClientRecordsTheWindow == Spec => []RecordsWindow
  <1> DEFINE WindowInv == SafeInv /\ OrderInv /\ StreamInv /\ EndInv
  <1>1. Init => WindowInv
    <2> SUFFICES ASSUME Init PROVE WindowInv
      OBVIOUS
    <2>1. SafeInv /\ process = "up"
      BY SafeInit
    <2>2. /\ samples = {} /\ wire = <<>> /\ status = "INIT" /\ finishedReqs = 0
          /\ ordinal = [id \in Requests |-> 0] /\ resp = [r \in Receivers |-> Nothing]
      BY DEF Init
    <2>3. DOMAIN wire = {} /\ \A r \in Receivers : resp[r] = Nothing
      BY <2>2
    <2>4. OrderInv
      BY <2>2, <2>3 DEF OrderInv
    <2>5. Late = {} /\ ~(finishedReqs >= warmupReqs)
      BY <2>2, ConstantTypes DEF Late
    <2>6. StreamInv
      BY <2>2, <2>3, <2>5, MessagesDiffer
         DEF StreamInv, NothingLost, AfterRoi, BeforeFinish, AtFinish, LateMsg, Reads
    <2> QED
      BY <2>1, <2>4, <2>6 DEF EndInv
  <1>2. WindowInv /\ [Next]_vars => WindowInv'
    BY SafeStep, OrderStep, StreamStep, EndStep
  <1>3. WindowInv => RecordsWindow
    <2> SUFFICES ASSUME WindowInv PROVE RecordsWindow
      OBVIOUS
    <2>1. Cardinality(WarmupSamples) < nthreads
      <3>1. CASE status = "ROI"
        BY <3>1, HeldFinite DEF OrderInv
      <3>2. CASE status # "ROI"
        <4>1. WarmupSamples = {}
          BY <3>2 DEF OrderInv, WarmupSamples
        <4> QED
          BY <4>1, FS_EmptySet, HeldFinite
      <3> QED
        BY <3>1, <3>2
    <2> QED
      BY <2>1 DEF RecordsWindow, EndInv
  <1> HIDE DEF WindowInv
  <1> QED
    BY <1>1, <1>2, <1>3, PTL DEF Spec
=============================================================================
