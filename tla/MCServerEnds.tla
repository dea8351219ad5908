---------------------------- MODULE MCServerEnds ----------------------------
(***************************************************************************)
(* How NetworkedServer goes on and how it ends, in one instance: by the    *)
(* count of responses, which sends FINISH to the clients; by the quota of  *)
(* the server, while the count never gets so far; or not at all, while     *)
(* neither is reached.  And with three clients by the count, where FINISH  *)
(* may pass one of them over.                                              *)
(***************************************************************************)
EXTENDS MCNetworkedServer

VARIABLE end     \* "count", "quota", "open" or "three", for the whole behavior

ByQuota == INSTANCE NetworkedServer WITH MaxReqs <- 0, NumReqsToProcess <- 3
Open == INSTANCE NetworkedServer WITH MaxReqs <- 0, NumReqsToProcess <- NumClients * Supply + 1
Three == INSTANCE NetworkedServer WITH NumClients <- 3, WarmupReqs <- 0, MaxReqs <- 1, Supply <- 1

Step(w) ==
  /\ \/ end = "count" /\ WorkerStep(w)
     \/ end = "quota" /\ ByQuota!WorkerStep(w)
     \/ end = "open" /\ Open!WorkerStep(w)
     \/ end = "three" /\ Three!WorkerStep(w)
  /\ UNCHANGED end

\* All that the clients may send has been answered.
Settled(c) == started[c] = Supply /\ inFlight[c] = {}
Quiet ==
  /\ \/ end = "open" /\ \A c \in Clients : Settled(c)
     \/ end = "three" /\ \A c \in Three!Clients : started[c] = 1 \/ ~Connected(c)
  /\ UNCHANGED <<vars, end>>

SendsRequest(c) == end # "three" /\ ClientSend(c) /\ UNCHANGED end
TakesMessage(c) == end # "three" /\ ClientReceive(c) /\ UNCHANGED end
ThreeClients ==
  /\ end = "three" /\ UNCHANGED end
  /\ \E c \in Three!Clients : Three!ClientSend(c) \/ Three!ClientReceive(c) \/ Three!ResetLoses(c)

Environment ==
  \/ \E c \in Clients : \/ SendsRequest(c) \/ TakesMessage(c)
                        \/ (ClientKilled(c) \/ ResetLoses(c)) /\ end # "three" /\ UNCHANGED end
  \/ ThreeClients
  \/ Stopped /\ UNCHANGED end
  \/ Quiet

EndsInit ==
  \/ Init /\ end \in {"count", "quota", "open"}
  \/ Three!Init /\ end = "three"

EndsSpec ==
  /\ EndsInit
  /\ [][Environment \/ \E w \in Workers : Step(w)]_<<vars, end>>
  /\ \A w \in Workers : WF_<<vars, end>>(Step(w))
  /\ \A c \in Clients : WF_<<vars, end>>(SendsRequest(c)) /\ WF_<<vars, end>>(TakesMessage(c))
-----------------------------------------------------------------------------
\* Of three clients the broadcast of FINISH passes over one at most, although those it
\* has reached leave and are erased while it goes on.
OnePassedOver == end = "three" => Three!MostGetFinish

\* The server process ends, by the exit of the last of two clients or by its quota:
\* no worker waits for ever for a lock, for a request, or to be joined.
ServerEnds == end \in {"count", "quota"} => <>(server # "up")

\* While neither end is reached every request is answered, and the answer is read: no
\* client waits for ever, with nothing promised of who gets a lock next.
RequestsAnswered == end = "open" => \A c \in Clients : <>[]Settled(c)
=============================================================================
