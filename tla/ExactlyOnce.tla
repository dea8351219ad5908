---------------------------- MODULE ExactlyOnce ----------------------------
(***************************************************************************)
(* What the harness promises its clients: a request is answered once, by a *)
(* response to the client that sent it, and answers come in the order in   *)
(* which they were given.  Between them it may send notices.  A client may *)
(* leave at any time, also because of a notice; the service may close, and *)
(* only then may what is in a mailbox be lost.                             *)
(***************************************************************************)
EXTENDS Integers, Sequences

CONSTANTS
  Clients,
  Notice      \* what a mailbox holds for a message that is not an answer

VARIABLES
  submitted,  \* how many requests each client has sent; the next one's id
  pending,    \* its requests that have no answer
  mailbox,    \* the answers and notices on their way to it
  connected,  \* the clients that have not left
  open        \* whether the service runs

vars == <<submitted, pending, mailbox, connected, open>>

Init ==
  /\ submitted = [c \in Clients |-> 0]
  /\ pending = [c \in Clients |-> {}]
  /\ mailbox = [c \in Clients |-> <<>>]
  /\ connected = Clients
  /\ open = TRUE

Submit(c) ==
  /\ open /\ c \in connected
  /\ submitted' = [submitted EXCEPT ![c] = @ + 1]
  /\ pending' = [pending EXCEPT ![c] = @ \cup {submitted[c]}]
  /\ UNCHANGED <<mailbox, connected, open>>

Answer(c, id) ==
  /\ open /\ c \in connected
  /\ id \in pending[c]
  /\ pending' = [pending EXCEPT ![c] = @ \ {id}]
  /\ mailbox' = [mailbox EXCEPT ![c] = Append(@, id)]
  /\ UNCHANGED <<submitted, connected, open>>

Notify(c) ==
  /\ open /\ c \in connected
  /\ mailbox' = [mailbox EXCEPT ![c] = Append(@, Notice)]
  /\ UNCHANGED <<submitted, pending, connected, open>>

Take(c) ==
  /\ c \in connected
  /\ mailbox[c] # <<>>
  /\ mailbox' = [mailbox EXCEPT ![c] = Tail(@)]
  /\ UNCHANGED <<submitted, pending, connected, open>>

Leave(c) ==
  /\ c \in connected
  /\ connected' = connected \ {c}
  /\ \/ UNCHANGED mailbox
     \/ /\ mailbox[c] # <<>> /\ Head(mailbox[c]) = Notice
        /\ mailbox' = [mailbox EXCEPT ![c] = Tail(@)]
  /\ UNCHANGED <<submitted, pending, open>>

\* Nobody waits for the answer any more; trying to give it may end the service.
Abandon(c, id) ==
  /\ c \notin connected
  /\ id \in pending[c]
  /\ pending' = [pending EXCEPT ![c] = @ \ {id}]
  /\ open' \in {open, FALSE}
  /\ UNCHANGED <<submitted, mailbox, connected>>

Close ==
  /\ open' = FALSE
  /\ UNCHANGED <<submitted, pending, mailbox, connected>>

Lose(c) ==
  /\ ~open
  /\ mailbox[c] # <<>>
  /\ mailbox' = [mailbox EXCEPT ![c] = SubSeq(@, 1, Len(@) - 1)]
  /\ UNCHANGED <<submitted, pending, connected, open>>

Next ==
  \/ \E c \in Clients :
       \/ Submit(c) \/ Notify(c) \/ Take(c) \/ Leave(c) \/ Lose(c)
       \/ \E id \in pending[c] : Answer(c, id) \/ Abandon(c, id)
  \/ Close

Spec == Init /\ [][Next]_vars
=============================================================================
