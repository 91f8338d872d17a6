------------------------------ MODULE MsgQueue ------------------------------
(***************************************************************************)
(* msgtool.c: one queue of messages between processes, named by a key.     *)
(* Every call looks the queue up by msgget and then works on what it found; *)
(* in between, another process may remove the queue, and a third one may    *)
(* have made a new one for the key.  The queues are the kernel's.           *)
(***************************************************************************)
EXTENDS Integers, Sequences, SequencesExt

CONSTANTS
  Waiters, Lookers,  \* the processes that receive: any message, or one of a type
  Senders, Others,   \* those that send, and those that clear and inspect
  Types,                       \* the types of messages: positive numbers
  Capacity,                    \* the messages a queue has room for
  MaxMessages, MaxClears,      \* bounds: messages sent, calls of the others
  MaxFailures                  \* bound: calls that fail for other reasons

ASSUME MsgQueueAssumption ==
  /\ Types \subseteq Nat \ {0} /\ Capacity \in Nat \ {0}
  /\ MaxMessages \in Nat /\ MaxClears \in Nat /\ MaxFailures \in Nat

Users == Waiters \cup Lookers \cup Senders \cup Others

VARIABLES
  queue,     \* the queue of the key: its id, or 0 if there is none
  created,   \* queues so far
  msgs,      \* the messages in it: type and number
  at,        \* where each process is: "idle", "msgget", "work" or "blocked"
  req,       \* its call: function, Msgtype, Flag
  id,        \* qid of the call, or 0
  sent,      \* messages sent so far, which numbers them
  received,  \* history: the messages received, with the type asked for
  clears, failures

queueVars == <<queue, created, msgs, at, req, id, sent, received, clears, failures>>

NoCall == [fn |-> "none", type |-> 0, wait |-> FALSE]

QueueInit ==
  /\ queue = 0 /\ created = 0 /\ msgs = <<>>
  /\ at = [u \in Users |-> "idle"]
  /\ req = [u \in Users |-> NoCall]
  /\ id = [u \in Users |-> 0]
  /\ sent = 0 /\ received = <<>> /\ clears = 0 /\ failures = 0

-----------------------------------------------------------------------------
CallQueue(u, fn, type, wait) ==
  /\ at[u] = "idle"
  /\ req' = [req EXCEPT ![u] = [fn |-> fn, type |-> type, wait |-> wait]]
  /\ at' = [at EXCEPT ![u] = "msgget"]

WaitForAny(u) ==
  /\ CallQueue(u, "recv_qmsg", 0, TRUE)
  /\ UNCHANGED <<queue, created, msgs, id, sent, received, clears, failures>>

LookFor(u) ==
  /\ \E type \in Types : CallQueue(u, "recv_qmsg", type, FALSE)
  /\ UNCHANGED <<queue, created, msgs, id, sent, received, clears, failures>>

StartSend(u) ==
  /\ sent < MaxMessages
  /\ \E type \in Types, wait \in BOOLEAN : CallQueue(u, "send_qmsg", type, wait)
  /\ UNCHANGED <<queue, created, msgs, id, sent, received, clears, failures>>

ClearOrInspect(u) ==
  /\ clears < MaxClears /\ clears' = clears + 1
  /\ \E fn \in {"clr_que", "get_qinfo"} : CallQueue(u, fn, 0, FALSE)
  /\ UNCHANGED <<queue, created, msgs, id, sent, received, failures>>

-----------------------------------------------------------------------------
Returns(u) ==
  /\ at' = [at EXCEPT ![u] = "idle"]
  /\ req' = [req EXCEPT ![u] = NoCall]
  /\ id' = [id EXCEPT ![u] = 0]

QueueFn(u) == req[u].fn

(* msgget: clr_que only finds a queue, the others also create it. *)
MsgGet(u) ==
  /\ at[u] = "msgget"
  /\ IF queue = 0 /\ QueueFn(u) = "clr_que"
     THEN Returns(u) /\ UNCHANGED <<queue, created>>
     ELSE /\ at' = [at EXCEPT ![u] = "work"] /\ UNCHANGED req
          /\ created' = IF queue = 0 THEN created + 1 ELSE created
          /\ queue' = IF queue = 0 THEN created + 1 ELSE queue
          /\ id' = [id EXCEPT ![u] = queue']
  /\ UNCHANGED <<msgs, sent, received, clears, failures>>

(* Definitions named Bug... are deliberate mistakes that nothing uses: they *)
(* check that the properties would notice them.  Here: *Msgtype is not      *)
(* looked at; or 0 is taken for a type.                                     *)
BugTypeAsked(u) == 0

BugTypeAskedPositive(u) == Max({1, req[u].type})

TypeAsked(u) == req[u].type

Selected(u) == {k \in DOMAIN msgs : TypeAsked(u) \in {0, msgs[k].type}}

Possible(u) ==
  CASE QueueFn(u) = "recv_qmsg" -> Selected(u) # {}
    [] QueueFn(u) = "send_qmsg" -> Len(msgs) < Capacity
    [] OTHER -> TRUE

Working(u) == at[u] \in {"work", "blocked"}

Receive(u) ==
  /\ Working(u) /\ QueueFn(u) = "recv_qmsg" /\ id[u] = queue /\ Possible(u)
  /\ LET k == Min(Selected(u))
     IN  /\ received' = Append(received,
              [asked |-> req[u].type, type |-> msgs[k].type, n |-> msgs[k].n])
         /\ msgs' = RemoveAt(msgs, k)
  /\ Returns(u)
  /\ UNCHANGED <<queue, created, sent, clears, failures>>

Send(u) ==
  /\ Working(u) /\ QueueFn(u) = "send_qmsg" /\ id[u] = queue /\ Possible(u)
  /\ sent' = sent + 1
  /\ msgs' = Append(msgs, [type |-> req[u].type, n |-> sent + 1])
  /\ Returns(u)
  /\ UNCHANGED <<queue, created, received, clears, failures>>

(* clr_que removes the queue and what is in it; get_qinfo only looks. *)
ClearQueue(u) ==
  /\ at[u] = "work" /\ QueueFn(u) \in {"clr_que", "get_qinfo"} /\ id[u] = queue
  /\ IF QueueFn(u) = "clr_que" THEN queue' = 0 /\ msgs' = <<>> ELSE UNCHANGED <<queue, msgs>>
  /\ Returns(u)
  /\ UNCHANGED <<created, sent, received, clears, failures>>

BlockOnQueue(u) ==
  /\ at[u] = "work" /\ id[u] = queue /\ ~Possible(u) /\ req[u].wait
  /\ at' = [at EXCEPT ![u] = "blocked"]
  /\ UNCHANGED <<queue, created, msgs, req, id, sent, received, clears, failures>>

(* The call returns -1: the queue it works on is gone, which also wakes it  *)
(* up; nothing to do for IPC_NOWAIT; a text longer than MSGSIZE, a signal.  *)
FailQueue(u) ==
  /\ at[u] # "idle"
  /\ \/ Working(u) /\ id[u] # queue /\ UNCHANGED failures
     \/ at[u] = "work" /\ id[u] = queue /\ ~Possible(u) /\ ~req[u].wait /\ UNCHANGED failures
     \/ failures < MaxFailures /\ failures' = failures + 1
  /\ Returns(u)
  /\ UNCHANGED <<queue, created, msgs, sent, received, clears>>

QueueStep(u) ==
  \/ MsgGet(u) \/ Receive(u) \/ Send(u) \/ ClearQueue(u) \/ BlockOnQueue(u) \/ FailQueue(u)

QueueNext ==
  \/ \E u \in Waiters : WaitForAny(u)
  \/ \E u \in Lookers : LookFor(u)
  \/ \E u \in Senders : StartSend(u)
  \/ \E u \in Others : ClearOrInspect(u)
  \/ \E u \in Users : QueueStep(u)

QueueSpec == QueueInit /\ [][QueueNext]_queueVars

(* A call goes on when it can, and a receiver asks for any message again    *)
(* and again.                                                               *)
QueueFairness ==
  /\ \A u \in Users : WF_queueVars(QueueStep(u))
  /\ \A u \in Waiters : SF_queueVars(WaitForAny(u))

-----------------------------------------------------------------------------
(* Whoever receives, and however often the queue is removed and made anew,   *)
(* messages of one type come in the order they were sent, no message comes   *)
(* twice, and nobody gets a type that he did not ask for.                    *)
TypesInOrder ==
  \A j \in DOMAIN received :
    /\ received[j].asked \in {0, received[j].type}
    /\ \A i \in 1..(j - 1) :
         received[i].type = received[j].type => received[i].n < received[j].n

(* A message that was sent does not stay: a receiver that waits for any      *)
(* message gets it, unless the queue is cleared.  Nobody waits for ever on a  *)
(* queue that was removed while the messages go to the one made after it.    *)
SentIsReceived ==
  \A n \in 1..MaxMessages :
    (\E k \in DOMAIN msgs : msgs[k].n = n) ~> ~\E k \in DOMAIN msgs : msgs[k].n = n
=============================================================================
