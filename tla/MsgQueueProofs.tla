--------------------------- MODULE MsgQueueProofs ---------------------------
(***************************************************************************)
(* Messages of one type come in their order, for every number of processes, *)
(* types, messages and failures, and every capacity of the queue.           *)
(***************************************************************************)
EXTENDS MsgQueue, SequenceLemmas

Calls == {"none", "send_qmsg", "recv_qmsg", "clr_que", "get_qinfo"}

QueueTypes ==
  /\ sent \in Nat
  /\ msgs \in Seq([type : Nat, n : Nat])
  /\ received \in Seq([asked : Nat, type : Nat, n : Nat])
  /\ req \in [Users -> [fn : Calls, type : Nat, wait : BOOLEAN]]

(* The numbers in the queue increase, and are numbers of messages sent. *)
QueueSorted ==
  /\ \A k \in DOMAIN msgs : msgs[k].n <= sent
  /\ \A i, k \in DOMAIN msgs : i < k => msgs[i].n < msgs[k].n

(* What is in the queue was sent after all that was received of its type;    *)
(* of other types later ones may have been received.                         *)
QueueLater ==
  \A j \in DOMAIN received :
    /\ received[j].n <= sent
    /\ \A k \in DOMAIN msgs : msgs[k].type = received[j].type => received[j].n < msgs[k].n

QueueInv == QueueTypes /\ QueueSorted /\ QueueLater /\ TypesInOrder

-----------------------------------------------------------------------------
(* Lemmas about sequences and numbers *)

(* RemoveAt takes one element out and leaves the others in their order. *)
LEMMA OneRemoved ==
  ASSUME NEW S, NEW s \in Seq(S), NEW k \in 1..Len(s)
  PROVE  /\ RemoveAt(s, k) \in Seq(S)
         /\ DOMAIN RemoveAt(s, k) = 1..(Len(s) - 1)
         /\ \A i \in 1..(Len(s) - 1) :
              RemoveAt(s, k)[i] = IF i < k THEN s[i] ELSE s[i + 1]
<1> DEFINE front == SubSeq(s, 1, k - 1)
           back  == SubSeq(s, k + 1, Len(s))
<1>1. Len(s) \in Nat /\ k \in Nat /\ k >= 1 /\ k <= Len(s)
  OBVIOUS
<1>2. /\ front \in Seq(S) /\ Len(front) = k - 1
      /\ \A i \in 1..(k - 1) : front[i] = s[i]
  <2>1. \A i \in 1..(k - 1) : i \in 1..Len(s)
    BY <1>1
  <2>2. \A i \in 1..(k - 1) : s[i] \in S
    BY <2>1
  <2> QED
    BY <1>1, <2>1, <2>2, SubSeqProperties
<1>3. /\ back \in Seq(S) /\ Len(back) = Len(s) - k
      /\ \A i \in 1..(Len(s) - k) : back[i] = s[k + i]
  <2>1. \A i \in (k + 1)..Len(s) : i \in 1..Len(s)
    BY <1>1
  <2>2. \A i \in (k + 1)..Len(s) : s[i] \in S
    BY <2>1
  <2> QED
    BY <1>1, <2>1, <2>2, SubSeqProperties
<1> HIDE DEF front, back
<1>4. /\ front \o back \in Seq(S) /\ Len(front \o back) = Len(s) - 1
      /\ \A i \in 1..(Len(s) - 1) :
           (front \o back)[i] = IF i < k THEN front[i] ELSE back[i - (k - 1)]
  <2>1. /\ front \o back \in Seq(S)
        /\ Len(front \o back) = (k - 1) + (Len(s) - k)
        /\ \A i \in 1..((k - 1) + (Len(s) - k)) :
             (front \o back)[i] = IF i <= k - 1 THEN front[i] ELSE back[i - (k - 1)]
    <3>1. /\ front \o back \in Seq(S)
          /\ Len(front \o back) = Len(front) + Len(back)
          /\ \A i \in 1..Len(front) + Len(back) :
               (front \o back)[i] = IF i <= Len(front) THEN front[i] ELSE back[i - Len(front)]
      BY <1>2, <1>3, ConcatProperties
    <3> QED
      BY <1>2, <1>3, <3>1, Zenon
  <2>2. (k - 1) + (Len(s) - k) = Len(s) - 1
    BY <1>1
  <2>3. ASSUME NEW i \in 1..(Len(s) - 1) PROVE i <= k - 1 <=> i < k
    BY <1>1
  <2>4. \A i \in 1..(Len(s) - 1) :
          (front \o back)[i] = IF i <= k - 1 THEN front[i] ELSE back[i - (k - 1)]
    BY <2>1, <2>2, Zenon
  <2>5. \A i \in 1..(Len(s) - 1) :
          (front \o back)[i] = IF i < k THEN front[i] ELSE back[i - (k - 1)]
    BY <2>3, <2>4, Zenon
  <2> QED
    BY <2>1, <2>2, <2>5, Zenon
<1>5. ASSUME NEW i \in 1..(Len(s) - 1)
      PROVE  (front \o back)[i] = IF i < k THEN s[i] ELSE s[i + 1]
  <2>1. CASE i < k
    BY <1>1, <1>2, <1>4, <2>1
  <2>2. CASE ~(i < k)
    <3>1. i - (k - 1) \in 1..(Len(s) - k) /\ k + (i - (k - 1)) = i + 1
      BY <1>1, <2>2
    <3> QED
      BY <1>3, <1>4, <2>2, <3>1
  <2> QED
    BY <2>1, <2>2
<1>6. DOMAIN (front \o back) = 1..(Len(s) - 1)
  BY <1>4
<1> QED
  BY <1>4, <1>5, <1>6 DEF RemoveAt, front, back

-----------------------------------------------------------------------------
LEMMA QueueInvInit == QueueInit => QueueInv
<1> SUFFICES ASSUME QueueInit PROVE QueueInv
  OBVIOUS
<1>1. QueueTypes
  BY DEF QueueInit, QueueTypes, NoCall, Calls
<1>2. DOMAIN msgs = {} /\ DOMAIN received = {}
  BY DEF QueueInit
<1> QED
  BY <1>1, <1>2 DEF QueueInv, QueueSorted, QueueLater, TypesInOrder

LEMMA LengthsAndDomains ==
  ASSUME QueueTypes
  PROVE  /\ Len(msgs) \in Nat /\ DOMAIN msgs = 1..Len(msgs)
         /\ \A k \in DOMAIN msgs : msgs[k] \in [type : Nat, n : Nat]
         /\ Len(received) \in Nat /\ DOMAIN received = 1..Len(received)
         /\ \A j \in DOMAIN received : received[j] \in [asked : Nat, type : Nat, n : Nat]
<1>1. \A S : \A s \in Seq(S) :
        Len(s) \in Nat /\ DOMAIN s = 1..Len(s) /\ \A k \in DOMAIN s : s[k] \in S
  OBVIOUS
<1> QED
  BY <1>1, Zenon DEF QueueTypes

(* A call that begins, looks the queue up, sleeps or fails moves no message. *)
LEMMA NothingMoves ==
  ASSUME QueueInv, UNCHANGED <<msgs, received, sent>>,
         req' \in [Users -> [fn : Calls, type : Nat, wait : BOOLEAN]]
  PROVE  QueueInv'
BY DEF QueueInv, QueueTypes, QueueSorted, QueueLater, TypesInOrder

LEMMA CallKeeps ==
  ASSUME QueueInv, NEW u \in Users,
         NEW fn \in Calls, NEW type \in Nat, NEW wait \in BOOLEAN,
         CallQueue(u, fn, type, wait), UNCHANGED <<msgs, received, sent>>
  PROVE  QueueInv'
<1>1. req' \in [Users -> [fn : Calls, type : Nat, wait : BOOLEAN]]
  BY DEF CallQueue, QueueInv, QueueTypes
<1> QED
  BY <1>1, NothingMoves

LEMMA ReturnKeepsTypes ==
  ASSUME QueueInv, NEW u \in Users, Returns(u)
  PROVE  req' \in [Users -> [fn : Calls, type : Nat, wait : BOOLEAN]]
BY DEF Returns, NoCall, Calls, QueueInv, QueueTypes

LEMMA SendKeeps ==
  ASSUME QueueInv, NEW u \in Users, Send(u)
  PROVE  QueueInv'
<1> DEFINE m == [type |-> req[u].type, n |-> sent + 1]
<1>1. /\ sent' = sent + 1 /\ msgs' = Append(msgs, m) /\ received' = received
      /\ req' \in [Users -> [fn : Calls, type : Nat, wait : BOOLEAN]]
  BY ReturnKeepsTypes DEF Send
<1>2. m \in [type : Nat, n : Nat] /\ m.n = sent + 1 /\ sent \in Nat
  BY DEF QueueInv, QueueTypes
<1> HIDE DEF m
<1>3. QueueTypes'
  BY <1>1, <1>2 DEF QueueInv, QueueTypes
<1>4. /\ Len(msgs) \in Nat /\ Len(received) \in Nat
      /\ DOMAIN msgs = 1..Len(msgs) /\ DOMAIN received = 1..Len(received)
      /\ \A k \in DOMAIN msgs : msgs[k] \in [type : Nat, n : Nat]
      /\ \A j \in DOMAIN received : received[j] \in [asked : Nat, type : Nat, n : Nat]
  BY LengthsAndDomains DEF QueueInv
<1>5. /\ DOMAIN msgs' = 1..(Len(msgs) + 1)
      /\ msgs'[Len(msgs) + 1] = m
      /\ \A k \in DOMAIN msgs : msgs'[k] = msgs[k]
  BY <1>1, <1>2, <1>4 DEF QueueInv, QueueTypes
<1>6. \A k \in DOMAIN msgs : msgs[k].n <= sent /\ msgs[k].n \in Nat
  BY <1>4 DEF QueueInv, QueueSorted
<1>7. \A j \in DOMAIN received : received[j].n <= sent /\ received[j].n \in Nat
  BY <1>4 DEF QueueInv, QueueLater
<1>8. \A k \in DOMAIN msgs' : k \in DOMAIN msgs \/ k = Len(msgs) + 1
  BY <1>4, <1>5
<1>9. QueueSorted'
  <2>1. \A k \in DOMAIN msgs' : msgs'[k].n <= sent'
    BY <1>1, <1>2, <1>5, <1>6, <1>8
  <2>2. ASSUME NEW i \in DOMAIN msgs', NEW k \in DOMAIN msgs', i < k
        PROVE  msgs'[i].n < msgs'[k].n
    <3>1. i \in DOMAIN msgs
      BY <1>4, <1>5, <2>2
    <3>2. CASE k \in DOMAIN msgs
      BY <1>5, <2>2, <3>1, <3>2 DEF QueueInv, QueueSorted
    <3>3. CASE k = Len(msgs) + 1
      BY <1>2, <1>5, <1>6, <3>1, <3>3
    <3> QED
      BY <1>8, <3>2, <3>3
  <2> QED
    BY <2>1, <2>2 DEF QueueSorted
<1>10. QueueLater'
  <2>1. ASSUME NEW j \in DOMAIN received, NEW k \in DOMAIN msgs',
               msgs'[k].type = received[j].type
        PROVE  received[j].n < msgs'[k].n
    <3>1. CASE k \in DOMAIN msgs
      BY <1>5, <2>1, <3>1 DEF QueueInv, QueueLater
    <3>2. CASE k = Len(msgs) + 1
      BY <1>2, <1>5, <1>7, <3>2
    <3> QED
      BY <1>8, <3>1, <3>2
  <2>2. \A j \in DOMAIN received : received[j].n <= sent'
    BY <1>1, <1>2, <1>7
  <2> QED
    BY <1>1, <2>1, <2>2 DEF QueueLater
<1>11. TypesInOrder'
  BY <1>1 DEF QueueInv, TypesInOrder
<1> QED
  BY <1>3, <1>9, <1>10, <1>11 DEF QueueInv

(* The first message that fits is taken: those of its type that stay are     *)
(* behind it and so have higher numbers.                                     *)
LEMMA ReceiveKeeps ==
  ASSUME QueueInv, NEW u \in Users, Receive(u)
  PROVE  QueueInv'
<1> DEFINE k == Min(Selected(u))
           r == [asked |-> req[u].type, type |-> msgs[k].type, n |-> msgs[k].n]
<1>1. /\ received' = Append(received, r) /\ msgs' = RemoveAt(msgs, k) /\ sent' = sent
      /\ req' \in [Users -> [fn : Calls, type : Nat, wait : BOOLEAN]]
      /\ Selected(u) # {}
  <2>1. Returns(u) /\ QueueFn(u) = "recv_qmsg" /\ Possible(u) /\ sent' = sent
    BY DEF Receive
  <2>2. Selected(u) # {}
    BY <2>1 DEF Possible
  <2>3. received' = Append(received, r) /\ msgs' = RemoveAt(msgs, k)
    BY DEF Receive
  <2> QED
    BY <2>1, <2>2, <2>3, ReturnKeepsTypes
<1>2. /\ Len(msgs) \in Nat /\ Len(received) \in Nat /\ sent \in Nat
      /\ DOMAIN msgs = 1..Len(msgs) /\ DOMAIN received = 1..Len(received)
      /\ \A i \in DOMAIN msgs : msgs[i] \in [type : Nat, n : Nat]
      /\ \A j \in DOMAIN received : received[j] \in [asked : Nat, type : Nat, n : Nat]
  BY LengthsAndDomains DEF QueueInv, QueueTypes
<1>3. k \in Selected(u) /\ \A i \in Selected(u) : k <= i
  <2>1. Selected(u) \in SUBSET Nat
    BY <1>2 DEF Selected
  <2> QED
    BY <1>1, <2>1, MinIsLeast
<1>4. /\ k \in 1..Len(msgs) /\ k \in DOMAIN msgs
      /\ req[u].type \in {0, msgs[k].type}
      /\ \A i \in DOMAIN msgs : i < k => msgs[i].type # msgs[k].type
  <2>1. \A i \in DOMAIN msgs : i \in Selected(u) <=> req[u].type \in {0, msgs[i].type}
    BY DEF Selected, TypeAsked
  <2>2. k \in DOMAIN msgs /\ req[u].type \in {0, msgs[k].type}
    BY <1>3, <2>1 DEF Selected
  <2>3. ASSUME NEW i \in DOMAIN msgs, i < k PROVE msgs[i].type # msgs[k].type
    <3>1. ~(k <= i)
      BY <1>2, <2>2, <2>3
    <3> QED
      BY <1>3, <2>1, <2>2, <3>1
  <2> QED
    BY <1>2, <2>2, <2>3
<1>5. /\ r \in [asked : Nat, type : Nat, n : Nat]
      /\ r.asked = req[u].type /\ r.type = msgs[k].type /\ r.n = msgs[k].n
  BY <1>2, <1>4 DEF QueueInv, QueueTypes
<1> HIDE DEF k, r
<1>6. /\ RemoveAt(msgs, k) \in Seq([type : Nat, n : Nat])
      /\ DOMAIN msgs' = 1..(Len(msgs) - 1)
      /\ \A i \in 1..(Len(msgs) - 1) : msgs'[i] = IF i < k THEN msgs[i] ELSE msgs[i + 1]
  BY <1>1, <1>4, OneRemoved DEF QueueInv, QueueTypes
<1> DEFINE old(i) == IF i < k THEN i ELSE i + 1
<1>7. ASSUME NEW i \in DOMAIN msgs'
      PROVE  /\ old(i) \in DOMAIN msgs /\ msgs'[i] = msgs[old(i)]
             /\ old(i) < k \/ k < old(i)
  BY <1>2, <1>4, <1>6
<1>8. \A i, l \in DOMAIN msgs' : i < l => old(i) < old(l)
  BY <1>2, <1>4, <1>6
<1> HIDE DEF old
<1>9. /\ DOMAIN received' = 1..(Len(received) + 1)
      /\ received'[Len(received) + 1] = r
      /\ \A j \in DOMAIN received : received'[j] = received[j]
      /\ \A j \in DOMAIN received' : j \in DOMAIN received \/ j = Len(received) + 1
  BY <1>1, <1>2, <1>5 DEF QueueInv, QueueTypes
<1>10. QueueTypes'
  BY <1>1, <1>5, <1>6 DEF QueueInv, QueueTypes
<1>11. QueueSorted'
  BY <1>1, <1>7, <1>8 DEF QueueInv, QueueSorted
<1>12. ASSUME NEW i \in DOMAIN msgs', msgs'[i].type = r.type
       PROVE  r.n < msgs'[i].n
  <2>1. k < old(i)
    BY <1>4, <1>5, <1>7, <1>12
  <2> QED
    BY <1>4, <1>5, <1>7, <2>1 DEF QueueInv, QueueSorted
<1>13. QueueLater'
  <2>1. ASSUME NEW j \in DOMAIN received, NEW i \in DOMAIN msgs',
               msgs'[i].type = received[j].type
        PROVE  received[j].n < msgs'[i].n
    BY <1>7, <2>1 DEF QueueInv, QueueLater
  <2>2. r.n <= sent'
    BY <1>1, <1>4, <1>5 DEF QueueInv, QueueSorted
  <2>3. \A j \in DOMAIN received : received[j].n <= sent'
    BY <1>1 DEF QueueInv, QueueLater
  <2> QED
    BY <1>9, <1>12, <2>1, <2>2, <2>3 DEF QueueLater
<1>14. TypesInOrder'
  <2>1. r.asked \in {0, r.type}
    BY <1>4, <1>5
  <2>2. \A j \in DOMAIN received : received[j].type = r.type => received[j].n < r.n
    BY <1>4, <1>5 DEF QueueInv, QueueLater
  <2>3. ASSUME NEW j \in DOMAIN received', NEW i \in 1..(j - 1),
               received'[i].type = received'[j].type
        PROVE  received'[i].n < received'[j].n
    <3>1. i \in DOMAIN received
      BY <1>2, <1>9
    <3>2. CASE j \in DOMAIN received
      BY <1>9, <2>3, <3>1, <3>2 DEF QueueInv, TypesInOrder
    <3>3. CASE j = Len(received) + 1
      BY <1>9, <2>2, <2>3, <3>1, <3>3
    <3> QED
      BY <1>9, <3>2, <3>3
  <2>4. \A j \in DOMAIN received' : received'[j].asked \in {0, received'[j].type}
    BY <1>9, <2>1 DEF QueueInv, TypesInOrder
  <2> QED
    BY <2>3, <2>4 DEF TypesInOrder
<1> QED
  BY <1>10, <1>11, <1>13, <1>14 DEF QueueInv

(* A queue that is removed takes its messages with it. *)
LEMMA ClearKeeps ==
  ASSUME QueueInv, NEW u \in Users, ClearQueue(u)
  PROVE  QueueInv'
<1>1. /\ sent' = sent /\ received' = received
      /\ req' \in [Users -> [fn : Calls, type : Nat, wait : BOOLEAN]]
      /\ msgs' = <<>> \/ msgs' = msgs
  BY ReturnKeepsTypes DEF ClearQueue
<1>2. CASE msgs' = msgs
  BY <1>1, <1>2, NothingMoves
<1>3. CASE msgs' = <<>>
  <2>1. QueueTypes'
    BY <1>1, <1>3 DEF QueueInv, QueueTypes
  <2>2. DOMAIN msgs' = {}
    BY <1>3
  <2> QED
    BY <1>1, <2>1, <2>2 DEF QueueInv, QueueSorted, QueueLater, TypesInOrder
<1> QED
  BY <1>1, <1>2, <1>3

LEMMA QueueInvNext == QueueInv /\ [QueueNext]_queueVars => QueueInv'
<1> SUFFICES ASSUME QueueInv, [QueueNext]_queueVars PROVE QueueInv'
  OBVIOUS
<1>1. CASE UNCHANGED queueVars
  <2>1. UNCHANGED <<msgs, received, sent>> /\ req' = req
    BY <1>1 DEF queueVars
  <2> QED
    BY <2>1, NothingMoves DEF QueueInv, QueueTypes
<1>2. ASSUME NEW u \in Waiters, WaitForAny(u) PROVE QueueInv'
  BY <1>2, CallKeeps DEF WaitForAny, Users, Calls
<1>3. ASSUME NEW u \in Lookers, LookFor(u) PROVE QueueInv'
  BY <1>3, CallKeeps, MsgQueueAssumption DEF LookFor, Users, Calls
<1>4. ASSUME NEW u \in Senders, StartSend(u) PROVE QueueInv'
  BY <1>4, CallKeeps, MsgQueueAssumption DEF StartSend, Users, Calls
<1>5. ASSUME NEW u \in Others, ClearOrInspect(u) PROVE QueueInv'
  BY <1>5, CallKeeps DEF ClearOrInspect, Users, Calls
<1>6. ASSUME NEW u \in Users, QueueStep(u) PROVE QueueInv'
  <2>1. CASE MsgGet(u)
    <3>1. req' \in [Users -> [fn : Calls, type : Nat, wait : BOOLEAN]]
      BY <2>1, ReturnKeepsTypes DEF MsgGet, QueueInv, QueueTypes
    <3> QED
      BY <2>1, <3>1, NothingMoves DEF MsgGet
  <2>2. CASE BlockOnQueue(u)
    BY <2>2, NothingMoves DEF BlockOnQueue, QueueInv, QueueTypes
  <2>3. CASE FailQueue(u)
    BY <2>3, NothingMoves, ReturnKeepsTypes DEF FailQueue
  <2> QED
    BY <1>6, <2>1, <2>2, <2>3, SendKeeps, ReceiveKeeps, ClearKeeps DEF QueueStep
<1> QED
  BY <1>1, <1>2, <1>3, <1>4, <1>5, <1>6 DEF QueueNext

(* Whoever receives, and however often the queue is removed and made anew,   *)
(* messages of one type come in the order in which they were sent, none      *)
(* comes twice, and nobody gets a type that he did not ask for.              *)
THEOREM MessagesInOrder == QueueSpec => []TypesInOrder
<1>1. QueueInv => TypesInOrder
  BY DEF QueueInv
<1> QED
  BY <1>1, QueueInvInit, QueueInvNext, PTL DEF QueueSpec
=============================================================================
