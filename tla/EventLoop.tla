----------------------------- MODULE EventLoop -----------------------------
(***************************************************************************)
(* The server: the epoll loop of main (netepoll.c), the slots it watches   *)
(* (eventctl.c), its callbacks (sock.c) and the task the pool runs         *)
(* (task.c), composed with the kernel's socket table and with clients.     *)
(*                                                                         *)
(* The pool is the abstract TaskQueue that ThreadPool implements; a task   *)
(* is the slot passed to mytask.  The main thread and the workers share    *)
(* the slots without a lock, so each access of mytask, and each access of  *)
(* recvdata that mytask can disturb, is a step of its own.  Once recv      *)
(* writes beyond m_rcv_buf, nothing is said of the program any more: the   *)
(* model stops there, with pc "overrun".                                   *)
(***************************************************************************)
EXTENDS Packet, Sequences, FiniteSets, FiniteSetsExt, SequencesExt

CONSTANTS
  Clients,    \* the clients; each connects at most once
  Script,     \* the packets each client sends, in order
  Habit,      \* when a client sends and closes: "patient", "reply", "eager"
  MaxEvents,  \* MAX_EVENTS: the slots, the last one for the listening socket
  BufSize,    \* BUFSIZ: the size of m_rcv_buf
  Workers,    \* the threads of the pool
  QueueSize,  \* the capacity of the pool's queue
  Faults,     \* the system calls that may fail
  None        \* no client, no slot

Bytes == 0..255

(* A packet says how many bytes follow its header. *)
WellFormed(packet) ==
  /\ packet \in Seq(Bytes)
  /\ Len(packet) >= HEADER_LEN
  /\ packet[1] * 256 + packet[2] = Len(packet) - HEADER_LEN

ASSUME EventLoopAssumption ==
  /\ IsFiniteSet(Clients)
  /\ MaxEvents \in Nat \ {0}
  /\ BufSize \in Nat \ (0..HEADER_LEN)
  /\ QueueSize \in Nat \ {0}
  /\ Habit \in {"patient", "reply", "eager"}
  /\ Faults \subseteq {"epoll_wait", "accept", "fcntl", "epoll_ctl", "recv", "send"}
  /\ None \notin Clients \cup Nat
  /\ \A c \in Clients : Script[c] \in Seq(Seq(Bytes))
  /\ \A c \in Clients : \A k \in DOMAIN Script[c] : WellFormed(Script[c][k])

Slots    == 0..(MaxEvents - 1)
Listener == MaxEvents - 1

(* Descriptors: ListenFd, one for each connection the kernel can hold, and *)
(* Stdin, the value memset leaves in m_fd.                                 *)
Stdin    == 0
ListenFd == 1
Fds      == 2..(Cardinality(Clients) + 1)

VARIABLES
  m_fd, m_status, m_rcv_buf, m_rcv_buf_len,  \* the fields of each slot
  call_back,  \* the handler of each slot
  tree,       \* the epoll interest list: descriptor and slot of each entry
  file,       \* the client behind each connection descriptor, or None
  pc,         \* where the main thread is
  batch,      \* the slots epoll_wait reported and main has not yet handled
  cur,        \* the slot (ev, or i of acceptconnect) of the current callback
  new_fd,     \* connect_fd of the current acceptconnect
  chunk,      \* len of the current recvdata: the bytes recv returned
  loaded,     \* m_rcv_buf_len as read first by the current statement
  header,     \* m_rcv_buf[0] and m_rcv_buf[1] as read by testpacket
  pending, running, phase,                   \* the pool, as in TaskQueue
  wpc,        \* where each worker is in mytask
  wargs,      \* the descriptor and length mytask passes to send
  backlog,    \* clients the kernel has connected and main has not accepted
  conn,       \* each client's connection: "none", "open" or "closed" by main
  eof,        \* the client has closed its end
  sent,       \* how many packets each client has sent
  rx,         \* bytes sent to the server and not yet received
  got         \* bytes each client has received

slotVars   == <<m_fd, m_status, m_rcv_buf, m_rcv_buf_len, call_back>>
kernelVars == <<tree, file, backlog>>
recvVars   == <<cur, new_fd, chunk, loaded, header>>
poolVars   == <<pending, running, phase>>
workerVars == <<wpc, wargs>>
clientVars == <<conn, eof, sent, rx, got>>
vars == <<slotVars, kernelVars, pc, batch, recvVars, poolVars, workerVars,
          clientVars>>

Pool == INSTANCE TaskQueue WITH Tasks <- Slots, Capacity <- QueueSize

MainPCs == {"wait", "dispatch", "register", "offset", "room", "load", "store",
            "header", "complete", "overlong", "add", "ended", "exited", "overrun"}

TypeOK ==
  /\ m_fd \in [Slots -> Fds \cup {Stdin, ListenFd}]
  /\ m_status \in [Slots -> {0, 1}]
  /\ m_rcv_buf \in [Slots -> [0..(BufSize - 1) -> Bytes]]
  /\ m_rcv_buf_len \in [Slots -> 0..BufSize]
  /\ call_back \in [Slots -> {"NULL", "acceptconnect", "recvdata"}]
  /\ tree \subseteq (Fds \cup {ListenFd}) \X Slots
  /\ file \in [Fds -> Clients \cup {None}]
  /\ pc \in MainPCs
  /\ batch \subseteq Slots
  /\ cur \in Slots
  /\ new_fd \in Fds \cup {Stdin}
  /\ chunk \in 0..BufSize /\ loaded \in Nat /\ header \in Bytes \X Bytes
  /\ pending \in Seq(Slots) /\ Len(pending) <= QueueSize
  /\ running \in [Workers -> Slots \cup {None}]
  /\ wpc \in [Workers -> {"idle", "args", "send", "reset", "clear"}]
  /\ wargs \in [Workers -> (Fds \cup {Stdin, ListenFd}) \X Nat]
  /\ conn \in [Clients -> {"none", "open", "closed"}]
  /\ eof \in [Clients -> BOOLEAN]
  /\ sent \in [Clients -> Nat]

(* main after initlistensocket: the listening socket has the last slot. *)
Init ==
  /\ m_fd = [s \in Slots |-> IF s = Listener THEN ListenFd ELSE Stdin]
  /\ m_status = [s \in Slots |-> IF s = Listener THEN 1 ELSE 0]
  /\ m_rcv_buf = [s \in Slots |-> [k \in 0..(BufSize - 1) |-> 0]]
  /\ m_rcv_buf_len = [s \in Slots |-> 0]
  /\ call_back =
       [s \in Slots |-> IF s = Listener THEN "acceptconnect" ELSE "NULL"]
  /\ tree = {<<ListenFd, Listener>>}
  /\ file = [fd \in Fds |-> None]
  /\ pc = "wait" /\ batch = {}
  /\ cur = Listener /\ new_fd = Stdin /\ chunk = 0
  /\ loaded = 0 /\ header = <<0, 0>>
  /\ Pool!Init
  /\ wpc = [w \in Workers |-> "idle"]
  /\ wargs = [w \in Workers |-> <<Stdin, 0>>]
  /\ backlog = <<>>
  /\ conn = [c \in Clients |-> "none"]
  /\ eof = [c \in Clients |-> FALSE]
  /\ sent = [c \in Clients |-> 0]
  /\ rx = [c \in Clients |-> <<>>]
  /\ got = [c \in Clients |-> <<>>]

-----------------------------------------------------------------------------
(* The kernel *)

OpenFds == {fd \in Fds : file[fd] # None}

(* accept returns the lowest descriptor that is free. *)
FreeFd == Min({fd \in Fds : file[fd] = None})

(* Level-triggered readiness: a connection to accept, bytes or the end of  *)
(* the stream to receive.                                                  *)
Readable(fd) ==
  \/ fd = ListenFd /\ backlog # <<>>
  \/ fd \in OpenFds /\ (rx[file[fd]] # <<>> \/ eof[file[fd]])

Ready == {s \in Slots : \E fd \in Fds \cup {ListenFd} :
                           <<fd, s>> \in tree /\ Readable(fd)}

(* close releases the descriptor, drops it from the interest list and      *)
(* resets the peer; eventdel (eventctl.c) then clears m_status, and its    *)
(* EPOLL_CTL_DEL finds nothing any more.                                   *)
CloseConnection(s) ==
  /\ file' = [file EXCEPT ![m_fd[s]] = None]
  /\ tree' = {e \in tree : e[1] # m_fd[s]}
  /\ conn' = [conn EXCEPT ![file[m_fd[s]]] = "closed"]
  /\ m_status' = [m_status EXCEPT ![s] = 0]

-----------------------------------------------------------------------------
(* The main thread *)

(* epoll_wait has room for every slot, so it reports all that are ready. *)
Wait ==
  /\ pc = "wait"
  /\ Ready # {}
  /\ batch' = Ready
  /\ pc' = "dispatch"
  /\ UNCHANGED <<slotVars, kernelVars, recvVars, poolVars, workerVars, clientVars>>

(* epoll_wait fails: the loop ends with threadpool_destroy(TaskPool, 0). *)
WaitFails ==
  /\ pc = "wait"
  /\ "epoll_wait" \in Faults
  /\ Pool!Close("immediate")
  /\ pc' = "ended"
  /\ UNCHANGED <<slotVars, kernelVars, batch, recvVars, workerVars, clientVars>>

(* threadpool_destroy has joined the workers; with the process everything   *)
(* it has open is closed.                                                  *)
Exit ==
  /\ pc = "ended" /\ \A w \in Workers : running[w] = None
  /\ pc' = "exited"
  /\ file' = [fd \in Fds |-> None] /\ tree' = {} /\ backlog' = <<>>
  /\ conn' = [c \in Clients |-> IF conn[c] = "open" THEN "closed" ELSE conn[c]]
  /\ UNCHANGED <<slotVars, batch, recvVars, poolVars, workerVars, eof, sent, rx, got>>

(* The loop over the events, in any order: take the next one, or go back  *)
(* to epoll_wait after the last.                                           *)
Event(s, handler) ==
  pc = "dispatch" /\ s \in batch /\ call_back[s] = handler

Done(rest) == pc' = IF rest = {} THEN "wait" ELSE "dispatch"

(* As in ThreadPool, the Bug... definitions are mistakes that break a property. *)
BugFreeSlots == {s \in Slots : m_status[s] = 0 \/ s = 0}
FreeSlots == {s \in Slots : m_status[s] = 0}

(* acceptconnect with no connection to return, without a free slot, or     *)
(* when O_NONBLOCK cannot be set: the new connection, if any, is closed.   *)
AcceptFails(s) ==
  /\ Event(s, "acceptconnect")
  /\ "accept" \in Faults
  /\ batch' = batch \ {s}
  /\ Done(batch \ {s})
  /\ UNCHANGED <<slotVars, kernelVars, recvVars, poolVars, workerVars, clientVars>>

AcceptDropped(s) ==
  /\ Event(s, "acceptconnect")
  /\ FreeSlots = {} \/ "fcntl" \in Faults
  /\ conn' = [conn EXCEPT ![Head(backlog)] = "closed"]
  /\ backlog' = Tail(backlog)
  /\ batch' = batch \ {s}
  /\ Done(batch \ {s})
  /\ UNCHANGED <<slotVars, tree, file, recvVars, poolVars, workerVars, eof, sent,
                 rx, got>>

(* accept, getEventIndex, and the memset of the slot. *)
AcceptConnect(s) ==
  /\ Event(s, "acceptconnect")
  /\ FreeSlots # {}
  /\ LET i == Min(FreeSlots) IN
       /\ cur' = i
       /\ m_fd' = [m_fd EXCEPT ![i] = Stdin]
       /\ m_status' = [m_status EXCEPT ![i] = 0]
       /\ m_rcv_buf' = [m_rcv_buf EXCEPT ![i] = [k \in DOMAIN @ |-> 0]]
       /\ m_rcv_buf_len' = [m_rcv_buf_len EXCEPT ![i] = 0]
       /\ call_back' = [call_back EXCEPT ![i] = "NULL"]
  /\ new_fd' = FreeFd
  /\ file' = [file EXCEPT ![FreeFd] = Head(backlog)]
  /\ backlog' = Tail(backlog)
  /\ batch' = batch \ {s}
  /\ pc' = "register"
  /\ UNCHANGED <<tree, chunk, loaded, header, poolVars, workerVars, clientVars>>

(* Mistake: m_status is set before the result of EPOLL_CTL_ADD is known. *)
BugStatus(added) == 1

Status(added) == IF added THEN 1 ELSE 0

(* eventsetinit and eventadd: m_status says whether EPOLL_CTL_ADD worked. *)
Register ==
  /\ pc = "register"
  /\ m_fd' = [m_fd EXCEPT ![cur] = new_fd]
  /\ call_back' = [call_back EXCEPT ![cur] = "recvdata"]
  /\ \E added \in BOOLEAN :
       /\ added \/ "epoll_ctl" \in Faults
       /\ tree' = IF added THEN tree \cup {<<new_fd, cur>>} ELSE tree
       /\ m_status' = [m_status EXCEPT ![cur] = Status(added)]
  /\ Done(batch)
  /\ UNCHANGED <<m_rcv_buf, m_rcv_buf_len, file, backlog, batch, recvVars,
                 poolVars, workerVars, clientVars>>

(* recvdata: the arguments of recv read m_rcv_buf_len twice, once for where *)
(* the bytes go and once for the size, in the order the compiler likes: at *)
(* "room" the offset has been read and the size is still to be computed, at *)
(* "offset" the other way round.                                           *)
ReadLength(s) ==
  /\ Event(s, "recvdata")
  /\ cur' = s
  /\ batch' = batch \ {s}
  /\ loaded' = m_rcv_buf_len[s]
  /\ pc' \in {"offset", "room"}
  /\ UNCHANGED <<slotVars, kernelVars, new_fd, chunk, header, poolVars, workerVars,
                 clientVars>>

BugRoomAt(len) == BufSize
RoomAt(len) == BufSize - len

(* The second read goes into the step of recv: a reset that comes between  *)
(* the two is one that comes after recv, which no longer looks at the      *)
(* length.                                                                 *)
Offset == IF pc = "room" THEN loaded ELSE m_rcv_buf_len[cur]
Room   == RoomAt(IF pc = "room" THEN m_rcv_buf_len[cur] ELSE loaded)
Input  == rx[file[m_fd[cur]]]

InArguments == pc \in {"offset", "room"}

(* recv gives some of the bytes that have arrived, as many as have room ... *)
Recv ==
  /\ InArguments
  /\ \E n \in 1..Min({Len(Input), Room}) :
       /\ Offset + n <= BufSize
       /\ m_rcv_buf' = [m_rcv_buf EXCEPT ![cur] =
            [k \in DOMAIN @ |-> IF k \in Offset..(Offset + n - 1)
                               THEN Input[k - Offset + 1] ELSE @[k]]]
       /\ rx' = [rx EXCEPT ![file[m_fd[cur]]] = SubSeq(Input, n + 1, Len(Input))]
       /\ chunk' = n
  /\ pc' = "load"
  /\ UNCHANGED <<m_fd, m_status, m_rcv_buf_len, call_back, kernelVars, batch, cur,
                 new_fd, loaded, header, poolVars, workerVars, conn, eof, sent, got>>

(* ... and puts them behind the buffer, over m_rcv_buf_len and what follows *)
(* it, when the size is not the one of the offset.                         *)
Overrun ==
  /\ InArguments
  /\ Offset + Min({Len(Input), Room}) > BufSize
  /\ pc' = "overrun"
  /\ UNCHANGED <<slotVars, kernelVars, batch, recvVars, poolVars, workerVars,
                 clientVars>>

BugRecvEnds ==
  /\ InArguments
  /\ Room = 0 \/ (Input = <<>> /\ eof[file[m_fd[cur]]])
  /\ Done(batch)
  /\ UNCHANGED <<slotVars, kernelVars, batch, recvVars, poolVars, workerVars,
                 clientVars>>

(* recv returns 0 at the end of the stream and when there is no room left, *)
(* or -1: the connection is closed.                                        *)
RecvEnds ==
  /\ InArguments
  /\ \/ Room = 0
     \/ Input = <<>> /\ eof[file[m_fd[cur]]]
     \/ "recv" \in Faults
  /\ CloseConnection(cur)
  /\ Done(batch)
  /\ UNCHANGED <<m_fd, m_rcv_buf, m_rcv_buf_len, call_back, backlog, batch, recvVars,
                 poolVars, workerVars, eof, sent, rx, got>>

(* ev->m_rcv_buf_len += len reads the length again and writes it back. *)
LoadLength ==
  /\ pc = "load"
  /\ loaded' = m_rcv_buf_len[cur]
  /\ pc' = "store"
  /\ UNCHANGED <<slotVars, kernelVars, batch, cur, new_fd, chunk, header,
                 poolVars, workerVars, clientVars>>

StoreLength ==
  /\ pc = "store"
  /\ m_rcv_buf_len' = [m_rcv_buf_len EXCEPT ![cur] = loaded + chunk]
  /\ pc' = "header"
  /\ UNCHANGED <<m_fd, m_status, m_rcv_buf, call_back, kernelVars, batch,
                 recvVars, poolVars, workerVars, clientVars>>

(* testpacket reads the header, then the length for each comparison. *)
ReadHeader ==
  /\ pc = "header"
  /\ header' = <<m_rcv_buf[cur][0], m_rcv_buf[cur][1]>>
  /\ pc' = "complete"
  /\ UNCHANGED <<slotVars, kernelVars, batch, cur, new_fd, chunk, loaded,
                 poolVars, workerVars, clientVars>>

Verdict == TestPacket(header[1], header[2], m_rcv_buf_len[cur])

TestComplete ==
  /\ pc = "complete"
  /\ pc' = IF Verdict = "DATA_COMPLETE" THEN "add" ELSE "overlong"
  /\ UNCHANGED <<slotVars, kernelVars, batch, recvVars, poolVars, workerVars,
                 clientVars>>

TestOverlong ==
  /\ pc = "overlong"
  /\ IF Verdict = "DATA_ERROR"
     THEN CloseConnection(cur)
     ELSE UNCHANGED <<file, tree, conn, m_status>>
  /\ Done(batch)
  /\ UNCHANGED <<m_fd, m_rcv_buf, m_rcv_buf_len, call_back, backlog, batch,
                 recvVars, poolVars, workerVars, eof, sent, rx, got>>

(* threadpool_add of mytask; the connection is closed when it fails. *)
AddToPool ==
  /\ pc = "add"
  /\ \/ Pool!Submit(cur) /\ UNCHANGED <<file, tree, conn, m_status>>
     \/ Len(pending) = QueueSize /\ CloseConnection(cur) /\ UNCHANGED poolVars
  /\ Done(batch)
  /\ UNCHANGED <<m_fd, m_rcv_buf, m_rcv_buf_len, call_back, backlog, batch,
                 recvVars, workerVars, eof, sent, rx, got>>

Main ==
  \/ Wait \/ WaitFails \/ Exit
  \/ \E s \in Slots :
       AcceptFails(s) \/ AcceptDropped(s) \/ AcceptConnect(s) \/ ReadLength(s)
  \/ Recv \/ Overrun \/ RecvEnds
  \/ Register \/ LoadLength \/ StoreLength
  \/ ReadHeader \/ TestComplete \/ TestOverlong \/ AddToPool

-----------------------------------------------------------------------------
(* The workers: mytask on the slot they were given.  Nobody takes a step   *)
(* after an overrun.                                                       *)

Defined == pc # "overrun"

Goto(w, label) == wpc' = [wpc EXCEPT ![w] = label]

StartTask(w) ==
  /\ Defined
  /\ Pool!Take(w)
  /\ Goto(w, "args")
  /\ UNCHANGED <<slotVars, kernelVars, pc, batch, recvVars, wargs, clientVars>>

BugReplyLength(s) == BufSize
ReplyLength(s) == m_rcv_buf_len[s]

(* The arguments of send are read from the slot ... *)
SendArguments(w) ==
  /\ wpc[w] = "args"
  /\ wargs' = [wargs EXCEPT ![w] = <<m_fd[running[w]], ReplyLength(running[w])>>]
  /\ Goto(w, "send")
  /\ UNCHANGED <<slotVars, kernelVars, pc, batch, recvVars, poolVars, clientVars>>

(* ... and the bytes when the kernel copies them; whether they reached     *)
(* anybody is ignored, and SIGPIPE is too (main).                          *)
SendReply(w) ==
  /\ wpc[w] = "send"
  /\ LET fd    == wargs[w][1]
         bytes == [k \in 1..wargs[w][2] |-> m_rcv_buf[running[w]][k - 1]]
     IN  \/ /\ fd \in OpenFds
            /\ ~eof[file[fd]]
            /\ got' = [got EXCEPT ![file[fd]] = @ \o bytes]
         \/ /\ fd \in OpenFds => eof[file[fd]] \/ "send" \in Faults
            /\ UNCHANGED got
  /\ Goto(w, "reset")
  /\ UNCHANGED <<slotVars, kernelVars, pc, batch, recvVars, poolVars, wargs,
                 conn, eof, sent, rx>>

BugLengthAfter(n) == n
LengthAfter(n) == 0

ResetLength(w) ==
  /\ wpc[w] = "reset"
  /\ m_rcv_buf_len' = [m_rcv_buf_len EXCEPT ![running[w]] = LengthAfter(@)]
  /\ Goto(w, "clear")
  /\ UNCHANGED <<m_fd, m_status, m_rcv_buf, call_back, kernelVars, pc, batch,
                 recvVars, poolVars, wargs, clientVars>>

ClearHeader(w) ==
  /\ wpc[w] = "clear"
  /\ m_rcv_buf' = [m_rcv_buf EXCEPT ![running[w]][0] = 0]
  /\ Pool!Finish(w)
  /\ Goto(w, "idle")
  /\ UNCHANGED <<m_fd, m_status, m_rcv_buf_len, call_back, kernelVars, pc, batch,
                 recvVars, wargs, clientVars>>

MyTask(w) ==
  Defined /\ (SendArguments(w) \/ SendReply(w) \/ ResetLength(w) \/ ClearHeader(w))

-----------------------------------------------------------------------------
(* The clients *)

SentBytes(c, n) == FlattenSeq(SubSeq(Script[c], 1, n))

Answered(c) == Len(got[c]) >= Len(SentBytes(c, sent[c]))

(* No task is queued or running for the connection of c. *)
Settled(c) ==
  \A s \in Slots : m_fd[s] \in OpenFds /\ file[m_fd[s]] = c
    => (\A k \in DOMAIN pending : pending[k] # s) /\ \A w \in Workers : running[w] # s

(* A patient client waits until the server is done with its last packet, a *)
(* replying one for the answer to it, an eager one for nothing.            *)
MayAct(c) ==
  CASE Habit = "patient" -> Answered(c) /\ Settled(c)
    [] Habit = "reply"   -> Answered(c)
    [] OTHER             -> TRUE

Connect(c) ==
  /\ conn[c] = "none" /\ pc # "exited"
  /\ conn' = [conn EXCEPT ![c] = "open"]
  /\ backlog' = Append(backlog, c)
  /\ UNCHANGED <<slotVars, tree, file, pc, batch, recvVars, poolVars, workerVars,
                 eof, sent, rx, got>>

SendPacket(c) ==
  /\ conn[c] = "open" /\ ~eof[c]
  /\ sent[c] < Len(Script[c])
  /\ MayAct(c)
  /\ sent' = [sent EXCEPT ![c] = @ + 1]
  /\ rx' = [rx EXCEPT ![c] = @ \o Script[c][sent[c] + 1]]
  /\ UNCHANGED <<slotVars, kernelVars, pc, batch, recvVars, poolVars, workerVars,
                 conn, eof, got>>

CloseClient(c) ==
  /\ conn[c] = "open" /\ ~eof[c]
  /\ MayAct(c)
  /\ eof' = [eof EXCEPT ![c] = TRUE]
  /\ UNCHANGED <<slotVars, kernelVars, pc, batch, recvVars, poolVars, workerVars,
                 conn, sent, rx, got>>

Client(c) == Defined /\ (Connect(c) \/ SendPacket(c) \/ CloseClient(c))

-----------------------------------------------------------------------------

Next ==
  \/ Main
  \/ \E w \in Workers : StartTask(w) \/ MyTask(w)
  \/ \E c \in Clients : Client(c)

Spec == Init /\ [][Next]_vars

(* The main thread runs whenever epoll_wait has something to report; the   *)
(* pool is as fair as TaskQueue says; clients do as they like.             *)
Fairness ==
  /\ WF_vars(Main)
  /\ WF_vars(\E w \in Workers : StartTask(w))
  /\ \A w \in Workers : WF_vars(MyTask(w))

FairSpec == Spec /\ Fairness

-----------------------------------------------------------------------------
(* Properties *)

BetweenEvents == pc \in {"wait", "dispatch"}

(* netepoll.h: m_status tells whether a slot is on the tree.  Between two   *)
(* events the interest list of the kernel is exactly the slots that have    *)
(* m_status 1, each under its own descriptor, whatever was closed, reused   *)
(* or refused before.                                                       *)
StatusMatchesTree ==
  BetweenEvents => tree = {<<m_fd[s], s>> : s \in Slots \ FreeSlots}

(* Every open descriptor is watched through exactly one slot: none leaks    *)
(* when a slot is reused, and no two slots share one.                       *)
OneSlotPerConnection ==
  BetweenEvents /\ "epoll_ctl" \notin Faults
    => \A fd \in OpenFds :
         Cardinality({s \in Slots \ FreeSlots : m_fd[s] = fd}) = 1

(* What a patient client receives is what it sent, in order, nothing else. *)
EchoCorrect ==
  \A c \in Clients : IsPrefix(got[c], SentBytes(c, sent[c]))

(* The server closes a connection only when the client has closed it, when *)
(* the pool's queue is full, at accept when every slot is in use, or when   *)
(* it ends itself.                                                          *)
DropsOnlyForCause ==
  [][\A c \in Clients : conn[c] = "open" /\ conn'[c] = "closed" =>
       \/ eof[c] \/ pc = "ended"
       \/ pc = "add" /\ Len(pending) = QueueSize
       \/ pc = "dispatch" /\ FreeSlots = {} /\ c = Head(backlog)]_vars

(* Every packet of a patient client is answered unless the server drops    *)
(* the connection.                                                         *)
PacketAnswered ==
  \A c \in Clients : \A k \in DOMAIN Script[c] :
    sent[c] = k ~> Len(got[c]) >= Len(SentBytes(c, k)) \/ conn[c] = "closed"

Registered(c) ==
  \E s \in Slots \ FreeSlots : m_fd[s] \in OpenFds /\ file[m_fd[s]] = c

(* A watched connection that its client has closed is closed by the server  *)
(* too, which frees its slot, also when packets were left over or in the    *)
(* pool, and whatever calls failed: when epoll_wait itself fails, the loop  *)
(* ends, the workers are joined whatever they do, and the process exits.    *)
(* Only an overrun may prevent it.                                          *)
EofReaped ==
  \A c \in Clients :
    (eof[c] /\ Registered(c)) ~> (conn[c] = "closed" \/ pc = "overrun")

(* sock.c:95: recv writes beyond the buffer of a slot in one race only: a    *)
(* worker that had a task for this slot reset its length between the two     *)
(* reads of it, the offset read first.  Neither the two steps of += nor       *)
(* packets that do not fit can do it, and with patient clients nothing can.  *)
BufferKept ==
  pc = "overrun" => Habit # "patient" /\ loaded > 0 /\ m_rcv_buf_len[cur] = 0

(* task.c calls DATA_ERROR wrong data ("data overlong" in its log): a       *)
(* client that sends well-formed packets, each after the answer to the one  *)
(* before, never gets that verdict.                                         *)
ErrorMeansBadData == pc = "overlong" => Verdict # "DATA_ERROR"

-----------------------------------------------------------------------------
(* The inductive invariant of EventLoopProofs.                             *)

Active   == {s \in Slots : m_status[s] = 1}
InRecv   == pc \in {"offset", "room", "load", "store", "header", "complete",
                    "overlong", "add", "overrun"}
Accepted == {file[fd] : fd \in OpenFds}

(* The last slot stays the listening socket's, and no other is like it. *)
ListenerKept ==
  /\ m_fd[Listener] = ListenFd /\ m_status[Listener] = 1
  /\ \A s \in Slots : call_back[s] = "acceptconnect" <=> s = Listener

(* Slots in use have a descriptor each, an open one, and are the tree. *)
SlotsOwnFds ==
  /\ \A s, t \in Active : m_fd[s] = m_fd[t] => s = t
  /\ pc # "exited" =>
       /\ tree = {<<m_fd[s], s>> : s \in Active}
       /\ \A s \in Active \ {Listener} :
            m_fd[s] \in OpenFds /\ call_back[s] = "recvdata"

(* The slot of the current callback, and those still to be handled. *)
CurrentSlot ==
  /\ batch \subseteq Active
  /\ pc = "register" =>
       /\ cur \notin Active /\ new_fd \in OpenFds
       /\ \A s \in Active : m_fd[s] # new_fd
  /\ InRecv => cur \in Active \ (batch \cup {Listener})

(* A client is behind one descriptor, or once in the backlog. *)
ClientsOnce ==
  /\ \A fd, gd \in OpenFds : file[fd] = file[gd] => fd = gd
  /\ backlog \in Seq(Clients)
  /\ \A j, k \in DOMAIN backlog : backlog[j] = backlog[k] => j = k
  /\ \A k \in DOMAIN backlog : backlog[k] \notin Accepted /\ conn[backlog[k]] # "none"
  /\ \A c \in Accepted : conn[c] # "none"
  /\ pc # "exited" /\ Listener \in batch => backlog # <<>>

(* No descriptor is left without a slot, except by a failing epoll_ctl. *)
NoOrphans ==
  "epoll_ctl" \notin Faults /\ pc # "exited" =>
    \A fd \in OpenFds : \/ \E s \in Active : m_fd[s] = fd
                        \/ pc = "register" /\ fd = new_fd

(* What recv appended fits, also when a worker resets the length meanwhile, *)
(* unless it does so between the two reads of it.                           *)
LengthsFit ==
  /\ rx \in [Clients -> Seq(Bytes)]
  /\ InArguments => loaded <= BufSize /\ m_rcv_buf_len[cur] \in {0, loaded}
  /\ pc = "overrun" => loaded > 0 /\ m_rcv_buf_len[cur] = 0
  /\ pc = "load" => m_rcv_buf_len[cur] + chunk <= BufSize
  /\ pc = "store" => loaded + chunk <= BufSize
  /\ \A w \in Workers : wpc[w] # "idle" => running[w] \in Slots

LoopInv ==
  /\ TypeOK
  /\ ListenerKept
  /\ SlotsOwnFds
  /\ CurrentSlot
  /\ ClientsOnce
  /\ NoOrphans
  /\ LengthsFit
=============================================================================
