--------------------------- MODULE EventLoopProofs ---------------------------
(***************************************************************************)
(* Proofs about EventLoop, for every number of clients, slots and workers, *)
(* every script and every set of failing system calls: first what holds of *)
(* slots and descriptors however clients behave, then that a patient       *)
(* client gets back exactly what it sent.                                  *)
(***************************************************************************)
EXTENDS EventLoop, FiniteSetTheorems, SequenceLemmas

LEMMA LoopSizes ==
  /\ MaxEvents \in Nat \ {0} /\ BufSize \in Nat /\ BufSize > 2 /\ QueueSize \in Nat \ {0}
  /\ Listener \in Slots /\ Slots \subseteq Nat
  /\ Fds \subseteq Nat /\ ListenFd \notin Fds /\ Stdin \notin Fds /\ ListenFd # Stdin
  /\ None \notin Clients /\ None \notin Slots /\ IsFiniteSet(Clients) /\ Cardinality(Clients) \in Nat
<1>1. Cardinality(Clients) \in Nat
  BY EventLoopAssumption, FS_CardinalityType
<1> QED
  BY <1>1, EventLoopAssumption DEF Listener, Slots, Fds, ListenFd, Stdin, HEADER_LEN

LEMMA FreeAndActive ==
  ASSUME TypeOK
  PROVE  /\ Slots \ FreeSlots = Active /\ FreeSlots = Slots \ Active
         /\ Active \subseteq Slots
BY DEF TypeOK, FreeSlots, Active

LEMMA AcceptedType ==
  ASSUME TypeOK
  PROVE  /\ OpenFds \subseteq Fds /\ Accepted \subseteq Clients
         /\ \A fd \in OpenFds : file[fd] \in Clients
BY DEF TypeOK, OpenFds, Accepted

-----------------------------------------------------------------------------
(* accept *)

(* There are as many descriptors as clients, and a waiting client has none. *)
LEMMA FreeFdExists ==
  ASSUME TypeOK, ClientsOnce, backlog # <<>>
  PROVE  /\ FreeFd \in Fds /\ file[FreeFd] = None
         /\ Head(backlog) \in Clients \ Accepted
<1>1. Head(backlog) \in Clients /\ Head(backlog) = backlog[1] /\ 1 \in DOMAIN backlog
  <2>1. backlog \in Seq(Clients)
    BY DEF ClientsOnce
  <2>2. Len(backlog) \in Nat \ {0} /\ DOMAIN backlog = 1..Len(backlog)
    BY <2>1, EmptySeq, LenProperties
  <2> QED
    BY <2>1, <2>2, HeadTailProperties
<1>2. Head(backlog) \notin Accepted
  BY <1>1 DEF ClientsOnce
<1>3. {fd \in Fds : file[fd] = None} # {}
  <2> SUFFICES ASSUME OpenFds = Fds PROVE FALSE
    BY DEF OpenFds
  <2>1. file \in [Fds -> Clients \ {Head(backlog)}]
    BY <1>2 DEF OpenFds, Accepted, TypeOK
  <2>2. IsFiniteSet(Fds) /\ Cardinality(Fds) = Cardinality(Clients)
    BY LoopSizes, FS_Interval DEF Fds
  <2>3. /\ IsFiniteSet(Clients \ {Head(backlog)})
        /\ Cardinality(Clients \ {Head(backlog)}) = Cardinality(Clients) - 1
    BY <1>1, LoopSizes, FS_RemoveElement
  <2>4. PICK x, y \in Fds : x # y /\ file[x] = file[y]
    <3>1. Cardinality(Clients \ {Head(backlog)}) < Cardinality(Fds)
      BY <2>2, <2>3, LoopSizes
    <3> QED
      BY <2>1, <2>2, <2>3, <3>1, FS_PigeonHole
  <2> QED
    BY <2>4 DEF ClientsOnce
<1>4. FreeFd \in {fd \in Fds : file[fd] = None}
  BY <1>3, MinIsLeast, LoopSizes DEF FreeFd
<1> QED
  BY <1>1, <1>2, <1>4

(* The memset of a free slot, the descriptor and the client it is for. *)
LEMMA AcceptShape ==
  ASSUME LoopInv, NEW s \in Slots, AcceptConnect(s)
  PROVE  /\ pc = "dispatch" /\ pc' = "register"
         /\ s = Listener /\ s \in batch /\ batch' = batch \ {s} /\ backlog # <<>>
         /\ cur' \in Slots \ Active /\ cur' # Listener
         /\ m_fd' = [m_fd EXCEPT ![cur'] = Stdin]
         /\ m_status' = m_status
         /\ call_back' = [call_back EXCEPT ![cur'] = "NULL"]
         /\ new_fd' \in Fds /\ file[new_fd'] = None
         /\ file' = [file EXCEPT ![new_fd'] = Head(backlog)]
         /\ Head(backlog) \in Clients \ Accepted
         /\ backlog' = Tail(backlog)
         /\ UNCHANGED <<tree, conn>>
<1>a. TypeOK /\ ListenerKept /\ ClientsOnce
  BY DEF LoopInv
<1>1. /\ pc = "dispatch" /\ s \in batch /\ s = Listener /\ batch' = batch \ {s}
      /\ pc' = "register" /\ FreeSlots # {}
  BY <1>a DEF AcceptConnect, Event, ListenerKept
<1>2. backlog # <<>>
  BY <1>a, <1>1 DEF ClientsOnce
<1> DEFINE i == Min(FreeSlots)
<1>3. i \in FreeSlots
  BY <1>1, LoopSizes, MinIsLeast DEF FreeSlots
<1>4. i \in Slots \ Active /\ i # Listener /\ m_status[i] = 0
  BY <1>a, <1>3, FreeAndActive DEF ListenerKept, FreeSlots
<1>5. /\ cur' = i
      /\ m_fd' = [m_fd EXCEPT ![i] = Stdin]
      /\ m_status' = [m_status EXCEPT ![i] = 0]
      /\ call_back' = [call_back EXCEPT ![i] = "NULL"]
      /\ new_fd' = FreeFd
      /\ file' = [file EXCEPT ![FreeFd] = Head(backlog)]
      /\ backlog' = Tail(backlog)
      /\ UNCHANGED <<tree, conn>>
  BY DEF AcceptConnect, clientVars
<1>6. m_status' = m_status
  BY <1>a, <1>4, <1>5 DEF TypeOK
<1> QED
  BY <1>a, <1>1, <1>2, <1>4, <1>5, <1>6, FreeFdExists

-----------------------------------------------------------------------------
(* Closing a connection *)

(* The three places where the server closes the connection of slot s. *)
Drops(s) ==
  \/ s = cur /\ RecvEnds
  \/ s = cur /\ TestOverlong /\ Verdict = "DATA_ERROR"
  \/ s = cur /\ AddToPool /\ ~Pool!Submit(cur)

LEMMA DropShape ==
  ASSUME LoopInv, NEW s \in Slots, Drops(s)
  PROVE  /\ s \in Active \ {Listener} /\ m_fd[s] \in OpenFds
         /\ InRecv
         /\ pc' \in {"wait", "dispatch"}
         /\ batch' \subseteq batch \ {s}
         /\ UNCHANGED <<m_fd, call_back, backlog, cur, new_fd>>
         /\ m_status' = [m_status EXCEPT ![s] = 0]
         /\ Active' = Active \ {s}
         /\ file' = [file EXCEPT ![m_fd[s]] = None]
         /\ OpenFds' = OpenFds \ {m_fd[s]}
         /\ tree' = {e \in tree : e[1] # m_fd[s]}
         /\ conn' = [conn EXCEPT ![file[m_fd[s]]] = "closed"]
<1>a. TypeOK /\ ListenerKept /\ SlotsOwnFds /\ CurrentSlot
  BY DEF LoopInv
<1>1. /\ CloseConnection(s)
      /\ s \in Active \ {Listener}
      /\ InRecv
      /\ batch' \subseteq batch \ {s}
      /\ pc' \in {"wait", "dispatch"}
      /\ UNCHANGED <<m_fd, call_back, backlog, cur, new_fd>>
  <2>1. CASE s = cur /\ RecvEnds
    <3>1. InRecv /\ s \in Active \ {Listener} /\ s \notin batch
      BY <1>a, <2>1 DEF RecvEnds, InArguments, CurrentSlot, InRecv
    <3> QED
      BY <2>1, <3>1 DEF RecvEnds, Done, recvVars
  <2>2. CASE s = cur /\ TestOverlong /\ Verdict = "DATA_ERROR"
    <3>1. InRecv /\ s \in Active \ {Listener} /\ s \notin batch
      BY <1>a, <2>2 DEF TestOverlong, CurrentSlot, InRecv
    <3> QED
      BY <2>2, <3>1 DEF TestOverlong, Done, recvVars
  <2>3. CASE s = cur /\ AddToPool /\ ~Pool!Submit(cur)
    <3>1. InRecv /\ s \in Active \ {Listener} /\ s \notin batch
      BY <1>a, <2>3 DEF AddToPool, CurrentSlot, InRecv
    <3> QED
      BY <2>3, <3>1 DEF AddToPool, Done, recvVars
  <2> QED
    BY <2>1, <2>2, <2>3 DEF Drops
<1>2. m_fd[s] \in OpenFds
  BY <1>a, <1>1 DEF SlotsOwnFds, InRecv
<1>3. /\ file' = [file EXCEPT ![m_fd[s]] = None]
      /\ m_status' = [m_status EXCEPT ![s] = 0]
      /\ tree' = {e \in tree : e[1] # m_fd[s]}
      /\ conn' = [conn EXCEPT ![file[m_fd[s]]] = "closed"]
  BY <1>1 DEF CloseConnection
<1>4. Active' = Active \ {s}
  BY <1>a, <1>3 DEF Active, TypeOK
<1>5. OpenFds' = OpenFds \ {m_fd[s]}
  BY <1>a, <1>2, <1>3 DEF OpenFds, TypeOK
<1> QED
  BY <1>1, <1>2, <1>3, <1>4, <1>5

-----------------------------------------------------------------------------
(* The kinds of steps *)

StructVars == <<m_fd, m_status, call_back, tree, file, backlog, conn>>

(* A step that neither takes nor gives back a slot, a descriptor or a client. *)
Quiet ==
  /\ UNCHANGED <<StructVars, cur, new_fd>>
  /\ batch' \subseteq batch
  /\ pc' = "exited" <=> pc = "exited"
  /\ pc' = "register" <=> pc = "register"
  /\ InRecv' => InRecv

LEMMA MainKinds ==
  ASSUME LoopInv, Main
  PROVE  \/ Wait \/ Exit \/ Register
         \/ \E s \in Slots : AcceptDropped(s) \/ AcceptConnect(s) \/ ReadLength(s) \/ Drops(s)
         \/ Quiet
<1> USE DEF Quiet, StructVars, InRecv, slotVars, kernelVars, recvVars, clientVars
<1>1. ASSUME WaitFails PROVE Quiet
  BY <1>1 DEF WaitFails
<1>2. ASSUME NEW s \in Slots, AcceptFails(s) PROVE Quiet
  BY <1>2 DEF AcceptFails, Event, Done
<1>3. ASSUME Recv \/ Overrun \/ LoadLength \/ StoreLength \/ ReadHeader \/ TestComplete
      PROVE  Quiet
  BY <1>3 DEF Recv, Overrun, InArguments, LoadLength, StoreLength, ReadHeader, TestComplete
<1>4. ASSUME TestOverlong PROVE Quiet \/ (cur \in Slots /\ Drops(cur))
  <2>1. cur \in Slots
    BY DEF LoopInv, TypeOK
  <2>2. CASE Verdict = "DATA_ERROR"
    BY <1>4, <2>1, <2>2 DEF Drops
  <2>3. CASE Verdict # "DATA_ERROR"
    BY <1>4, <2>3 DEF TestOverlong, Done
  <2> QED
    BY <2>2, <2>3
<1>5. ASSUME AddToPool PROVE Quiet \/ (cur \in Slots /\ Drops(cur))
  <2>1. cur \in Slots
    BY DEF LoopInv, TypeOK
  <2>2. CASE ~Pool!Submit(cur)
    BY <1>5, <2>1, <2>2 DEF Drops
  <2>3. CASE Pool!Submit(cur)
    <3>1. Len(pending) < QueueSize
      BY <2>3 DEF Pool!Submit
    <3>2. Len(pending) \in Nat
      BY LenProperties DEF LoopInv, TypeOK
    <3>3. Len(pending) # QueueSize
      BY <3>1, <3>2, LoopSizes
    <3>4. UNCHANGED <<file, tree, conn, m_status>>
      BY <1>5, <3>3 DEF AddToPool
    <3> QED
      BY <1>5, <3>4 DEF AddToPool, Done
  <2> QED
    BY <2>2, <2>3
<1>6. ASSUME RecvEnds PROVE cur \in Slots /\ Drops(cur)
  BY <1>6 DEF LoopInv, TypeOK, Drops
<1> QED
  BY <1>1, <1>2, <1>3, <1>4, <1>5, <1>6 DEF Main

LEMMA StepKinds ==
  ASSUME LoopInv, [Next]_vars
  PROVE  \/ Wait \/ Exit \/ Register
         \/ \E s \in Slots : AcceptDropped(s) \/ AcceptConnect(s) \/ ReadLength(s) \/ Drops(s)
         \/ \E c \in Clients : Connect(c)
         \/ Quiet
<1>1. ASSUME NEW w \in Workers, StartTask(w) \/ MyTask(w) PROVE Quiet
  BY <1>1 DEF StartTask, MyTask, SendArguments, SendReply, ResetLength, ClearHeader,
     Quiet, StructVars, InRecv, slotVars, kernelVars, recvVars, clientVars
<1>2. ASSUME NEW c \in Clients, SendPacket(c) \/ CloseClient(c) PROVE Quiet
  BY <1>2 DEF SendPacket, CloseClient, Quiet, StructVars, InRecv, slotVars, kernelVars, recvVars
<1>3. ASSUME UNCHANGED vars PROVE Quiet
  BY <1>3 DEF vars, Quiet, StructVars, InRecv, slotVars, kernelVars, recvVars, clientVars
<1> QED
  BY <1>1, <1>2, <1>3, MainKinds DEF Next, Client

LEMMA ListenerKeptNext == LoopInv /\ [Next]_vars => ListenerKept'
<1> SUFFICES ASSUME LoopInv, [Next]_vars PROVE ListenerKept'
  OBVIOUS
<1>a. TypeOK /\ ListenerKept /\ CurrentSlot
  BY DEF LoopInv
<1> USE <1>a, LoopSizes DEF ListenerKept, TypeOK
<1>1. ASSUME Wait \/ Exit \/ Quiet PROVE ListenerKept'
  BY <1>1 DEF Wait, Exit, Quiet, StructVars, slotVars
<1>2. ASSUME Register PROVE ListenerKept'
  <2>1. cur # Listener
    BY <1>2 DEF Register, CurrentSlot, Active
  <2> QED
    BY <1>2, <2>1 DEF Register
<1>3. ASSUME NEW s \in Slots, AcceptDropped(s) \/ ReadLength(s) PROVE ListenerKept'
  BY <1>3 DEF AcceptDropped, ReadLength, slotVars
<1>4. ASSUME NEW s \in Slots, AcceptConnect(s) PROVE ListenerKept'
  BY <1>4, AcceptShape
<1>5. ASSUME NEW s \in Slots, Drops(s) PROVE ListenerKept'
  BY <1>5, DropShape
<1>6. ASSUME NEW c \in Clients, Connect(c) PROVE ListenerKept'
  BY <1>6 DEF Connect, slotVars
<1> QED
  BY <1>1, <1>2, <1>3, <1>4, <1>5, <1>6, StepKinds

LEMMA SlotsOwnFdsNext == LoopInv /\ [Next]_vars => SlotsOwnFds'
<1> SUFFICES ASSUME LoopInv, [Next]_vars PROVE SlotsOwnFds'
  OBVIOUS
<1>a. TypeOK /\ ListenerKept /\ CurrentSlot /\ SlotsOwnFds
  BY DEF LoopInv
<1>b. ASSUME UNCHANGED StructVars, pc' = "exited" <=> pc = "exited" PROVE SlotsOwnFds'
  BY <1>a, <1>b DEF SlotsOwnFds, StructVars, Active, OpenFds
<1>1. ASSUME Quiet PROVE SlotsOwnFds'
  BY <1>1, <1>b DEF Quiet
<1>2. ASSUME Wait \/ \E s \in Slots : ReadLength(s) PROVE SlotsOwnFds'
  BY <1>2, <1>b DEF Wait, ReadLength, Event, StructVars, slotVars, kernelVars, clientVars
<1>3. ASSUME Exit PROVE SlotsOwnFds'
  BY <1>3, <1>a DEF Exit, SlotsOwnFds, Active, slotVars
<1>4. ASSUME Register PROVE SlotsOwnFds'
  <2>1. /\ cur \in Slots \ Active /\ new_fd \in OpenFds /\ cur # Listener
        /\ \A s \in Active : m_fd[s] # new_fd
    BY <1>4, <1>a, LoopSizes DEF Register, CurrentSlot, TypeOK, ListenerKept, Active
  <2>2. PICK added \in BOOLEAN :
          /\ tree' = IF added THEN tree \cup {<<new_fd, cur>>} ELSE tree
          /\ m_status' = [m_status EXCEPT ![cur] = Status(added)]
    BY <1>4 DEF Register
  <2>3. /\ Active' = IF added THEN Active \cup {cur} ELSE Active
        /\ m_fd'[cur] = new_fd /\ call_back'[cur] = "recvdata"
        /\ \A s \in Active : m_fd'[s] = m_fd[s] /\ call_back'[s] = call_back[s]
        /\ pc # "exited" /\ file' = file
    BY <1>4, <1>a, <2>1, <2>2 DEF Register, Active, Status, TypeOK
  <2>4. \A s, t \in Active' : m_fd'[s] = m_fd'[t] => s = t
    BY <1>a, <2>1, <2>3 DEF SlotsOwnFds
  <2>5. tree' = {<<m_fd'[s], s>> : s \in Active'}
    BY <1>a, <2>1, <2>2, <2>3 DEF SlotsOwnFds
  <2>6. \A s \in Active' \ {Listener} : m_fd'[s] \in OpenFds' /\ call_back'[s] = "recvdata"
    BY <1>a, <2>1, <2>3 DEF SlotsOwnFds, OpenFds
  <2> QED
    BY <2>4, <2>5, <2>6 DEF SlotsOwnFds
<1>5. ASSUME NEW s \in Slots, AcceptDropped(s) PROVE SlotsOwnFds'
  BY <1>5, <1>a
  DEF AcceptDropped, Event, Done, SlotsOwnFds, Active, OpenFds, slotVars
<1>6. ASSUME NEW s \in Slots, AcceptConnect(s) PROVE SlotsOwnFds'
  <2>1. /\ Active' = Active /\ pc # "exited" /\ tree' = tree
        /\ \A t \in Active : m_fd'[t] = m_fd[t] /\ call_back'[t] = call_back[t]
    BY <1>6, <1>a, AcceptShape DEF Active, TypeOK
  <2>2. OpenFds \subseteq OpenFds'
    <3>1. Head(backlog) # None
      BY <1>6, AcceptShape, LoopSizes
    <3>2. \A fd \in Fds : file'[fd] = IF fd = new_fd' THEN Head(backlog) ELSE file[fd]
      BY <1>6, <1>a, AcceptShape DEF TypeOK
    <3> QED
      BY <3>1, <3>2 DEF OpenFds
  <2> QED
    BY <1>a, <2>1, <2>2 DEF SlotsOwnFds
<1>7. ASSUME NEW s \in Slots, Drops(s) PROVE SlotsOwnFds'
  <2>1. /\ Active' = Active \ {s} /\ s \in Active /\ UNCHANGED <<m_fd, call_back>>
        /\ OpenFds' = OpenFds \ {m_fd[s]} /\ tree' = {e \in tree : e[1] # m_fd[s]}
        /\ pc # "exited"
    BY <1>7, DropShape DEF InRecv
  <2>2. tree' = {<<m_fd'[t], t>> : t \in Active'}
    BY <1>a, <2>1 DEF SlotsOwnFds
  <2> QED
    BY <1>a, <2>1, <2>2 DEF SlotsOwnFds
<1>8. ASSUME NEW c \in Clients, Connect(c) PROVE SlotsOwnFds'
  BY <1>8, <1>a DEF Connect, SlotsOwnFds, Active, OpenFds, slotVars
<1> QED
  BY <1>1, <1>2, <1>3, <1>4, <1>5, <1>6, <1>7, <1>8, StepKinds

LEMMA CurrentSlotNext == LoopInv /\ [Next]_vars => CurrentSlot'
<1> SUFFICES ASSUME LoopInv, [Next]_vars PROVE CurrentSlot'
  OBVIOUS
<1>a. TypeOK /\ ListenerKept /\ CurrentSlot /\ SlotsOwnFds
  BY DEF LoopInv
<1>1. ASSUME Quiet PROVE CurrentSlot'
  BY <1>1, <1>a DEF Quiet, StructVars, CurrentSlot, Active, OpenFds
<1>2. ASSUME Wait PROVE CurrentSlot'
  <2>1. Ready \subseteq Active
    <3>1. tree = {<<m_fd[t], t>> : t \in Active}
      BY <1>2, <1>a DEF Wait, SlotsOwnFds
    <3>2. ASSUME NEW s \in Ready PROVE s \in Active
      <4>1. PICK fd \in Fds \cup {ListenFd} : <<fd, s>> \in tree
        BY DEF Ready
      <4> QED
        BY <3>1, <4>1
    <3> QED
      BY <3>2
  <2> QED
    BY <1>2, <2>1 DEF Wait, CurrentSlot, InRecv, Active, slotVars
<1>3. ASSUME Exit PROVE CurrentSlot'
  BY <1>3, <1>a DEF Exit, CurrentSlot, InRecv, Active, slotVars
<1>4. ASSUME Register PROVE CurrentSlot'
  BY <1>4, <1>a DEF Register, CurrentSlot, InRecv, Active, Done, TypeOK
<1>5. ASSUME NEW s \in Slots, AcceptDropped(s) PROVE CurrentSlot'
  BY <1>5, <1>a DEF AcceptDropped, Event, Done, CurrentSlot, InRecv, Active, slotVars
<1>6. ASSUME NEW s \in Slots, AcceptConnect(s) PROVE CurrentSlot'
  <2>1. Active' = Active /\ \A t \in Active : m_fd'[t] = m_fd[t]
    BY <1>6, <1>a, AcceptShape DEF Active, TypeOK
  <2>2. new_fd' \in OpenFds' /\ \A t \in Active : m_fd[t] # new_fd'
    <3>1. file'[new_fd'] # None /\ new_fd' \in Fds
      <4>1. Head(backlog) # None /\ new_fd' \in Fds
        BY <1>6, AcceptShape, LoopSizes
      <4>2. file' = [file EXCEPT ![new_fd'] = Head(backlog)] /\ DOMAIN file = Fds
        BY <1>6, <1>a, AcceptShape DEF TypeOK
      <4> QED
        BY <4>1, <4>2
    <3>2. \A t \in Active \ {Listener} : m_fd[t] # new_fd'
      BY <1>6, <1>a, AcceptShape DEF SlotsOwnFds, OpenFds
    <3>3. m_fd[Listener] # new_fd'
      BY <1>a, <3>1, LoopSizes DEF ListenerKept
    <3> QED
      BY <3>1, <3>2, <3>3 DEF OpenFds
  <2> QED
    BY <1>6, <1>a, <2>1, <2>2, AcceptShape DEF CurrentSlot, InRecv
<1>7. ASSUME NEW s \in Slots, ReadLength(s) PROVE CurrentSlot'
  BY <1>7, <1>a DEF ReadLength, Event, CurrentSlot, InRecv, Active, ListenerKept, slotVars
<1>8. ASSUME NEW s \in Slots, Drops(s) PROVE CurrentSlot'
  BY <1>8, <1>a, DropShape DEF CurrentSlot, InRecv
<1>9. ASSUME NEW c \in Clients, Connect(c) PROVE CurrentSlot'
  BY <1>9, <1>a DEF Connect, CurrentSlot, InRecv, Active, OpenFds, slotVars, recvVars
<1> QED
  BY <1>1, <1>2, <1>3, <1>4, <1>5, <1>6, <1>7, <1>8, <1>9, StepKinds

LEMMA BacklogTail ==
  ASSUME backlog \in Seq(Clients), backlog # <<>>
  PROVE  /\ Tail(backlog) \in Seq(Clients)
         /\ 1 \in DOMAIN backlog /\ Head(backlog) = backlog[1]
         /\ \A k \in DOMAIN Tail(backlog) :
              k \in Nat /\ k > 0 /\ k + 1 \in DOMAIN backlog /\ Tail(backlog)[k] = backlog[k + 1]
BY TailElements, HeadTailProperties

LEMMA BacklogAppend ==
  ASSUME backlog \in Seq(Clients), NEW c \in Clients
  PROVE  /\ Append(backlog, c) \in Seq(Clients)
         /\ \A k \in DOMAIN Append(backlog, c) :
              \/ k \in DOMAIN backlog /\ Append(backlog, c)[k] = backlog[k]
              \/ k = Len(backlog) + 1 /\ Append(backlog, c)[k] = c
BY AppendElements, AppendProperties

LEMMA ClientsOnceNext == LoopInv /\ [Next]_vars => ClientsOnce'
<1> SUFFICES ASSUME LoopInv, [Next]_vars PROVE ClientsOnce'
  OBVIOUS
<1>a. TypeOK /\ ListenerKept /\ CurrentSlot /\ SlotsOwnFds /\ ClientsOnce
  BY DEF LoopInv
<1>b. ASSUME UNCHANGED <<file, backlog, conn>>,
             pc' # "exited" /\ Listener \in batch' => backlog # <<>>
      PROVE  ClientsOnce'
  BY <1>a, <1>b DEF ClientsOnce, OpenFds, Accepted
<1>1. ASSUME Quiet PROVE ClientsOnce'
  BY <1>1, <1>a, <1>b DEF Quiet, StructVars, ClientsOnce
<1>2. ASSUME Wait PROVE ClientsOnce'
  <2>1. ASSUME Listener \in Ready PROVE backlog # <<>>
    <3>1. PICK fd \in Fds \cup {ListenFd} : <<fd, Listener>> \in tree /\ Readable(fd)
      BY <2>1 DEF Ready
    <3>2. tree = {<<m_fd[t], t>> : t \in Active}
      BY <1>2, <1>a DEF Wait, SlotsOwnFds
    <3>3. fd = ListenFd
      BY <1>a, <3>1, <3>2 DEF ListenerKept
    <3> QED
      BY <3>1, <3>3, LoopSizes DEF Readable, OpenFds
  <2> QED
    BY <1>2, <1>b, <2>1 DEF Wait, kernelVars, clientVars
<1>3. ASSUME Exit PROVE ClientsOnce'
  <2>1. OpenFds' = {} /\ Accepted' = {}
    BY <1>3 DEF Exit, OpenFds, Accepted
  <2>2. backlog' = <<>> /\ pc' = "exited" /\ <<>> \in Seq(Clients) /\ DOMAIN (<<>>) = {}
    BY <1>3 DEF Exit
  <2> QED
    BY <2>1, <2>2 DEF ClientsOnce
<1>4. ASSUME Register PROVE ClientsOnce'
  BY <1>4, <1>a, <1>b DEF Register, clientVars, ClientsOnce
<1>5. ASSUME NEW s \in Slots, AcceptDropped(s) PROVE ClientsOnce'
  <2>1. s = Listener /\ s \in batch /\ pc # "exited" /\ batch' = batch \ {s}
    BY <1>5, <1>a DEF AcceptDropped, Event, ListenerKept
  <2>2. backlog # <<>> /\ backlog \in Seq(Clients)
    BY <1>a, <2>1 DEF ClientsOnce
  <2>3. /\ file' = file /\ backlog' = Tail(backlog)
        /\ conn' = [conn EXCEPT ![Head(backlog)] = "closed"]
    BY <1>5 DEF AcceptDropped
  <2>4. OpenFds' = OpenFds /\ Accepted' = Accepted
    BY <2>3 DEF OpenFds, Accepted
  <2>5. \A c \in Clients : conn[c] # "none" => conn'[c] # "none"
    BY <1>a, <2>3 DEF TypeOK
  <2>6. \A j, k \in DOMAIN backlog' : backlog'[j] = backlog'[k] => j = k
    BY <1>a, <2>2, <2>3, BacklogTail DEF ClientsOnce
  <2>7. \A k \in DOMAIN backlog' : backlog'[k] \notin Accepted /\ conn'[backlog'[k]] # "none"
    <3> TAKE k \in DOMAIN backlog'
    <3>1. k + 1 \in DOMAIN backlog /\ backlog'[k] = backlog[k + 1]
      BY <2>2, <2>3, BacklogTail
    <3>2. backlog[k + 1] \in Clients
      BY <2>2, <3>1, ElementOfSeq, LenProperties
    <3> QED
      BY <1>a, <2>5, <3>1, <3>2 DEF ClientsOnce
  <2>8. \A c \in Accepted : conn'[c] # "none"
    BY <1>a, <2>5, AcceptedType DEF ClientsOnce
  <2> QED
    BY <1>a, <2>1, <2>2, <2>3, <2>4, <2>6, <2>7, <2>8, BacklogTail DEF ClientsOnce
<1>6. ASSUME NEW s \in Slots, AcceptConnect(s) PROVE ClientsOnce'
  <2>1. /\ s = Listener /\ batch' = batch \ {s} /\ backlog # <<>>
        /\ backlog \in Seq(Clients)
        /\ new_fd' \in Fds /\ file[new_fd'] = None
        /\ Head(backlog) \in Clients \ Accepted
        /\ backlog' = Tail(backlog) /\ conn' = conn
    BY <1>6, <1>a, AcceptShape DEF ClientsOnce
  <2>2. \A fd \in Fds : file'[fd] = IF fd = new_fd' THEN Head(backlog) ELSE file[fd]
    BY <1>6, <1>a, AcceptShape DEF TypeOK
  <2>3. OpenFds' = OpenFds \cup {new_fd'} /\ new_fd' \notin OpenFds
    BY <2>1, <2>2, LoopSizes DEF OpenFds
  <2>4. Accepted' = Accepted \cup {Head(backlog)}
    <3>1. \A fd \in OpenFds : file'[fd] = file[fd]
      BY <2>2, <2>3 DEF OpenFds
    <3> QED
      BY <2>1, <2>2, <2>3, <3>1 DEF Accepted
  <2>5. \A fd, gd \in OpenFds' : file'[fd] = file'[gd] => fd = gd
    <3>1. \A fd \in OpenFds : file'[fd] = file[fd] /\ file[fd] # Head(backlog)
      BY <2>1, <2>2, <2>3 DEF OpenFds, Accepted
    <3>2. file'[new_fd'] = Head(backlog)
      BY <2>1, <2>2
    <3> QED
      BY <1>a, <2>3, <3>1, <3>2 DEF ClientsOnce
  <2>6. \A j, k \in DOMAIN backlog' : backlog'[j] = backlog'[k] => j = k
    BY <1>a, <2>1, BacklogTail DEF ClientsOnce
  <2>7. ASSUME NEW k \in DOMAIN backlog'
        PROVE  backlog'[k] \notin Accepted' /\ conn'[backlog'[k]] # "none"
    <3>1. /\ k \in Nat /\ k > 0 /\ k + 1 \in DOMAIN backlog /\ backlog'[k] = backlog[k + 1]
          /\ 1 \in DOMAIN backlog /\ Head(backlog) = backlog[1]
      BY <2>1, BacklogTail
    <3>2. backlog[k + 1] # backlog[1]
      <4>1. k + 1 # 1
        BY <3>1
      <4> QED
        BY <1>a, <3>1, <4>1 DEF ClientsOnce
    <3> QED
      BY <1>a, <2>1, <2>4, <3>1, <3>2 DEF ClientsOnce
  <2>8. \A c \in Accepted' : conn'[c] # "none"
    BY <1>a, <2>1, <2>4, BacklogTail DEF ClientsOnce
  <2>9. backlog' \in Seq(Clients) /\ Listener \notin batch'
    BY <2>1, BacklogTail
  <2> QED
    BY <2>5, <2>6, <2>7, <2>8, <2>9 DEF ClientsOnce
<1>7. ASSUME NEW s \in Slots, ReadLength(s) PROVE ClientsOnce'
  BY <1>7, <1>a, <1>b DEF ReadLength, Event, slotVars, kernelVars, clientVars, ClientsOnce
<1>8. ASSUME NEW s \in Slots, Drops(s) PROVE ClientsOnce'
  <2>1. /\ backlog' = backlog /\ batch' \subseteq batch /\ pc # "exited"
        /\ m_fd[s] \in OpenFds /\ OpenFds' = OpenFds \ {m_fd[s]}
        /\ file' = [file EXCEPT ![m_fd[s]] = None]
        /\ conn' = [conn EXCEPT ![file[m_fd[s]]] = "closed"]
    BY <1>8, DropShape DEF InRecv
  <2>2. \A fd \in OpenFds' : fd \in OpenFds /\ file'[fd] = file[fd]
    BY <1>a, <2>1 DEF OpenFds, TypeOK
  <2>3. Accepted' \subseteq Accepted
    BY <2>2 DEF Accepted
  <2>4. \A c \in Clients : conn[c] # "none" => conn'[c] # "none"
    BY <1>a, <2>1 DEF TypeOK
  <2>5. \A k \in DOMAIN backlog : backlog[k] \in Clients
    BY <1>a, ElementOfSeq, LenProperties DEF ClientsOnce
  <2> QED
    BY <1>a, <2>1, <2>2, <2>3, <2>4, <2>5, AcceptedType DEF ClientsOnce
<1>9. ASSUME NEW c \in Clients, Connect(c) PROVE ClientsOnce'
  <2>1. /\ conn[c] = "none" /\ pc' = pc /\ batch' = batch /\ file' = file
        /\ conn' = [conn EXCEPT ![c] = "open"] /\ backlog' = Append(backlog, c)
        /\ backlog \in Seq(Clients)
    BY <1>9, <1>a DEF Connect, ClientsOnce
  <2>2. OpenFds' = OpenFds /\ Accepted' = Accepted /\ c \notin Accepted
    BY <1>a, <2>1 DEF OpenFds, Accepted, ClientsOnce
  <2>3. \A d \in Clients : conn[d] # "none" \/ d = c => conn'[d] # "none"
    BY <1>a, <2>1 DEF TypeOK
  <2>4. /\ backlog' \in Seq(Clients)
        /\ \A k \in DOMAIN backlog' : \/ k \in DOMAIN backlog /\ backlog'[k] = backlog[k]
                                      \/ k = Len(backlog) + 1 /\ backlog'[k] = c
    BY <2>1, BacklogAppend
  <2>5. \A k \in DOMAIN backlog : /\ backlog[k] \in Clients /\ backlog[k] # c
                                  /\ conn[backlog[k]] # "none" /\ backlog[k] \notin Accepted
    BY <1>a, <2>1, ElementOfSeq, LenProperties DEF ClientsOnce
  <2>6. \A j, k \in DOMAIN backlog' : backlog'[j] = backlog'[k] => j = k
    BY <1>a, <2>4, <2>5 DEF ClientsOnce
  <2>7. \A k \in DOMAIN backlog' : backlog'[k] \notin Accepted' /\ conn'[backlog'[k]] # "none"
    BY <2>2, <2>3, <2>4, <2>5
  <2>8. \A d \in Accepted' : conn'[d] # "none"
    BY <1>a, <2>2, <2>3, AcceptedType DEF ClientsOnce
  <2>9. pc' # "exited" /\ Listener \in batch' => backlog' # <<>>
    <3>1. Len(backlog) \in Nat /\ Len(backlog') = Len(backlog) + 1
      BY <2>1, AppendProperties, LenProperties
    <3> QED
      BY <3>1, <2>4, EmptySeq
  <2>10. \A fd, gd \in OpenFds' : file'[fd] = file'[gd] => fd = gd
    BY <1>a, <2>1, <2>2 DEF ClientsOnce
  <2> QED
    BY <2>4, <2>6, <2>7, <2>8, <2>9, <2>10 DEF ClientsOnce
<1> QED
  BY <1>1, <1>2, <1>3, <1>4, <1>5, <1>6, <1>7, <1>8, <1>9, StepKinds

LEMMA NoOrphansNext == LoopInv /\ [Next]_vars => NoOrphans'
<1> SUFFICES ASSUME LoopInv, [Next]_vars, "epoll_ctl" \notin Faults, pc' # "exited"
             PROVE  \A fd \in OpenFds' : \/ \E s \in Active' : m_fd'[s] = fd
                                         \/ pc' = "register" /\ fd = new_fd'
  BY DEF NoOrphans
<1>a. TypeOK /\ CurrentSlot /\ NoOrphans
  BY DEF LoopInv
<1>b. ASSUME UNCHANGED <<m_fd, m_status, file>>, pc # "exited", pc # "register"
      PROVE  \A fd \in OpenFds' : \E s \in Active' : m_fd'[s] = fd
  BY <1>a, <1>b DEF NoOrphans, Active, OpenFds
<1>1. CASE Quiet
  BY <1>1, <1>a DEF Quiet, StructVars, NoOrphans, Active, OpenFds
<1>2. CASE Wait \/ (\E s \in Slots : AcceptDropped(s) \/ ReadLength(s))
  BY <1>2, <1>b DEF Wait, AcceptDropped, ReadLength, Event, slotVars, kernelVars
<1>3. CASE Exit
  BY <1>3 DEF Exit
<1>4. CASE Register
  <2>1. /\ pc = "register" /\ file' = file /\ cur \notin Active /\ cur \in Slots
        /\ m_fd' = [m_fd EXCEPT ![cur] = new_fd]
        /\ m_status' = [m_status EXCEPT ![cur] = 1]
    BY <1>4, <1>a DEF Register, Status, CurrentSlot, TypeOK
  <2>2. Active' = Active \cup {cur} /\ m_fd'[cur] = new_fd
        /\ \A s \in Active : m_fd'[s] = m_fd[s]
    BY <1>a, <2>1 DEF Active, TypeOK
  <2> QED
    BY <1>a, <2>1, <2>2 DEF NoOrphans, OpenFds
<1>5. ASSUME NEW s \in Slots, AcceptConnect(s)
      PROVE  \A fd \in OpenFds' : (\E t \in Active' : m_fd'[t] = fd) \/ fd = new_fd'
  <2>1. /\ pc = "dispatch" /\ Active' = Active /\ \A t \in Active : m_fd'[t] = m_fd[t]
    BY <1>5, <1>a, AcceptShape DEF Active, TypeOK
  <2>2. \A fd \in OpenFds' : fd \in OpenFds \/ fd = new_fd'
    BY <1>5, <1>a, AcceptShape DEF OpenFds, TypeOK
  <2> QED
    BY <1>a, <2>1, <2>2 DEF NoOrphans
<1>6. ASSUME NEW s \in Slots, Drops(s)
      PROVE  \A fd \in OpenFds' : \E t \in Active' : m_fd'[t] = fd
  BY <1>6, <1>a, DropShape DEF NoOrphans, InRecv
<1>7. CASE \E c \in Clients : Connect(c)
  BY <1>7, <1>a DEF Connect, slotVars, recvVars, NoOrphans, Active, OpenFds
<1> QED
  BY <1>1, <1>2, <1>3, <1>4, <1>5, <1>6, <1>7, StepKinds, AcceptShape

-----------------------------------------------------------------------------
(* The buffers *)

(* The slot that recv is called for has an open connection. *)
LEMMA RecvSlot ==
  ASSUME LoopInv, InArguments
  PROVE  /\ cur \in Slots /\ m_fd[cur] \in OpenFds /\ file[m_fd[cur]] \in Clients
         /\ Input \in Seq(Bytes) /\ Len(Input) \in Nat
         /\ m_rcv_buf_len[cur] \in 0..BufSize /\ loaded \in 0..BufSize
         /\ Offset \in 0..BufSize /\ Room \in Nat
<1>a. TypeOK /\ CurrentSlot /\ SlotsOwnFds /\ LengthsFit
  BY DEF LoopInv
<1>1. m_fd[cur] \in OpenFds /\ file[m_fd[cur]] \in Clients /\ cur \in Slots
  <2>1. cur \in Active \ {Listener} /\ pc # "exited" /\ cur \in Slots
    BY <1>a DEF InArguments, InRecv, CurrentSlot, Active
  <2> QED
    BY <1>a, <2>1, AcceptedType DEF SlotsOwnFds
<1>2. Input \in Seq(Bytes) /\ Len(Input) \in Nat
  BY <1>a, <1>1, LenProperties DEF LengthsFit, Input
<1>3. m_rcv_buf_len[cur] \in 0..BufSize /\ loaded \in 0..BufSize
  BY <1>a, <1>1, LoopSizes DEF LengthsFit, TypeOK
<1> QED
  BY <1>1, <1>2, <1>3, LoopSizes DEF Offset, Room, RoomAt

(* Bytes leave the buffer only when the size is computed after a reset that *)
(* the offset does not know of.                                             *)
LEMMA OverrunShape ==
  ASSUME LoopInv, Overrun
  PROVE  loaded > 0 /\ m_rcv_buf_len[cur] = 0 /\ pc = "room"
<1>1. InArguments /\ Offset + Min({Len(Input), Room}) > BufSize
  BY DEF Overrun
<1>2. /\ Len(Input) \in Nat /\ Room \in Nat /\ Offset \in Nat /\ loaded \in Nat
      /\ m_rcv_buf_len[cur] \in Nat /\ BufSize \in Nat
      /\ loaded <= BufSize /\ m_rcv_buf_len[cur] \in {0, loaded}
  BY <1>1, RecvSlot, LoopSizes DEF LoopInv, LengthsFit
<1>3. Min({Len(Input), Room}) \in Nat /\ Min({Len(Input), Room}) <= Room
  BY <1>2, MinIsLeast
<1>4. Offset + Room > BufSize
  BY <1>1, <1>2, <1>3
<1>5. m_rcv_buf_len[cur] = 0
  BY <1>2, <1>4 DEF Offset, Room, RoomAt
<1> QED
  BY <1>1, <1>2, <1>4, <1>5 DEF Offset, Room, RoomAt, InArguments

(* recv appends what it returns, which fits into the rest of the buffer. *)
LEMMA RecvShape ==
  ASSUME LoopInv, Recv
  PROVE  /\ chunk' \in Nat /\ chunk' >= 1 /\ m_rcv_buf_len[cur] + chunk' <= BufSize
         /\ cur \in Slots /\ m_rcv_buf_len' = m_rcv_buf_len /\ pc' = "load"
         /\ m_rcv_buf' \in [Slots -> [0..(BufSize - 1) -> Bytes]]
         /\ rx' \in [Clients -> Seq(Bytes)]
<1>a. TypeOK /\ LengthsFit
  BY DEF LoopInv
<1>0. PICK off \in 0..BufSize : off = Offset
  BY RecvSlot DEF Recv
<1>00. PICK in \in Seq(Bytes) : in = Input
  BY RecvSlot DEF Recv
<1>1. m_fd[cur] \in OpenFds /\ file[m_fd[cur]] \in Clients /\ cur \in Slots
  BY RecvSlot DEF Recv
<1>2. /\ in \in Seq(Bytes) /\ Len(in) \in Nat /\ off \in 0..BufSize /\ Room \in Nat
      /\ m_rcv_buf_len[cur] \in Nat /\ m_rcv_buf_len[cur] <= off
  <2>1. InArguments /\ m_rcv_buf_len[cur] \in 0..BufSize
    BY RecvSlot DEF Recv
  <2>2. m_rcv_buf_len[cur] <= Offset
    BY <1>a, <1>0, <2>1, LoopSizes DEF LengthsFit, Offset
  <2> QED
    BY <1>0, <1>00, <2>1, <2>2, RecvSlot, LoopSizes
<1>3. PICK n \in 1..Min({Len(in), Room}) :
        /\ off + n <= BufSize
        /\ m_rcv_buf' = [m_rcv_buf EXCEPT ![cur] =
             [k \in DOMAIN @ |-> IF k \in off..(off + n - 1) THEN in[k - off + 1] ELSE @[k]]]
        /\ rx' = [rx EXCEPT ![file[m_fd[cur]]] = SubSeq(in, n + 1, Len(in))]
        /\ chunk' = n
  BY <1>0, <1>00 DEF Recv
<1>4. Min({Len(in), Room}) \in Nat /\ Min({Len(in), Room}) <= Len(in)
  BY <1>2, MinIsLeast
<1>5. n \in Nat /\ n >= 1 /\ n <= Len(in) /\ n <= BufSize - off
  BY <1>2, <1>3, <1>4, LoopSizes
<1>6. m_rcv_buf_len[cur] + n <= BufSize
  BY <1>2, <1>5, LoopSizes
<1>7. m_rcv_buf' \in [Slots -> [0..(BufSize - 1) -> Bytes]]
  <2> DEFINE new == [k \in 0..(BufSize - 1) |->
                       IF k \in off..(off + n - 1) THEN in[k - off + 1] ELSE m_rcv_buf[cur][k]]
  <2>1. m_rcv_buf' = [m_rcv_buf EXCEPT ![cur] = new]
    BY <1>a, <1>1, <1>3 DEF TypeOK
  <2>2. ASSUME NEW k \in off..(off + n - 1) PROVE in[k - off + 1] \in Bytes
    <3>1. k - off + 1 \in 1..Len(in)
      BY <1>2, <1>5
    <3> QED
      BY <1>2, <3>1, ElementOfSeq
  <2>3. \A k \in 0..(BufSize - 1) : m_rcv_buf[cur][k] \in Bytes
    BY <1>a, <1>1 DEF TypeOK
  <2>4. new \in [0..(BufSize - 1) -> Bytes]
    BY <2>2, <2>3
  <2> HIDE DEF new
  <2> QED
    BY <1>a, <2>1, <2>4 DEF TypeOK
<1>8. rx' \in [Clients -> Seq(Bytes)]
  <2>1. \A i \in (n + 1)..Len(in) : in[i] \in Bytes
    <3>1. \A i \in (n + 1)..Len(in) : i \in 1..Len(in)
      BY <1>2, <1>5
    <3> QED
      BY <1>2, <3>1, ElementOfSeq
  <2>2. SubSeq(in, n + 1, Len(in)) \in Seq(Bytes)
    BY <1>2, <1>5, <2>1, SubSeqProperties
  <2> QED
    BY <1>a, <1>1, <1>3, <2>2 DEF LengthsFit
<1>9. m_rcv_buf_len' = m_rcv_buf_len /\ pc' = "load"
  BY DEF Recv
<1> QED
  BY <1>1, <1>3, <1>5, <1>6, <1>7, <1>8, <1>9

(* The packet a client sends is a sequence of bytes. *)
LEMMA SendShape ==
  ASSUME LoopInv, NEW c \in Clients, SendPacket(c)
  PROVE  rx' \in [Clients -> Seq(Bytes)]
<1>1. /\ rx \in [Clients -> Seq(Bytes)] /\ sent[c] \in Nat /\ sent[c] < Len(Script[c])
      /\ rx' = [rx EXCEPT ![c] = @ \o Script[c][sent[c] + 1]]
  BY DEF LoopInv, LengthsFit, TypeOK, SendPacket
<1>2. Script[c] \in Seq(Seq(Bytes)) /\ Len(Script[c]) \in Nat
  BY EventLoopAssumption, LenProperties
<1>3. sent[c] + 1 \in 1..Len(Script[c])
  BY <1>1, <1>2
<1>4. Script[c][sent[c] + 1] \in Seq(Bytes)
  BY <1>2, <1>3, ElementOfSeq
<1>5. rx[c] \o Script[c][sent[c] + 1] \in Seq(Bytes)
  BY <1>1, <1>4, ConcatProperties
<1> QED
  BY <1>1, <1>5

LEMMA LengthsFitNext == LoopInv /\ [Next]_vars => LengthsFit'
<1> SUFFICES ASSUME LoopInv, [Next]_vars PROVE LengthsFit'
  OBVIOUS
<1>a. TypeOK /\ LengthsFit
  BY DEF LoopInv
<1> USE <1>a, LoopSizes DEF TypeOK, LengthsFit, InArguments, slotVars, kernelVars, recvVars,
         poolVars, workerVars, clientVars
<1>1. ASSUME Wait PROVE LengthsFit'
  BY <1>1 DEF Wait
<1>2. ASSUME WaitFails PROVE LengthsFit'
  BY <1>2 DEF WaitFails, Pool!Close
<1>3. ASSUME Exit PROVE LengthsFit'
  BY <1>3 DEF Exit
<1>4. ASSUME NEW s \in Slots, AcceptFails(s) PROVE LengthsFit'
  BY <1>4 DEF AcceptFails, Done
<1>5. ASSUME NEW s \in Slots, AcceptDropped(s) PROVE LengthsFit'
  BY <1>5 DEF AcceptDropped, Done
<1>6. ASSUME NEW s \in Slots, AcceptConnect(s) PROVE LengthsFit'
  BY <1>6 DEF AcceptConnect
<1>7. ASSUME NEW s \in Slots, ReadLength(s) PROVE LengthsFit'
  BY <1>7 DEF ReadLength
<1>25. ASSUME Recv PROVE LengthsFit'
  <2>1. UNCHANGED <<wpc, running, cur>>
    BY <1>25 DEF Recv
  <2> QED
    BY <1>25, <2>1, RecvShape
<1>26. ASSUME Overrun PROVE LengthsFit'
  <2>1. loaded > 0 /\ m_rcv_buf_len[cur] = 0
    BY <1>26, OverrunShape
  <2> QED
    BY <1>26, <2>1 DEF Overrun
<1>8. ASSUME RecvEnds PROVE LengthsFit'
  BY <1>8 DEF RecvEnds, Done
<1>9. ASSUME Register PROVE LengthsFit'
  BY <1>9 DEF Register, Done
<1>10. ASSUME LoadLength PROVE LengthsFit'
  BY <1>10 DEF LoadLength
<1>11. ASSUME StoreLength PROVE LengthsFit'
  BY <1>11 DEF StoreLength
<1>12. ASSUME ReadHeader PROVE LengthsFit'
  BY <1>12 DEF ReadHeader
<1>13. ASSUME TestComplete PROVE LengthsFit'
  BY <1>13 DEF TestComplete
<1>14. ASSUME TestOverlong PROVE LengthsFit'
  BY <1>14 DEF TestOverlong, Done
<1>15. ASSUME AddToPool PROVE LengthsFit'
  <2>1. running' = running
    BY <1>15 DEF AddToPool, Pool!Submit
  <2> QED
    BY <1>15, <2>1 DEF AddToPool, Done
<1>16. ASSUME NEW w \in Workers, StartTask(w) PROVE LengthsFit'
  <2>1. running' = [running EXCEPT ![w] = Head(pending)] /\ Head(pending) \in Slots
    BY <1>16, HeadTailProperties DEF StartTask, Pool!Take
  <2> QED
    BY <1>16, <2>1 DEF StartTask, Goto
<1>17. ASSUME NEW w \in Workers, SendArguments(w) PROVE LengthsFit'
  BY <1>17 DEF SendArguments, Goto
<1>18. ASSUME NEW w \in Workers, SendReply(w) PROVE LengthsFit'
  BY <1>18 DEF SendReply, Goto
<1>19. ASSUME NEW w \in Workers, ResetLength(w) PROVE LengthsFit'
  BY <1>19 DEF ResetLength, Goto, LengthAfter
<1>20. ASSUME NEW w \in Workers, ClearHeader(w) PROVE LengthsFit'
  <2>1. running' = [running EXCEPT ![w] = None] /\ wpc' = [wpc EXCEPT ![w] = "idle"]
    BY <1>20 DEF ClearHeader, Goto, Pool!Finish
  <2> QED
    BY <1>20, <2>1 DEF ClearHeader
<1>21. ASSUME NEW c \in Clients, Connect(c) PROVE LengthsFit'
  BY <1>21 DEF Connect
<1>22. ASSUME NEW c \in Clients, SendPacket(c) PROVE LengthsFit'
  BY <1>22, SendShape DEF SendPacket
<1>23. ASSUME NEW c \in Clients, CloseClient(c) PROVE LengthsFit'
  BY <1>23 DEF CloseClient
<1>24. ASSUME UNCHANGED vars PROVE LengthsFit'
  BY <1>24 DEF vars
<1> QED
  BY <1>1, <1>2, <1>3, <1>4, <1>5, <1>6, <1>7, <1>8, <1>9, <1>10, <1>11,
     <1>12, <1>13, <1>14, <1>15, <1>16, <1>17, <1>18, <1>19, <1>20, <1>21,
     <1>22, <1>23, <1>24, <1>25, <1>26
  DEF Next, Main, MyTask, Client

LEMMA ByteStored ==
  ASSUME NEW S, NEW D, NEW V, NEW f \in [S -> [D -> V]], NEW s, NEW d, NEW v \in V
  PROVE  [f EXCEPT ![s] = [@ EXCEPT ![d] = v]] \in [S -> [D -> V]]
<1>1. s \in S => [f[s] EXCEPT ![d] = v] \in [D -> V]
  OBVIOUS
<1> QED
  BY <1>1

LEMMA TypeOKNext == LoopInv /\ [Next]_vars => TypeOK'
<1> SUFFICES ASSUME LoopInv, [Next]_vars PROVE TypeOK'
  OBVIOUS
<1>a. TypeOK /\ CurrentSlot /\ ListenerKept /\ LengthsFit
  BY DEF LoopInv
<1> USE <1>a, LoopSizes DEF slotVars, kernelVars, recvVars, poolVars, workerVars, clientVars
<1>1. ASSUME Wait PROVE TypeOK'
  BY <1>1 DEF TypeOK, MainPCs, Wait, Ready
<1>2. ASSUME WaitFails PROVE TypeOK'
  BY <1>2 DEF TypeOK, MainPCs, WaitFails, Pool!Close
<1>3. ASSUME Exit PROVE TypeOK'
  BY <1>3 DEF Exit, TypeOK, MainPCs
<1>4. ASSUME NEW s \in Slots, AcceptFails(s) PROVE TypeOK'
  BY <1>4 DEF AcceptFails, TypeOK, MainPCs, Done, Event
<1>5. ASSUME NEW s \in Slots, AcceptDropped(s) PROVE TypeOK'
  BY <1>5 DEF AcceptDropped, TypeOK, MainPCs, Done, Event
<1>6. ASSUME NEW s \in Slots, AcceptConnect(s) PROVE TypeOK'
  <2>1. /\ cur' \in Slots /\ new_fd' \in Fds /\ Head(backlog) \in Clients
        /\ m_fd' = [m_fd EXCEPT ![cur'] = Stdin] /\ m_status' = m_status
        /\ call_back' = [call_back EXCEPT ![cur'] = "NULL"]
        /\ file' = [file EXCEPT ![new_fd'] = Head(backlog)]
        /\ pc' = "register" /\ batch' = batch \ {s} /\ UNCHANGED <<tree, conn>>
    BY <1>6, AcceptShape
  <2>2. /\ m_rcv_buf' = [m_rcv_buf EXCEPT ![cur'] = [k \in DOMAIN @ |-> 0]]
        /\ m_rcv_buf_len' = [m_rcv_buf_len EXCEPT ![cur'] = 0]
        /\ UNCHANGED <<chunk, loaded, header, poolVars, workerVars, clientVars>>
    BY <1>6 DEF AcceptConnect, clientVars
  <2>3. m_rcv_buf' \in [Slots -> [0..(BufSize - 1) -> Bytes]]
    BY <2>1, <2>2 DEF TypeOK, Bytes
  <2>4. m_rcv_buf_len' \in [Slots -> 0..BufSize] /\ m_fd' \in [Slots -> Fds \cup {Stdin, ListenFd}]
    BY <2>1, <2>2 DEF TypeOK
  <2>5. call_back' \in [Slots -> {"NULL", "acceptconnect", "recvdata"}]
        /\ file' \in [Fds -> Clients \cup {None}] /\ pc' \in MainPCs
    BY <2>1 DEF TypeOK, MainPCs
  <2> QED
    BY <2>1, <2>2, <2>3, <2>4, <2>5 DEF TypeOK
<1>7. ASSUME NEW s \in Slots, ReadLength(s) PROVE TypeOK'
  <2>1. loaded' \in Nat
    BY <1>7 DEF ReadLength, TypeOK
  <2>2. /\ UNCHANGED <<slotVars, kernelVars, new_fd, chunk, header, poolVars, workerVars,
                       clientVars>>
        /\ batch' = batch \ {s} /\ cur' = s /\ pc' \in MainPCs
    BY <1>7 DEF ReadLength, MainPCs
  <2> QED
    BY <2>1, <2>2 DEF TypeOK
<1>25. ASSUME Recv PROVE TypeOK'
  <2>1. chunk' \in 0..BufSize
    BY <1>25, RecvShape DEF TypeOK
  <2>2. UNCHANGED <<m_fd, m_status, m_rcv_buf_len, call_back, kernelVars, batch, cur, new_fd,
                    loaded, header, poolVars, workerVars, conn, eof, sent>>
    BY <1>25 DEF Recv
  <2>3. /\ m_rcv_buf' \in [Slots -> [0..(BufSize - 1) -> Bytes]]
        /\ pc' = "load"
    BY <1>25, RecvShape
  <2> QED
    BY <2>1, <2>2, <2>3 DEF TypeOK, MainPCs
<1>26. ASSUME Overrun PROVE TypeOK'
  BY <1>26 DEF Overrun, TypeOK, MainPCs
<1>8. ASSUME RecvEnds PROVE TypeOK'
  <2>1. cur \in Slots /\ Drops(cur)
    BY <1>8 DEF Drops, TypeOK
  <2>2. /\ m_status' = [m_status EXCEPT ![cur] = 0]
        /\ file' = [file EXCEPT ![m_fd[cur]] = None]
        /\ tree' \subseteq tree /\ conn' = [conn EXCEPT ![file[m_fd[cur]]] = "closed"]
        /\ pc' \in {"wait", "dispatch"}
    BY <2>1, DropShape
  <2> QED
    BY <1>8, <2>2 DEF TypeOK, MainPCs, RecvEnds
<1>9. ASSUME Register PROVE TypeOK'
  <2>1. new_fd \in Fds
    BY <1>9, AcceptedType DEF Register, CurrentSlot
  <2>2. /\ m_fd' = [m_fd EXCEPT ![cur] = new_fd]
        /\ call_back' = [call_back EXCEPT ![cur] = "recvdata"]
        /\ UNCHANGED <<m_rcv_buf, m_rcv_buf_len, file, batch, recvVars, poolVars, workerVars,
                       clientVars>>
    BY <1>9 DEF Register
  <2>3. tree' \subseteq tree \cup {<<new_fd, cur>>} /\ m_status' \in [Slots -> {0, 1}]
    BY <1>9 DEF Register, Status, TypeOK
  <2>4. pc' \in MainPCs
    BY <1>9 DEF Register, Done, MainPCs
  <2>5. m_fd' \in [Slots -> Fds \cup {Stdin, ListenFd}]
        /\ call_back' \in [Slots -> {"NULL", "acceptconnect", "recvdata"}]
    BY <2>1, <2>2 DEF TypeOK
  <2>6. tree' \subseteq (Fds \cup {ListenFd}) \X Slots
    BY <2>1, <2>3 DEF TypeOK
  <2> QED
    BY <2>2, <2>3, <2>4, <2>5, <2>6 DEF TypeOK
<1>10. ASSUME LoadLength PROVE TypeOK'
  <2>1. loaded' \in Nat
    BY <1>10 DEF LoadLength, TypeOK
  <2>2. /\ pc' \in MainPCs
        /\ UNCHANGED <<slotVars, kernelVars, batch, cur, new_fd, chunk, header, poolVars,
                       workerVars, clientVars>>
    BY <1>10 DEF LoadLength, MainPCs
  <2> QED
    BY <2>1, <2>2 DEF TypeOK
<1>11. ASSUME StoreLength PROVE TypeOK'
  <2>1. loaded \in Nat /\ chunk \in Nat /\ cur \in Slots
    BY DEF TypeOK
  <2>2. pc = "store" /\ loaded + chunk <= BufSize
    BY <1>11 DEF StoreLength, LengthsFit
  <2>3. loaded + chunk \in 0..BufSize
    BY <2>1, <2>2
  <2>4. m_rcv_buf_len' \in [Slots -> 0..BufSize]
    BY <1>11, <2>3 DEF TypeOK, StoreLength
  <2> QED
    BY <1>11, <2>4 DEF TypeOK, MainPCs, StoreLength
<1>12. ASSUME ReadHeader PROVE TypeOK'
  <2>1. m_rcv_buf[cur][0] \in Bytes /\ m_rcv_buf[cur][1] \in Bytes
    BY <1>12 DEF TypeOK
  <2> QED
    BY <1>12, <2>1 DEF TypeOK, MainPCs, ReadHeader
<1>13. ASSUME TestComplete PROVE TypeOK'
  BY <1>13 DEF TestComplete, TypeOK, MainPCs
<1>14. ASSUME TestOverlong PROVE TypeOK'
  <2>1. \/ UNCHANGED <<file, tree, conn, m_status>>
        \/ /\ m_status' = [m_status EXCEPT ![cur] = 0]
           /\ file' = [file EXCEPT ![m_fd[cur]] = None]
           /\ tree' \subseteq tree /\ conn' = [conn EXCEPT ![file[m_fd[cur]]] = "closed"]
    <3>1. CASE Verdict = "DATA_ERROR"
      BY <1>14, <3>1 DEF TestOverlong, CloseConnection
    <3> QED
      BY <1>14, <3>1 DEF TestOverlong
  <2> QED
    BY <1>14, <2>1 DEF TypeOK, MainPCs, TestOverlong, Done
<1>15. ASSUME AddToPool PROVE TypeOK'
  <2>1. pending' \in Seq(Slots) /\ Len(pending') <= QueueSize /\ running' = running
    <3>1. CASE Pool!Submit(cur)
      <4>1. Len(pending) < QueueSize /\ pending' = Append(pending, cur) /\ running' = running
        BY <3>1 DEF Pool!Submit
      <4>2. cur \in Slots /\ pending \in Seq(Slots) /\ Len(pending) \in Nat
        BY LenProperties DEF TypeOK
      <4>3. pending' \in Seq(Slots) /\ Len(pending') = Len(pending) + 1
        BY <4>1, <4>2, AppendProperties
      <4> QED
        BY <4>1, <4>2, <4>3
    <3>2. CASE UNCHANGED poolVars
      BY <3>2 DEF TypeOK
    <3> QED
      BY <1>15, <3>1, <3>2 DEF AddToPool
  <2>2. \/ UNCHANGED <<file, tree, conn, m_status>>
        \/ /\ m_status' = [m_status EXCEPT ![cur] = 0]
           /\ file' = [file EXCEPT ![m_fd[cur]] = None]
           /\ tree' \subseteq tree /\ conn' = [conn EXCEPT ![file[m_fd[cur]]] = "closed"]
    BY <1>15 DEF AddToPool, CloseConnection
  <2>3. UNCHANGED <<m_fd, m_rcv_buf, m_rcv_buf_len, call_back, batch, recvVars, workerVars,
                    eof, sent>>
    BY <1>15 DEF AddToPool
  <2>4. pc' \in MainPCs
    BY <1>15 DEF AddToPool, Done, MainPCs
  <2> QED
    BY <2>1, <2>2, <2>3, <2>4 DEF TypeOK
<1>16. ASSUME NEW w \in Workers, StartTask(w) PROVE TypeOK'
  <2>1. /\ running' = [running EXCEPT ![w] = Head(pending)] /\ Head(pending) \in Slots
        /\ pending' \in Seq(Slots) /\ Len(pending') <= QueueSize
    <3>1. pending # <<>> /\ pending \in Seq(Slots) /\ Len(pending) \in Nat
          /\ Len(pending) <= QueueSize
      BY <1>16, LenProperties DEF TypeOK, StartTask, Pool!Take
    <3>2. pending' = Tail(pending) /\ running' = [running EXCEPT ![w] = Head(pending)]
      BY <1>16 DEF StartTask, Pool!Take
    <3>3. Head(pending) \in Slots /\ Tail(pending) \in Seq(Slots)
          /\ Len(Tail(pending)) = Len(pending) - 1
      BY <3>1, HeadTailProperties
    <3> QED
      BY <3>1, <3>2, <3>3
  <2> QED
    BY <1>16, <2>1 DEF TypeOK, StartTask, Goto
<1>17. ASSUME NEW w \in Workers, SendArguments(w) PROVE TypeOK'
  <2>1. running[w] \in Slots
    BY <1>17 DEF LengthsFit, SendArguments
  <2>2. m_fd[running[w]] \in Fds \cup {Stdin, ListenFd} /\ ReplyLength(running[w]) \in Nat
    <3>1. m_fd[running[w]] \in Fds \cup {Stdin, ListenFd}
      BY <2>1 DEF TypeOK
    <3>2. m_rcv_buf_len[running[w]] \in 0..BufSize
      BY <2>1 DEF TypeOK
    <3> QED
      BY <3>1, <3>2 DEF ReplyLength
  <2>3. /\ wargs' \in [Workers -> (Fds \cup {Stdin, ListenFd}) \X Nat]
        /\ wpc' \in [Workers -> {"idle", "args", "send", "reset", "clear"}]
    BY <1>17, <2>2 DEF TypeOK, SendArguments, Goto
  <2>4. UNCHANGED <<slotVars, kernelVars, pc, batch, recvVars, poolVars, clientVars>>
    BY <1>17 DEF SendArguments
  <2> QED
    BY <2>3, <2>4 DEF TypeOK
<1>18. ASSUME NEW w \in Workers, SendReply(w) PROVE TypeOK'
  <2>1. wpc' \in [Workers -> {"idle", "args", "send", "reset", "clear"}]
    BY <1>18 DEF SendReply, TypeOK, Goto
  <2>2. UNCHANGED <<slotVars, kernelVars, pc, batch, recvVars, poolVars, wargs, conn, eof, sent>>
    BY <1>18 DEF SendReply
  <2> QED
    BY <2>1, <2>2 DEF TypeOK
<1>19. ASSUME NEW w \in Workers, ResetLength(w) PROVE TypeOK'
  <2>1. m_rcv_buf_len' \in [Slots -> 0..BufSize] /\ wpc' = [wpc EXCEPT ![w] = "clear"]
    <3>1. /\ m_rcv_buf_len' = [m_rcv_buf_len EXCEPT ![running[w]] = 0]
          /\ wpc' = [wpc EXCEPT ![w] = "clear"]
      BY <1>19 DEF ResetLength, Goto, LengthAfter
    <3>2. m_rcv_buf_len \in [Slots -> 0..BufSize] /\ 0 \in 0..BufSize
      BY DEF TypeOK
    <3> QED
      BY <3>1, <3>2
  <2>2. UNCHANGED <<m_fd, m_status, m_rcv_buf, call_back, kernelVars, pc, batch, recvVars,
                    poolVars, wargs, clientVars>>
    BY <1>19 DEF ResetLength
  <2> QED
    BY <2>1, <2>2 DEF TypeOK
<1>20. ASSUME NEW w \in Workers, ClearHeader(w) PROVE TypeOK'
  <2>1. running[w] \in Slots
    BY <1>20 DEF LengthsFit, ClearHeader
  <2>2. m_rcv_buf' \in [Slots -> [0..(BufSize - 1) -> Bytes]]
    <3>1. m_rcv_buf' = [m_rcv_buf EXCEPT ![running[w]] = [@ EXCEPT ![0] = 0]]
      BY <1>20 DEF ClearHeader
    <3>2. m_rcv_buf \in [Slots -> [0..(BufSize - 1) -> Bytes]]
      BY DEF TypeOK
    <3>3. 0 \in Bytes
      BY DEF Bytes
    <3> HIDE <1>a
    <3> QED
      BY <3>1, <3>2, <3>3, ByteStored, Zenon
  <2>3. /\ running' = [running EXCEPT ![w] = None] /\ wpc' = [wpc EXCEPT ![w] = "idle"]
        /\ UNCHANGED <<m_fd, m_status, m_rcv_buf_len, call_back, kernelVars, pc, batch,
                       recvVars, wargs, pending, clientVars>>
    BY <1>20 DEF ClearHeader, Goto, Pool!Finish
  <2> QED
    BY <2>2, <2>3 DEF TypeOK
<1>21. ASSUME NEW c \in Clients, Connect(c) PROVE TypeOK'
  BY <1>21 DEF Connect, TypeOK, MainPCs
<1>22. ASSUME NEW c \in Clients, SendPacket(c) PROVE TypeOK'
  <2>1. sent' = [sent EXCEPT ![c] = @ + 1]
    BY <1>22 DEF SendPacket
  <2>2. sent' \in [Clients -> Nat]
    BY <2>1 DEF TypeOK
  <2>3. UNCHANGED <<slotVars, kernelVars, pc, batch, recvVars, poolVars, workerVars, conn, eof>>
    BY <1>22 DEF SendPacket
  <2> QED
    BY <2>2, <2>3 DEF TypeOK
<1>23. ASSUME NEW c \in Clients, CloseClient(c) PROVE TypeOK'
  BY <1>23 DEF CloseClient, TypeOK, MainPCs
<1>24. ASSUME UNCHANGED vars PROVE TypeOK'
  BY <1>24 DEF vars, TypeOK
<1> QED
  BY <1>1, <1>2, <1>3, <1>4, <1>5, <1>6, <1>7, <1>8, <1>9, <1>10, <1>11,
     <1>12, <1>13, <1>14, <1>15, <1>16, <1>17, <1>18, <1>19, <1>20, <1>21,
     <1>22, <1>23, <1>24, <1>25, <1>26
  DEF Next, Main, MyTask, Client

-----------------------------------------------------------------------------
(* The theorems *)

LEMMA LoopInvInit == Init => LoopInv
<1> SUFFICES ASSUME Init PROVE LoopInv
  OBVIOUS
<1> USE LoopSizes
<1>1. TypeOK
  BY DEF Init, Pool!Init, TypeOK, MainPCs, Bytes
<1>2. OpenFds = {} /\ Accepted = {} /\ Active = {Listener}
  BY DEF Init, OpenFds, Accepted, Active
<1>3. ListenerKept
  BY DEF Init, ListenerKept
<1>4. SlotsOwnFds
  BY <1>2 DEF Init, SlotsOwnFds
<1>5. CurrentSlot /\ ClientsOnce /\ NoOrphans
  BY <1>2 DEF Init, CurrentSlot, ClientsOnce, NoOrphans, InRecv
<1>6. LengthsFit
  BY DEF Init, LengthsFit, InArguments
<1> QED
  BY <1>1, <1>3, <1>4, <1>5, <1>6 DEF LoopInv

(* LoopInv is inductive: whatever the interleaving of the main thread, the  *)
(* workers and the clients, and whatever call fails, the listening socket   *)
(* keeps its slot, the slots in use own the descriptors on the tree, and    *)
(* bytes leave m_rcv_buf only when the length is reset between the two      *)
(* reads of it in the arguments of recv.                                    *)
THEOREM LoopInvariant == Spec => []LoopInv
<1>1. LoopInv /\ [Next]_vars => LoopInv'
  BY TypeOKNext, ListenerKeptNext, SlotsOwnFdsNext, CurrentSlotNext, ClientsOnceNext,
     NoOrphansNext, LengthsFitNext DEF LoopInv
<1> QED
  BY <1>1, LoopInvInit, PTL DEF Spec

(* The fields of a slot keep their types until bytes leave m_rcv_buf, if    *)
(* they ever do: before that m_rcv_buf_len, which main adds to in two steps *)
(* while workers reset it, is a length of m_rcv_buf.                        *)
THEOREM LoopTypes == Spec => []TypeOK
<1>1. LoopInv => TypeOK
  BY DEF LoopInv
<1> QED
  BY <1>1, LoopInvariant, PTL

(* Between two events the interest list of epoll is exactly the slots that  *)
(* have m_status 1 (netepoll.h), each under its own descriptor.             *)
THEOREM TreeMatches == Spec => []StatusMatchesTree
<1>1. LoopInv => StatusMatchesTree
  BY FreeAndActive DEF LoopInv, StatusMatchesTree, SlotsOwnFds, BetweenEvents
<1> QED
  BY <1>1, LoopInvariant, PTL

(* Without failures of epoll_ctl every open connection is watched through   *)
(* exactly one slot: no descriptor leaks when slots are reused.             *)
THEOREM OneSlot == Spec => []OneSlotPerConnection
<1>1. LoopInv => OneSlotPerConnection
  <2> SUFFICES ASSUME LoopInv, BetweenEvents, "epoll_ctl" \notin Faults, NEW fd \in OpenFds
               PROVE  Cardinality({s \in Slots \ FreeSlots : m_fd[s] = fd}) = 1
    BY DEF OneSlotPerConnection
  <2>1. PICK t \in Active : m_fd[t] = fd
    BY DEF LoopInv, NoOrphans, BetweenEvents
  <2>2. {s \in Slots \ FreeSlots : m_fd[s] = fd} = {t}
    BY <2>1, FreeAndActive DEF LoopInv, SlotsOwnFds
  <2> QED
    BY <2>2, FS_Singleton
<1> QED
  BY <1>1, LoopInvariant, PTL

-----------------------------------------------------------------------------
(* What a patient client gets back.  EchoInv follows the bytes of the      *)
(* packet in flight: they are in the slot of the connection or still to be *)
(* received, and the slot is in the hand of main or of one task, never     *)
(* both.                                                                   *)

(* Every header byte of the script is one that char holds as it is. *)
PlainScript ==
  \A c \in Clients : \A k \in DOMAIN Script[c] :
    Script[c][k][1] < 128 /\ Script[c][k][2] < 128

Serving    == Active \ {Listener}
Owner(s)   == file[m_fd[s]]
Current(c) == Script[c][sent[c]]
Idle(c)    == got[c] = SentBytes(c, sent[c])
InFlight(c) == sent[c] # 0 /\ got[c] = SentBytes(c, sent[c] - 1)
InHand(s)  == InRecv /\ cur = s
Queued(s)  == \E k \in DOMAIN pending : pending[k] = s
HasTask(s) == Queued(s) \/ \E w \in Workers : running[w] = s

(* A client has got all its packets back, or all but the last. *)
ClientsInv ==
  /\ got \in [Clients -> Seq(Bytes)]
  /\ \A c \in Clients :
       /\ sent[c] <= Len(Script[c])
       /\ Idle(c) \/ InFlight(c)
       /\ InFlight(c) => ~eof[c]
       /\ conn[c] = "none" => sent[c] = 0 /\ ~eof[c]

(* No slot has two tasks. *)
TasksOnce ==
  /\ \A j, k \in DOMAIN pending : pending[j] = pending[k] => j = k
  /\ \A k \in DOMAIN pending, w \in Workers : running[w] # pending[k]
  /\ \A v, w \in Workers : running[v] = running[w] /\ running[v] # None => v = w
  /\ \A w \in Workers : wpc[w] = "idle" <=> running[w] = None

(* main leaves a slot that has a task alone. *)
TasksApart ==
  pc # "exited" => \A s \in Slots : HasTask(s) =>
    s \in Serving /\ s \notin batch /\ ~InHand(s)

(* The pool is shut down before the process ends. *)
PoolClosed ==
  /\ pc \in {"ended", "exited"} => phase = "immediate"
  /\ pc = "exited" => \A w \in Workers : running[w] = None

(* A slot that is about to be used is empty, and the second byte of a slot *)
(* is always one that was the second of a packet.                          *)
SlotsClean ==
  /\ pc = "register" => m_rcv_buf_len[cur] = 0
  /\ \A s \in Slots : m_rcv_buf[s][1] < 128

(* What a client without a slot has sent is what it has no answer to. *)
Present(c) ==
  conn[c] = "none" \/ c \in Accepted \/ \E k \in DOMAIN backlog : backlog[k] = c

Unserved(c) == Present(c) /\ \A s \in Serving : Owner(s) # c

UnservedData ==
  pc # "exited" => \A c \in Clients :
    Unserved(c) => rx[c] = IF Idle(c) THEN <<>> ELSE Current(c)

(* The first n bytes of the packet in flight are in the slot, the others   *)
(* are still to be received.                                               *)
Partial(s, n) ==
  LET packet == Current(Owner(s))
  IN  /\ InFlight(Owner(s))
      /\ n <= Len(packet)
      /\ rx[Owner(s)] = SubSeq(packet, n + 1, Len(packet))
      /\ \A k \in 0..(n - 1) : m_rcv_buf[s][k] = packet[k + 1]

Whole(s) == Partial(s, m_rcv_buf_len[s]) /\ m_rcv_buf_len[s] = Len(Current(Owner(s)))

RestData(s) ==
  \/ m_rcv_buf_len[s] = 0 /\ rx[Owner(s)] = <<>>
  \/ Partial(s, m_rcv_buf_len[s]) /\ m_rcv_buf_len[s] < Len(Current(Owner(s)))

(* Between the two reads of the length the slot is as it was before them; *)
(* after recv the bytes it brought count too.                              *)
PartData(s) ==
  LET n == m_rcv_buf_len[s] + (IF pc \in {"load", "store"} THEN chunk ELSE 0)
  IN  /\ Partial(s, n) /\ n > 0
      /\ pc = "store" => loaded = m_rcv_buf_len[s]
      /\ pc \in {"complete", "overlong"} => header = <<m_rcv_buf[s][0], m_rcv_buf[s][1]>>
      /\ pc = "overlong" => n < Len(Current(Owner(s)))
      /\ pc = "add" => n = Len(Current(Owner(s)))

HandData(s) ==
  /\ InArguments => RestData(s) /\ loaded = m_rcv_buf_len[s]
  /\ ~InArguments => PartData(s)

TaskData(s, w) ==
  /\ wpc[w] \in {"args", "send"} => Whole(s)
  /\ wpc[w] = "send" => wargs[w] = <<m_fd[s], m_rcv_buf_len[s]>>
  /\ wpc[w] \in {"reset", "clear"} => rx[Owner(s)] = <<>> /\ ~eof[Owner(s)]
  /\ wpc[w] = "clear" => m_rcv_buf_len[s] = 0

OneSlotData(s) ==
  /\ ~HasTask(s) /\ ~InHand(s) => RestData(s)
  /\ InHand(s) => HandData(s)
  /\ Queued(s) => Whole(s)
  /\ \A w \in Workers : running[w] = s => TaskData(s, w)

SlotData == pc # "exited" => \A s \in Serving : OneSlotData(s)

EchoInv ==
  /\ Defined
  /\ ClientsInv
  /\ TasksOnce
  /\ TasksApart
  /\ PoolClosed
  /\ SlotsClean
  /\ UnservedData
  /\ SlotData

-----------------------------------------------------------------------------
(* What clients send *)

LEMMA ScriptTypes ==
  ASSUME NEW c \in Clients
  PROVE  /\ Script[c] \in Seq(Seq(Bytes)) /\ Len(Script[c]) \in Nat
         /\ \A k \in 1..Len(Script[c]) :
              /\ Script[c][k] \in Seq(Bytes) /\ Len(Script[c][k]) \in Nat
              /\ Len(Script[c][k]) >= 2
              /\ Script[c][k][1] \in Bytes /\ Script[c][k][2] \in Bytes
              /\ Script[c][k][1] * 256 + Script[c][k][2] = Len(Script[c][k]) - 2
<1>1. Script[c] \in Seq(Seq(Bytes)) /\ Len(Script[c]) \in Nat
      /\ DOMAIN Script[c] = 1..Len(Script[c])
  BY EventLoopAssumption, LenProperties
<1>2. ASSUME NEW k \in 1..Len(Script[c])
      PROVE  /\ Script[c][k] \in Seq(Bytes) /\ Len(Script[c][k]) \in Nat
             /\ Len(Script[c][k]) >= 2
             /\ Script[c][k][1] \in Bytes /\ Script[c][k][2] \in Bytes
             /\ Script[c][k][1] * 256 + Script[c][k][2] = Len(Script[c][k]) - 2
  <2>1. WellFormed(Script[c][k])
    BY <1>1, EventLoopAssumption
  <2>2. /\ Script[c][k] \in Seq(Bytes) /\ Len(Script[c][k]) >= 2
        /\ Script[c][k][1] * 256 + Script[c][k][2] = Len(Script[c][k]) - 2
    BY <2>1 DEF WellFormed, HEADER_LEN
  <2>3. Len(Script[c][k]) \in Nat
    BY <2>2, LenProperties
  <2>4. 1 \in 1..Len(Script[c][k]) /\ 2 \in 1..Len(Script[c][k])
    BY <2>2, <2>3
  <2> QED
    BY <2>2, <2>3, <2>4, ElementOfSeq
<1> QED
  BY <1>1, <1>2

(* What a client has sent grows by one packet at a time. *)
LEMMA SentGrows ==
  ASSUME NEW c \in Clients, NEW n \in 0..Len(Script[c])
  PROVE  /\ SentBytes(c, 0) = <<>>
         /\ SentBytes(c, n) \in Seq(Bytes)
         /\ n < Len(Script[c]) =>
              SentBytes(c, n + 1) = SentBytes(c, n) \o Script[c][n + 1]
<1> DEFINE s == Script[c]
<1>1. s \in Seq(Seq(Bytes)) /\ Len(s) \in Nat /\ \A k \in 1..Len(s) : s[k] \in Seq(Bytes)
      /\ n \in Nat
  BY ScriptTypes
<1> HIDE DEF s
<1>2. SentBytes(c, 0) = <<>>
  <2>1. SubSeq(Script[c], 1, 0) = <<>>
    BY SubSeqEmpty
  <2> QED
    BY <2>1 DEF SentBytes, FlattenSeq
<1>3. ASSUME NEW m \in Nat, m < Len(s)
      PROVE  /\ m = 0 => SentBytes(c, m + 1) = s[1]
             /\ m # 0 => SentBytes(c, m + 1) = SentBytes(c, m) \o s[m + 1]
  BY <1>1, <1>3, FlattenGrows DEF SentBytes, s
<1> DEFINE Bad == {m \in Nat : m <= Len(s) /\ SentBytes(c, m) \notin Seq(Bytes)}
<1>4. Bad = {}
  <2> SUFFICES ASSUME Bad # {} PROVE FALSE
    OBVIOUS
  <2>1. PICK m \in Bad : \A k \in Bad : m <= k
    BY MinIsLeast
  <2>2. m # 0
    BY <1>2, <2>1, EmptySeq
  <2>3. /\ m \in Nat /\ m - 1 \in Nat /\ m - 1 < Len(s) /\ m - 1 \notin Bad
        /\ m - 1 + 1 = m /\ m \in 1..Len(s)
    BY <1>1, <2>1, <2>2
  <2>4. SentBytes(c, m - 1) \in Seq(Bytes) /\ s[m] \in Seq(Bytes)
    BY <1>1, <2>3
  <2>5. /\ m - 1 = 0 => SentBytes(c, m) = s[1]
        /\ m - 1 # 0 => SentBytes(c, m) = SentBytes(c, m - 1) \o s[m]
    BY <1>3, <2>3
  <2> HIDE DEF Bad
  <2>6. SentBytes(c, m) \in Seq(Bytes)
    <3>1. CASE m = 1
      BY <2>4, <2>5, <3>1
    <3>2. CASE m # 1
      <4>1. SentBytes(c, m) = SentBytes(c, m - 1) \o s[m]
        <5>1. m - 1 # 0
          BY <2>3, <3>2
        <5> QED
          BY <2>5, <5>1, Zenon
      <4> QED
        BY <4>1, <2>4, ConcatProperties
    <3> QED
      BY <3>1, <3>2
  <2> QED
    BY <2>1, <2>6 DEF Bad
<1>5. \A m \in 0..Len(s) : SentBytes(c, m) \in Seq(Bytes)
  BY <1>1, <1>4
<1>6. ASSUME n < Len(s) PROVE SentBytes(c, n + 1) = SentBytes(c, n) \o s[n + 1]
  <2>1. CASE n = 0
    <3>1. s[1] \in Seq(Bytes)
      BY <1>1, <1>6, <2>1
    <3>2. <<>> \o s[1] = s[1]
      BY <3>1, ConcatEmptySeq
    <3> QED
      BY <1>1, <1>2, <1>3, <1>6, <2>1, <3>2
  <2>2. CASE n # 0
    BY <1>1, <1>3, <1>6, <2>2
  <2> QED
    BY <2>1, <2>2
<1> QED
  BY <1>1, <1>2, <1>5, <1>6 DEF s

(* The packet in flight, and a client that has all its packets back. *)
LEMMA CurrentPacket ==
  ASSUME TypeOK, ClientsInv, NEW c \in Clients
  PROVE  /\ sent[c] \in 0..Len(Script[c]) /\ Len(Script[c]) \in Nat
         /\ got[c] \in Seq(Bytes)
         /\ sent[c] # 0 =>
              /\ Current(c) \in Seq(Bytes) /\ Len(Current(c)) \in Nat /\ Len(Current(c)) >= 2
              /\ Current(c)[1] \in Bytes /\ Current(c)[2] \in Bytes
              /\ Current(c)[1] * 256 + Current(c)[2] = Len(Current(c)) - 2
              /\ SentBytes(c, sent[c] - 1) \in Seq(Bytes)
              /\ SentBytes(c, sent[c]) = SentBytes(c, sent[c] - 1) \o Current(c)
              /\ Len(SentBytes(c, sent[c])) = Len(SentBytes(c, sent[c] - 1)) + Len(Current(c))
         /\ Idle(c) => ~InFlight(c)
         /\ Answered(c) => Idle(c)
<1>1. /\ sent[c] \in Nat /\ sent[c] <= Len(Script[c]) /\ Len(Script[c]) \in Nat
      /\ Idle(c) \/ InFlight(c)
  BY ScriptTypes DEF TypeOK, ClientsInv
<1>2. sent[c] \in 0..Len(Script[c])
  BY <1>1
<1>3. ASSUME sent[c] # 0
      PROVE  /\ Current(c) \in Seq(Bytes) /\ Len(Current(c)) \in Nat /\ Len(Current(c)) >= 2
             /\ Current(c)[1] \in Bytes /\ Current(c)[2] \in Bytes
             /\ Current(c)[1] * 256 + Current(c)[2] = Len(Current(c)) - 2
             /\ SentBytes(c, sent[c] - 1) \in Seq(Bytes)
             /\ SentBytes(c, sent[c]) = SentBytes(c, sent[c] - 1) \o Current(c)
             /\ Len(SentBytes(c, sent[c])) = Len(SentBytes(c, sent[c] - 1)) + Len(Current(c))
  <2>1. sent[c] \in 1..Len(Script[c])
    BY <1>1, <1>3
  <2>2. /\ Current(c) \in Seq(Bytes) /\ Len(Current(c)) \in Nat /\ Len(Current(c)) >= 2
        /\ Current(c)[1] \in Bytes /\ Current(c)[2] \in Bytes
        /\ Current(c)[1] * 256 + Current(c)[2] = Len(Current(c)) - 2
    BY <2>1, ScriptTypes DEF Current
  <2>3. sent[c] - 1 \in 0..Len(Script[c]) /\ sent[c] - 1 < Len(Script[c])
        /\ sent[c] - 1 + 1 = sent[c]
    BY <1>1, <2>1
  <2>4. /\ SentBytes(c, sent[c] - 1) \in Seq(Bytes)
        /\ SentBytes(c, sent[c]) = SentBytes(c, sent[c] - 1) \o Current(c)
    BY <2>3, SentGrows DEF Current
  <2>5. Len(SentBytes(c, sent[c])) = Len(SentBytes(c, sent[c] - 1)) + Len(Current(c))
    BY <2>2, <2>4, ConcatProperties
  <2> QED
    BY <2>2, <2>4, <2>5
<1>4. got[c] \in Seq(Bytes)
  BY <1>1, <1>2, <1>3, SentGrows DEF Idle, InFlight
<1>5. InFlight(c) => Len(got[c]) < Len(SentBytes(c, sent[c]))
  <2> SUFFICES ASSUME InFlight(c) PROVE Len(got[c]) < Len(SentBytes(c, sent[c]))
    OBVIOUS
  <2>1. sent[c] # 0 /\ got[c] = SentBytes(c, sent[c] - 1)
    BY DEF InFlight
  <2>2. Len(SentBytes(c, sent[c] - 1)) \in Nat
    BY <1>3, <2>1, LenProperties
  <2> QED
    BY <1>3, <2>1, <2>2
<1>6. SentBytes(c, sent[c]) \in Seq(Bytes) /\ Len(SentBytes(c, sent[c])) \in Nat
      /\ Len(got[c]) \in Nat
  BY <1>2, <1>4, SentGrows, LenProperties
<1>7. Idle(c) => ~InFlight(c)
  BY <1>5, <1>6 DEF Idle
<1>8. Answered(c) => Idle(c)
  BY <1>1, <1>5, <1>6 DEF Answered
<1> QED
  BY <1>1, <1>2, <1>3, <1>4, <1>7, <1>8

-----------------------------------------------------------------------------
(* Slots, their clients and their tasks *)

LEMMA ServingSlot ==
  ASSUME LoopInv, pc # "exited", NEW s \in Serving
  PROVE  /\ s \in Slots /\ s \in Active /\ s # Listener
         /\ m_fd[s] \in OpenFds /\ m_fd[s] \in Fds /\ m_fd[s] # Stdin
         /\ Owner(s) \in Clients /\ Owner(s) \in Accepted
         /\ \A t \in Serving : t # s => m_fd[t] # m_fd[s] /\ Owner(t) # Owner(s)
<1>1. TypeOK /\ SlotsOwnFds /\ ClientsOnce
  BY DEF LoopInv
<1>2. \A t \in Serving : t \in Slots /\ t \in Active /\ t # Listener /\ m_fd[t] \in OpenFds
  BY <1>1 DEF SlotsOwnFds, Serving, Active
<1>3. \A t \in Serving : t # s => m_fd[t] # m_fd[s] /\ Owner(t) # Owner(s)
  BY <1>1, <1>2 DEF SlotsOwnFds, ClientsOnce, Owner
<1> QED
  BY <1>1, <1>2, <1>3, AcceptedType, LoopSizes DEF Owner, OpenFds, Accepted

LEMMA RunningSlot ==
  ASSUME LoopInv, EchoInv, NEW w \in Workers, wpc[w] # "idle"
  PROVE  /\ running[w] \in Serving /\ running[w] \in Slots /\ running[w] # None
         /\ pc # "exited" /\ HasTask(running[w]) /\ ~InHand(running[w])
         /\ running[w] \notin batch
         /\ TaskData(running[w], w)
<1>1. running[w] \in Slots /\ running[w] # None
  BY LoopSizes DEF LoopInv, LengthsFit
<1>2. pc # "exited" /\ HasTask(running[w])
  BY <1>1 DEF EchoInv, PoolClosed, HasTask
<1>3. running[w] \in Serving /\ running[w] \notin batch /\ ~InHand(running[w])
  BY <1>1, <1>2 DEF EchoInv, TasksApart
<1>4. TaskData(running[w], w)
  BY <1>2, <1>3 DEF EchoInv, SlotData, OneSlotData
<1> QED
  BY <1>1, <1>2, <1>3, <1>4

(* A settled client has no task. *)
LEMMA SettledSlot ==
  ASSUME LoopInv, pc # "exited", NEW s \in Serving, Settled(Owner(s))
  PROVE  ~HasTask(s)
BY ServingSlot DEF Settled, Owner, HasTask, Queued

LEMMA PatientActs ==
  ASSUME LoopInv, EchoInv, Habit = "patient", NEW c \in Clients, MayAct(c)
  PROVE  Idle(c) /\ ~InFlight(c) /\ Settled(c)
<1>1. Answered(c) /\ Settled(c)
  BY DEF MayAct
<1> QED
  BY <1>1, CurrentPacket DEF EchoInv, LoopInv

(* What send copies is the packet in flight. *)
LEMMA ReplyIsPacket ==
  ASSUME LoopInv, EchoInv, NEW w \in Workers, wpc[w] = "send"
  PROVE  /\ wargs[w][1] = m_fd[running[w]]
         /\ InFlight(Owner(running[w]))
         /\ rx[Owner(running[w])] = <<>>
         /\ [k \in 1..wargs[w][2] |-> m_rcv_buf[running[w]][k - 1]] = Current(Owner(running[w]))
<1> DEFINE s == running[w]
           packet == Current(Owner(s))
<1>1. /\ s \in Serving /\ pc # "exited" /\ Whole(s)
      /\ wargs[w] = <<m_fd[s], m_rcv_buf_len[s]>>
  BY RunningSlot DEF TaskData
<1>2. Owner(s) \in Clients
  BY <1>1, ServingSlot
<1>3. /\ InFlight(Owner(s)) /\ m_rcv_buf_len[s] = Len(packet)
      /\ rx[Owner(s)] = SubSeq(packet, m_rcv_buf_len[s] + 1, Len(packet))
      /\ \A k \in 0..(m_rcv_buf_len[s] - 1) : m_rcv_buf[s][k] = packet[k + 1]
  BY <1>1 DEF Whole, Partial
<1>4. packet \in Seq(Bytes) /\ Len(packet) \in Nat
  BY <1>2, <1>3, CurrentPacket DEF EchoInv, LoopInv, InFlight
<1> HIDE DEF s, packet
<1>5. rx[Owner(s)] = <<>>
  BY <1>3, <1>4, SubSeqEmpty
<1>6. packet = [k \in 1..Len(packet) |-> packet[k]]
  BY <1>4
<1>7. \A k \in 1..Len(packet) : m_rcv_buf[s][k - 1] = packet[k]
  <2>1. ASSUME NEW k \in 1..Len(packet) PROVE m_rcv_buf[s][k - 1] = packet[k]
    <3>1. k - 1 \in 0..(m_rcv_buf_len[s] - 1) /\ k - 1 + 1 = k
      BY <1>3, <1>4
    <3> QED
      BY <1>3, <3>1
  <2> QED
    BY <2>1
<1>8. [k \in 1..Len(packet) |-> m_rcv_buf[s][k - 1]] = packet
  BY <1>6, <1>7
<1>9. wargs[w][2] = Len(packet) /\ wargs[w][1] = m_fd[s]
  BY <1>1, <1>3 DEF s
<1> QED
  BY <1>3, <1>5, <1>8, <1>9 DEF s, packet

-----------------------------------------------------------------------------
(* The clients *)

LEMMA MainClients ==
  ASSUME LoopInv, Main
  PROVE  /\ UNCHANGED <<eof, sent, got>>
         /\ \A c \in Clients : conn'[c] = "none" => conn[c] = "none"
<1>1. UNCHANGED <<eof, sent, got>>
  BY DEF Main, Wait, WaitFails, Exit, AcceptFails, AcceptDropped, AcceptConnect, ReadLength, Recv,
     Overrun, RecvEnds, Register, LoadLength, StoreLength, ReadHeader, TestComplete,
     TestOverlong, AddToPool, clientVars
<1>2. conn \in [Clients -> {"none", "open", "closed"}]
  BY DEF LoopInv, TypeOK
<1>3. CASE conn' = conn
  BY <1>1, <1>3
<1>4. CASE Exit
  BY <1>1, <1>2, <1>4 DEF Exit
<1>5. CASE \E d : conn' = [conn EXCEPT ![d] = "closed"]
  BY <1>1, <1>2, <1>5
<1>6. \/ conn' = conn \/ Exit \/ \E d : conn' = [conn EXCEPT ![d] = "closed"]
  BY DEF Main, Wait, WaitFails, AcceptFails, AcceptDropped, AcceptConnect, ReadLength, Recv, Overrun,
     RecvEnds, Register, LoadLength, StoreLength, ReadHeader, TestComplete, TestOverlong,
     AddToPool, CloseConnection, clientVars
<1> QED
  BY <1>3, <1>4, <1>5, <1>6

LEMMA ClientsInvNext ==
  ASSUME LoopInv, EchoInv, Habit = "patient", [Next]_vars
  PROVE  ClientsInv'
<1>a. TypeOK /\ ClientsInv
  BY DEF LoopInv, EchoInv
<1>b. ASSUME UNCHANGED <<eof, sent, got>>,
             \A c \in Clients : conn'[c] = "none" => conn[c] = "none"
      PROVE  ClientsInv'
  BY <1>a, <1>b DEF ClientsInv, Idle, InFlight
<1>1. CASE Main
  BY <1>1, <1>b, MainClients
<1>2. ASSUME NEW w \in Workers, StartTask(w) \/ SendArguments(w) \/ ResetLength(w) \/ ClearHeader(w)
      PROVE  ClientsInv'
  <2>1. UNCHANGED clientVars
    BY <1>2 DEF StartTask, SendArguments, ResetLength, ClearHeader
  <2> QED
    BY <2>1, <1>b DEF clientVars
<1>3. ASSUME NEW w \in Workers, SendReply(w) PROVE ClientsInv'
  <2>0. PICK c \in Clients : c = Owner(running[w])
    BY <1>3, RunningSlot, ServingSlot DEF SendReply
  <2>1. /\ wpc[w] = "send" /\ UNCHANGED <<conn, eof, sent>>
        /\ \/ got' = [got EXCEPT ![file[wargs[w][1]]] =
                        @ \o [k \in 1..wargs[w][2] |-> m_rcv_buf[running[w]][k - 1]]]
           \/ got' = got
    BY <1>3 DEF SendReply
  <2>2. CASE got' = got
    BY <2>1, <2>2, <1>b
  <2>3. CASE got' = [got EXCEPT ![c] = @ \o Current(c)]
    <3>1. InFlight(c)
      BY <2>0, <2>1, ReplyIsPacket
    <3>2. got[c] \o Current(c) = SentBytes(c, sent[c])
      BY <1>a, <3>1, CurrentPacket DEF InFlight
    <3>0. got' \in [Clients -> Seq(Bytes)]
      <4>1. got[c] \o Current(c) \in Seq(Bytes)
        BY <1>a, <3>1, CurrentPacket, ConcatProperties DEF InFlight
      <4> QED
        BY <1>a, <2>3, <4>1 DEF ClientsInv
    <3>3. ASSUME NEW d \in Clients
          PROVE  /\ sent'[d] <= Len(Script[d])
                 /\ Idle(d)' \/ InFlight(d)'
                 /\ InFlight(d)' => ~eof'[d]
                 /\ conn'[d] = "none" => sent'[d] = 0 /\ ~eof'[d]
      <4>1. /\ sent[d] <= Len(Script[d]) /\ (Idle(d) \/ InFlight(d)) /\ (InFlight(d) => ~eof[d])
            /\ conn[d] = "none" => sent[d] = 0 /\ ~eof[d]
        BY <1>a DEF ClientsInv
      <4>2. CASE d # c
        <5>1. got'[d] = got[d]
          BY <1>a, <2>3, <4>2 DEF ClientsInv
        <5> QED
          BY <2>1, <4>1, <5>1 DEF Idle, InFlight
      <4>3. CASE d = c
        <5>1. got'[c] \in {got[c], SentBytes(c, sent[c])}
          BY <1>a, <2>3, <3>1, <3>2 DEF ClientsInv
        <5>2. ~eof[c] /\ (Idle(c)' \/ InFlight(c)')
          BY <2>1, <3>1, <4>1, <4>3, <5>1 DEF Idle, InFlight
        <5> QED
          BY <2>1, <4>1, <4>3, <5>2
      <4> QED
        BY <4>2, <4>3
    <3> QED
      BY <3>0, <3>3 DEF ClientsInv
  <2> QED
    BY <2>0, <2>1, <2>2, <2>3, ReplyIsPacket DEF Owner
<1>4. ASSUME NEW c \in Clients, Connect(c) PROVE ClientsInv'
  <2>1. UNCHANGED <<eof, sent, got>> /\ conn' = [conn EXCEPT ![c] = "open"]
    BY <1>4 DEF Connect
  <2>2. \A d \in Clients : conn'[d] = "none" => conn[d] = "none"
    BY <1>a, <2>1 DEF TypeOK
  <2> QED
    BY <1>b, <2>1, <2>2
<1>5. ASSUME NEW c \in Clients, SendPacket(c) PROVE ClientsInv'
  <2>1. /\ conn[c] = "open" /\ ~eof[c] /\ sent[c] < Len(Script[c]) /\ MayAct(c)
        /\ sent' = [sent EXCEPT ![c] = @ + 1] /\ UNCHANGED <<conn, eof, got>>
    BY <1>5 DEF SendPacket
  <2>2. sent[c] \in Nat /\ Len(Script[c]) \in Nat /\ sent'[c] = sent[c] + 1
    BY <1>a, <2>1, ScriptTypes DEF TypeOK
  <2>3. sent'[c] <= Len(Script[c]) /\ sent'[c] # 0 /\ sent'[c] - 1 = sent[c]
    BY <2>1, <2>2
  <2>4. InFlight(c)'
    <3>1. got[c] = SentBytes(c, sent[c])
      BY <2>1, PatientActs DEF Idle
    <3> QED
      BY <2>1, <2>3, <3>1 DEF InFlight
  <2>5. \A d \in Clients : d # c => sent'[d] = sent[d]
    BY <1>a, <2>1 DEF TypeOK
  <2> QED
    BY <1>a, <2>1, <2>3, <2>4, <2>5 DEF ClientsInv, Idle, InFlight
<1>6. ASSUME NEW c \in Clients, CloseClient(c) PROVE ClientsInv'
  <2>1. /\ conn[c] = "open" /\ ~InFlight(c)
        /\ eof' = [eof EXCEPT ![c] = TRUE] /\ UNCHANGED <<conn, sent, got>>
    BY <1>6, PatientActs DEF CloseClient
  <2>2. \A d \in Clients : d # c => eof'[d] = eof[d]
    BY <1>a, <2>1 DEF TypeOK
  <2> QED
    BY <1>a, <2>1, <2>2 DEF ClientsInv, Idle, InFlight
<1>7. CASE UNCHANGED vars
  BY <1>7, <1>b DEF vars, clientVars
<1> QED
  BY <1>1, <1>2, <1>3, <1>4, <1>5, <1>6, <1>7 DEF Next, MyTask, Client

-----------------------------------------------------------------------------
(* The tasks *)

(* threadpool_add queues the slot of the current callback. *)
LEMMA SubmitShape ==
  ASSUME LoopInv, AddToPool, Pool!Submit(cur)
  PROVE  /\ pc = "add" /\ cur \in Slots /\ UNCHANGED <<running, phase>>
         /\ pending \in Seq(Slots) /\ pending' = Append(pending, cur)
         /\ UNCHANGED <<file, tree, conn, m_status>>
         /\ \A s : Queued(s)' <=> Queued(s) \/ s = cur
<1>1. /\ pc = "add" /\ UNCHANGED <<running, phase>> /\ pending' = Append(pending, cur)
      /\ Len(pending) < QueueSize
  BY DEF AddToPool, Pool!Submit
<1>2. cur \in Slots /\ pending \in Seq(Slots) /\ Len(pending) \in Nat
  BY LenProperties DEF LoopInv, TypeOK
<1>3. UNCHANGED <<file, tree, conn, m_status>>
  BY <1>1, <1>2, LoopSizes DEF AddToPool
<1>4. \A s : Queued(s)' <=> Queued(s) \/ s = cur
  BY <1>1, <1>2, AppendElements DEF Queued
<1> QED
  BY <1>1, <1>2, <1>3, <1>4

(* A worker takes the oldest task. *)
LEMMA StartShape ==
  ASSUME LoopInv, NEW w \in Workers, StartTask(w)
  PROVE  /\ pending \in Seq(Slots) /\ pending # <<>> /\ pending' = Tail(pending)
         /\ Head(pending) \in Slots /\ Queued(Head(pending))
         /\ running[w] = None /\ running' = [running EXCEPT ![w] = Head(pending)]
         /\ wpc' = [wpc EXCEPT ![w] = "args"]
         /\ phase # "immediate"
         /\ UNCHANGED <<slotVars, kernelVars, pc, batch, recvVars, phase, wargs, clientVars>>
         /\ \A s : Queued(s)' => Queued(s)
         /\ \A s : Queued(s) => Queued(s)' \/ s = Head(pending)
<1>1. /\ pending # <<>> /\ pending' = Tail(pending) /\ phase # "immediate"
      /\ running[w] = None /\ running' = [running EXCEPT ![w] = Head(pending)]
      /\ wpc' = [wpc EXCEPT ![w] = "args"]
      /\ UNCHANGED <<slotVars, kernelVars, pc, batch, recvVars, phase, wargs, clientVars>>
  BY DEF StartTask, Pool!Take, Goto
<1>2. pending \in Seq(Slots)
  BY DEF LoopInv, TypeOK
<1>3. Head(pending) \in Slots /\ Head(pending) = pending[1] /\ 1 \in DOMAIN pending
  BY <1>1, <1>2, HeadTailProperties, TailElements
<1>4. \A s : Queued(s)' => Queued(s)
  BY <1>1, <1>2, TailElements DEF Queued
<1>5. ASSUME NEW s, Queued(s) PROVE Queued(s)' \/ s = Head(pending)
  <2>1. PICK k \in DOMAIN pending : pending[k] = s
    BY <1>5 DEF Queued
  <2>2. k # 1 => k - 1 \in DOMAIN Tail(pending) /\ Tail(pending)[k - 1] = s
    BY <1>1, <1>2, <2>1, TailElements
  <2>3. CASE k = 1
    BY <1>3, <2>1, <2>3
  <2>4. CASE k # 1
    BY <1>1, <2>2, <2>4 DEF Queued
  <2> QED
    BY <2>3, <2>4
<1> QED
  BY <1>1, <1>2, <1>3, <1>4, <1>5 DEF Queued

LEMMA TasksOnceNext ==
  ASSUME LoopInv, EchoInv, [Next]_vars
  PROVE  TasksOnce'
<1>a. TypeOK /\ TasksOnce /\ TasksApart
  BY DEF LoopInv, EchoInv
<1>b. ASSUME UNCHANGED <<pending, running, wpc>> PROVE TasksOnce'
  BY <1>a, <1>b DEF TasksOnce
<1>1. ASSUME Main, ~AddToPool PROVE TasksOnce'
  <2>1. UNCHANGED <<pending, running, wpc>>
    BY <1>1 DEF Main, Wait, WaitFails, Exit, AcceptFails, AcceptDropped, AcceptConnect, ReadLength,
       Recv, Overrun, RecvEnds, Register, LoadLength, StoreLength, ReadHeader, TestComplete, TestOverlong,
       Pool!Close, poolVars, workerVars
  <2> QED
    BY <2>1, <1>b
<1>2. CASE AddToPool
  <2>1. wpc' = wpc
    BY <1>2 DEF AddToPool, workerVars
  <2>2. CASE UNCHANGED poolVars
    BY <2>1, <2>2, <1>b DEF poolVars
  <2>3. CASE Pool!Submit(cur)
    <3>1. /\ pc = "add" /\ cur \in Slots /\ running' = running
          /\ pending \in Seq(Slots) /\ pending' = Append(pending, cur)
      BY <1>2, <2>3, SubmitShape
    <3>2. ~HasTask(cur)
      BY <1>a, <3>1 DEF TasksApart, InHand, InRecv
    <3>3. /\ \A k \in DOMAIN pending : pending[k] # cur
          /\ \A w \in Workers : running[w] # cur
      BY <3>2 DEF HasTask, Queued
    <3>4. \A k \in DOMAIN pending' :
            \/ k \in DOMAIN pending /\ pending'[k] = pending[k]
            \/ k = Len(pending) + 1 /\ pending'[k] = cur
      BY <3>1, AppendElements
    <3>5. \A j, k \in DOMAIN pending' : pending'[j] = pending'[k] => j = k
      BY <1>a, <3>3, <3>4 DEF TasksOnce
    <3>6. \A k \in DOMAIN pending', w \in Workers : running[w] # pending'[k]
      BY <1>a, <3>3, <3>4 DEF TasksOnce
    <3> QED
      BY <1>a, <2>1, <3>1, <3>5, <3>6 DEF TasksOnce
  <2> QED
    BY <1>2, <2>2, <2>3 DEF AddToPool
<1>3. ASSUME NEW w \in Workers, StartTask(w) PROVE TasksOnce'
  <2>1. /\ pending \in Seq(Slots) /\ pending # <<>> /\ pending' = Tail(pending)
        /\ Head(pending) \in Slots /\ running[w] = None
        /\ running' = [running EXCEPT ![w] = Head(pending)]
        /\ wpc' = [wpc EXCEPT ![w] = "args"]
    BY <1>3, StartShape
  <2>2. /\ Head(pending) = pending[1] /\ 1 \in DOMAIN pending
        /\ \A k \in DOMAIN pending' :
             k \in Nat /\ k > 0 /\ k + 1 \in DOMAIN pending /\ pending'[k] = pending[k + 1]
    BY <2>1, TailElements
  <2>3. \A j, k \in DOMAIN pending' : pending'[j] = pending'[k] => j = k
    <3> SUFFICES ASSUME NEW j \in DOMAIN pending', NEW k \in DOMAIN pending',
                        pending'[j] = pending'[k]
                 PROVE  j = k
      OBVIOUS
    <3>1. j \in Nat /\ k \in Nat /\ j + 1 = k + 1
      BY <1>a, <2>2 DEF TasksOnce
    <3> QED
      BY <3>1
  <2>4. \A k \in DOMAIN pending' : pending'[k] # Head(pending)
    <3> SUFFICES ASSUME NEW k \in DOMAIN pending', pending'[k] = Head(pending) PROVE FALSE
      OBVIOUS
    <3>1. k \in Nat /\ k > 0 /\ k + 1 = 1
      BY <1>a, <2>2 DEF TasksOnce
    <3> QED
      BY <3>1
  <2>5. \A v \in Workers : running'[v] = IF v = w THEN Head(pending) ELSE running[v]
    BY <1>a, <2>1 DEF TypeOK
  <2>6. \A k \in DOMAIN pending', v \in Workers : running'[v] # pending'[k]
    BY <1>a, <2>2, <2>4, <2>5 DEF TasksOnce
  <2>7. \A u, v \in Workers : running'[u] = running'[v] /\ running'[u] # None => u = v
    BY <1>a, <2>2, <2>5 DEF TasksOnce
  <2>8. \A v \in Workers : wpc'[v] = "idle" <=> running'[v] = None
    BY <1>a, <2>1, <2>5, LoopSizes DEF TasksOnce, TypeOK
  <2> QED
    BY <2>3, <2>6, <2>7, <2>8 DEF TasksOnce
<1>4. ASSUME NEW w \in Workers, SendArguments(w) \/ SendReply(w) \/ ResetLength(w)
      PROVE  TasksOnce'
  <2>1. /\ UNCHANGED <<pending, running>> /\ wpc[w] # "idle"
        /\ \E label \in {"send", "reset", "clear"} : wpc' = [wpc EXCEPT ![w] = label]
    BY <1>4 DEF SendArguments, SendReply, ResetLength, Goto, poolVars
  <2>2. \A v \in Workers : wpc'[v] = "idle" <=> wpc[v] = "idle"
    BY <1>a, <2>1 DEF TypeOK
  <2> QED
    BY <1>a, <2>1, <2>2 DEF TasksOnce
<1>5. ASSUME NEW w \in Workers, ClearHeader(w) PROVE TasksOnce'
  <2>1. /\ pending' = pending /\ running' = [running EXCEPT ![w] = None]
        /\ wpc' = [wpc EXCEPT ![w] = "idle"]
    BY <1>5 DEF ClearHeader, Goto, Pool!Finish
  <2>2. \A v \in Workers : running'[v] = IF v = w THEN None ELSE running[v]
    BY <1>a, <2>1 DEF TypeOK
  <2>3. \A k \in DOMAIN pending : pending[k] \in Slots
    BY <1>a, ElementOfSeq, LenProperties DEF TypeOK
  <2>4. \A k \in DOMAIN pending', v \in Workers : running'[v] # pending'[k]
    BY <1>a, <2>1, <2>2, <2>3, LoopSizes DEF TasksOnce
  <2>5. \A u, v \in Workers : running'[u] = running'[v] /\ running'[u] # None => u = v
    BY <1>a, <2>2 DEF TasksOnce
  <2>6. \A v \in Workers : wpc'[v] = "idle" <=> running'[v] = None
    BY <1>a, <2>1, <2>2 DEF TasksOnce, TypeOK
  <2> QED
    BY <1>a, <2>1, <2>4, <2>5, <2>6 DEF TasksOnce
<1>6. ASSUME NEW c \in Clients, Client(c) PROVE TasksOnce'
  BY <1>6, <1>b DEF Client, Connect, SendPacket, CloseClient, poolVars, workerVars
<1>7. CASE UNCHANGED vars
  BY <1>7, <1>b DEF vars, poolVars, workerVars
<1> QED
  BY <1>1, <1>2, <1>3, <1>4, <1>5, <1>6, <1>7 DEF Next, MyTask

LEMMA PoolClosedNext ==
  ASSUME LoopInv, EchoInv, [Next]_vars
  PROVE  PoolClosed'
<1>a. TypeOK /\ PoolClosed
  BY DEF LoopInv, EchoInv
<1>1. CASE WaitFails
  BY <1>1 DEF WaitFails, Pool!Close, PoolClosed
<1>2. CASE Exit
  BY <1>2, <1>a DEF Exit, PoolClosed, poolVars
<1>3. ASSUME Main, ~WaitFails, ~Exit PROVE PoolClosed'
  <2>1. pc' \notin {"ended", "exited"}
    BY <1>3 DEF Main, Wait, AcceptFails, AcceptDropped, AcceptConnect, ReadLength, Recv,
       Overrun, RecvEnds, Register, LoadLength, StoreLength, ReadHeader, TestComplete,
       TestOverlong, AddToPool, Done
  <2> QED
    BY <2>1 DEF PoolClosed
<1>4. ASSUME NEW w \in Workers, StartTask(w) PROVE PoolClosed'
  <2>1. phase # "immediate" /\ pc' = pc
    BY <1>4, StartShape
  <2> QED
    BY <1>a, <2>1 DEF PoolClosed
<1>5. ASSUME NEW w \in Workers, MyTask(w) PROVE PoolClosed'
  <2>1. UNCHANGED <<pc, phase>> /\ wpc[w] # "idle"
    BY <1>5 DEF MyTask, SendArguments, SendReply, ResetLength, ClearHeader, Pool!Finish, poolVars
  <2>2. pc # "exited"
    BY <2>1, RunningSlot
  <2> QED
    BY <1>a, <2>1, <2>2 DEF PoolClosed
<1>6. ASSUME NEW c \in Clients, Client(c) PROVE PoolClosed'
  BY <1>6, <1>a DEF Client, Connect, SendPacket, CloseClient, poolVars, PoolClosed
<1>7. CASE UNCHANGED vars
  BY <1>7, <1>a DEF vars, poolVars, PoolClosed
<1> QED
  BY <1>1, <1>2, <1>3, <1>4, <1>5, <1>6, <1>7 DEF Next

-----------------------------------------------------------------------------
(* main and the slots with a task *)

(* A client with a task has nothing left to be received. *)
LEMMA TaskQuiet ==
  ASSUME LoopInv, EchoInv, pc # "exited", NEW s \in Slots, HasTask(s)
  PROVE  /\ s \in Serving /\ s \notin batch /\ ~InHand(s)
         /\ rx[Owner(s)] = <<>> /\ ~eof[Owner(s)]
<1>1. s \in Serving /\ s \notin batch /\ ~InHand(s)
  BY DEF EchoInv, TasksApart
<1>2. OneSlotData(s) /\ Owner(s) \in Clients
  BY <1>1, ServingSlot DEF EchoInv, SlotData
<1>3. ASSUME Whole(s) PROVE rx[Owner(s)] = <<>> /\ ~eof[Owner(s)]
  <2>1. /\ InFlight(Owner(s)) /\ m_rcv_buf_len[s] = Len(Current(Owner(s)))
        /\ rx[Owner(s)] = SubSeq(Current(Owner(s)), m_rcv_buf_len[s] + 1, Len(Current(Owner(s))))
    BY <1>3 DEF Whole, Partial
  <2>2. Len(Current(Owner(s))) \in Nat
    BY <1>2, <2>1, CurrentPacket DEF InFlight, LoopInv, EchoInv
  <2>3. rx[Owner(s)] = <<>>
    BY <2>1, <2>2, SubSeqEmpty
  <2> QED
    BY <1>2, <2>1, <2>3 DEF EchoInv, ClientsInv
<1>4. CASE Queued(s)
  BY <1>1, <1>2, <1>3, <1>4 DEF OneSlotData
<1>5. ASSUME NEW w \in Workers, running[w] = s PROVE rx[Owner(s)] = <<>> /\ ~eof[Owner(s)]
  <2>1. wpc[w] \in {"args", "send", "reset", "clear"}
    BY <1>5, LoopSizes DEF EchoInv, TasksOnce, LoopInv, TypeOK
  <2>2. TaskData(s, w)
    BY <1>2, <1>5 DEF OneSlotData
  <2> QED
    BY <1>3, <2>1, <2>2 DEF TaskData
<1> QED
  BY <1>1, <1>4, <1>5 DEF HasTask

LEMMA TaskOrigin ==
  ASSUME LoopInv, [Next]_vars, NEW s \in Slots, HasTask(s)'
  PROVE  HasTask(s) \/ (s = cur /\ AddToPool /\ Pool!Submit(cur))
<1>a. TypeOK
  BY DEF LoopInv
<1>b. ASSUME UNCHANGED <<pending, running>> PROVE HasTask(s)
  BY <1>b DEF HasTask, Queued
<1>1. ASSUME Main, ~AddToPool PROVE HasTask(s)
  <2>1. UNCHANGED <<pending, running>>
    BY <1>1 DEF Main, Wait, WaitFails, Exit, AcceptFails, AcceptDropped, AcceptConnect, ReadLength,
       Recv, Overrun, RecvEnds, Register, LoadLength, StoreLength, ReadHeader, TestComplete, TestOverlong,
       Pool!Close, poolVars
  <2> QED
    BY <2>1, <1>b
<1>2. ASSUME AddToPool PROVE HasTask(s) \/ (s = cur /\ AddToPool /\ Pool!Submit(cur))
  <2>1. CASE UNCHANGED poolVars
    BY <2>1, <1>b DEF poolVars
  <2>2. CASE Pool!Submit(cur)
    <3>1. (Queued(s)' <=> Queued(s) \/ s = cur) /\ running' = running
      BY <1>2, <2>2, SubmitShape
    <3> QED
      BY <1>2, <2>2, <3>1 DEF HasTask
  <2> QED
    BY <1>2, <2>1, <2>2 DEF AddToPool
<1>3. ASSUME NEW w \in Workers, StartTask(w) PROVE HasTask(s)
  <2>1. /\ Queued(s)' => Queued(s)
        /\ Queued(Head(pending)) /\ running' = [running EXCEPT ![w] = Head(pending)]
    BY <1>3, StartShape
  <2> QED
    BY <1>a, <2>1 DEF HasTask, TypeOK
<1>4. ASSUME NEW w \in Workers, SendArguments(w) \/ SendReply(w) \/ ResetLength(w)
      PROVE  HasTask(s)
  BY <1>4, <1>b DEF SendArguments, SendReply, ResetLength, poolVars
<1>5. ASSUME NEW w \in Workers, ClearHeader(w) PROVE HasTask(s)
  <2>1. pending' = pending /\ running' = [running EXCEPT ![w] = None]
    BY <1>5 DEF ClearHeader, Pool!Finish
  <2> QED
    BY <1>a, <2>1, LoopSizes DEF HasTask, Queued, TypeOK
<1>6. ASSUME NEW c \in Clients, Client(c) PROVE HasTask(s)
  BY <1>6, <1>b DEF Client, Connect, SendPacket, CloseClient, poolVars
<1>7. ASSUME UNCHANGED vars PROVE HasTask(s)
  BY <1>7, <1>b DEF vars, poolVars
<1> QED
  BY <1>1, <1>2, <1>3, <1>4, <1>5, <1>6, <1>7 DEF Next, MyTask

LEMMA TasksApartNext ==
  ASSUME LoopInv, EchoInv, [Next]_vars
  PROVE  TasksApart'
<1> SUFFICES ASSUME pc' # "exited", NEW s \in Slots, HasTask(s)'
             PROVE  s \in Serving' /\ s \notin batch' /\ ~InHand(s)'
  BY DEF TasksApart
<1>a. TypeOK /\ CurrentSlot /\ SlotsOwnFds /\ ListenerKept
  BY DEF LoopInv
<1>b. pc # "exited"
  <2>1. ASSUME NEW t \in Slots, AcceptDropped(t) \/ AcceptConnect(t) \/ ReadLength(t)
        PROVE  pc # "exited"
    BY <2>1 DEF AcceptDropped, AcceptConnect, ReadLength, Event
  <2>2. ASSUME NEW t \in Slots, Drops(t) PROVE pc # "exited"
    BY <2>2, DropShape DEF InRecv
  <2>3. CASE Wait \/ Exit \/ Register \/ Quiet \/ \E c \in Clients : Connect(c)
    BY <2>3 DEF Wait, Exit, Register, Quiet, Connect
  <2> QED
    BY <2>1, <2>2, <2>3, StepKinds
<1>1. CASE AddToPool /\ Pool!Submit(cur) /\ s = cur
  <2>1. /\ pc = "add" /\ pc' \in {"wait", "dispatch"}
        /\ UNCHANGED <<m_status, batch, cur>>
    BY <1>1, SubmitShape DEF AddToPool, Done, recvVars
  <2>2. s \in Serving /\ s \notin batch
    BY <1>1, <1>a, <2>1 DEF CurrentSlot, InRecv, Serving
  <2> QED
    BY <2>1, <2>2 DEF Serving, Active, InHand, InRecv
<1>2. ASSUME HasTask(s) PROVE s \in Serving' /\ s \notin batch' /\ ~InHand(s)'
  <2>0. s \in Serving /\ s \notin batch /\ ~InHand(s) /\ rx[Owner(s)] = <<>> /\ ~eof[Owner(s)]
    BY <1>2, <1>b, TaskQuiet
  <2>1. CASE Wait
    <3>1. s \notin Ready
      <4> SUFFICES ASSUME s \in Ready PROVE FALSE
        OBVIOUS
      <4>1. PICK fd \in Fds \cup {ListenFd} : <<fd, s>> \in tree /\ Readable(fd)
        BY DEF Ready
      <4>2. fd = m_fd[s]
        BY <1>a, <1>b, <4>1 DEF SlotsOwnFds
      <4>3. m_fd[s] \in Fds /\ ListenFd \notin Fds
        BY <1>b, <2>0, ServingSlot, LoopSizes
      <4> QED
        BY <2>0, <4>1, <4>2, <4>3 DEF Readable, Owner
    <3> QED
      BY <2>0, <2>1, <3>1 DEF Wait, Serving, Active, InHand, InRecv, slotVars
  <2>2. CASE Exit
    BY <2>2 DEF Exit
  <2>3. CASE Register
    <3>1. /\ pc' \in {"wait", "dispatch"} /\ batch' = batch
          /\ \A t \in Slots : t # cur => m_status'[t] = m_status[t]
      BY <2>3, <1>a DEF Register, Done, TypeOK
    <3>2. s # cur
      BY <2>0, <2>3, <1>a DEF Register, CurrentSlot, Serving
    <3> QED
      BY <2>0, <3>1, <3>2 DEF Serving, Active, InHand, InRecv
  <2>4. ASSUME NEW t \in Slots, AcceptDropped(t) PROVE s \in Serving' /\ s \notin batch' /\ ~InHand(s)'
    BY <2>0, <2>4 DEF AcceptDropped, Done, Serving, Active, InHand, InRecv, slotVars
  <2>5. ASSUME NEW t \in Slots, AcceptConnect(t) PROVE s \in Serving' /\ s \notin batch' /\ ~InHand(s)'
    BY <2>0, <2>5, AcceptShape DEF Serving, Active, InHand, InRecv
  <2>6. ASSUME NEW t \in Slots, ReadLength(t) PROVE s \in Serving' /\ s \notin batch' /\ ~InHand(s)'
    <3>1. t \in batch /\ batch' = batch \ {t} /\ m_status' = m_status /\ cur' = t
      BY <2>6 DEF ReadLength, Event, slotVars
    <3> QED
      BY <2>0, <3>1 DEF Serving, Active, InHand, InRecv
  <2>7. ASSUME NEW t \in Slots, Drops(t) PROVE s \in Serving' /\ s \notin batch' /\ ~InHand(s)'
    <3>1. Active' = Active \ {t} /\ batch' \subseteq batch /\ pc' \in {"wait", "dispatch"}
      BY <2>7, DropShape
    <3>2. InHand(t)
      BY <2>7 DEF Drops, RecvEnds, InArguments, TestOverlong, AddToPool, InHand, InRecv
    <3>3. s # t
      BY <2>0, <3>2
    <3> QED
      BY <2>0, <3>1, <3>3 DEF Serving, InHand, InRecv
  <2>8. ASSUME NEW c \in Clients, Connect(c) PROVE s \in Serving' /\ s \notin batch' /\ ~InHand(s)'
    BY <2>0, <2>8 DEF Connect, Serving, Active, InHand, InRecv, slotVars, recvVars
  <2>9. CASE Quiet
    BY <2>0, <2>9 DEF Quiet, StructVars, Serving, Active, InHand
  <2> QED
    BY <2>1, <2>2, <2>3, <2>4, <2>5, <2>6, <2>7, <2>8, <2>9, StepKinds
<1> QED
  BY <1>1, <1>2, TaskOrigin

-----------------------------------------------------------------------------
(* The bytes in a slot *)

(* A slot that main may receive into holds a part of a packet. *)
LEMMA BatchSlot ==
  ASSUME LoopInv, EchoInv, NEW s \in Slots, Event(s, "recvdata")
  PROVE  s \in Serving /\ ~HasTask(s) /\ ~InHand(s) /\ RestData(s) /\ Owner(s) \in Clients
<1>1. s \in Serving /\ pc # "exited"
  BY DEF LoopInv, Event, CurrentSlot, ListenerKept, Serving, SlotsOwnFds
<1>2. ~HasTask(s) /\ ~InHand(s)
  BY <1>1 DEF EchoInv, TasksApart, Event, InHand, InRecv
<1> QED
  BY <1>1, <1>2, ServingSlot DEF EchoInv, SlotData, OneSlotData

(* Between the two reads nobody else has the slot, and they agree. *)
LEMMA ArgumentSlot ==
  ASSUME LoopInv, EchoInv, InArguments
  PROVE  /\ cur \in Serving /\ cur \in Slots /\ ~HasTask(cur) /\ InHand(cur) /\ RestData(cur)
         /\ Owner(cur) \in Clients
         /\ Offset = m_rcv_buf_len[cur] /\ loaded = m_rcv_buf_len[cur]
         /\ Room = BufSize - m_rcv_buf_len[cur]
<1>1. cur \in Serving /\ pc # "exited" /\ InHand(cur) /\ cur \in Slots
  BY DEF LoopInv, CurrentSlot, InArguments, InRecv, Serving, Active, InHand
<1>2. ~HasTask(cur)
  BY <1>1 DEF EchoInv, TasksApart
<1>3. RestData(cur) /\ loaded = m_rcv_buf_len[cur]
  BY <1>1 DEF EchoInv, SlotData, OneSlotData, HandData
<1>4. Owner(cur) \in Clients
  BY <1>1, ServingSlot
<1> QED
  BY <1>1, <1>2, <1>3, <1>4 DEF Offset, Room, RoomAt

(* So a patient client never makes recv leave the buffer. *)
LEMMA NoOverrun ==
  ASSUME LoopInv, EchoInv, Overrun
  PROVE  FALSE
<1>1. loaded > 0 /\ m_rcv_buf_len[cur] = 0 /\ loaded \in Nat
  BY OverrunShape DEF LoopInv, TypeOK
<1>2. loaded = m_rcv_buf_len[cur]
  BY ArgumentSlot DEF Overrun
<1> QED
  BY <1>1, <1>2

LEMMA DefinedNext ==
  ASSUME LoopInv, EchoInv, [Next]_vars
  PROVE  Defined'
<1>1. Defined
  BY DEF EchoInv
<1>2. CASE Main
  BY <1>2, NoOverrun DEF Main, Wait, WaitFails, Exit, AcceptFails, AcceptDropped, AcceptConnect,
     ReadLength, Recv, RecvEnds, Register, LoadLength, StoreLength, ReadHeader, TestComplete,
     TestOverlong, AddToPool, Done, Defined
<1>3. ASSUME NEW w \in Workers, StartTask(w) \/ MyTask(w) PROVE Defined'
  BY <1>1, <1>3 DEF StartTask, MyTask, SendArguments, SendReply, ResetLength, ClearHeader, Defined
<1>4. ASSUME NEW c \in Clients, Client(c) PROVE Defined'
  BY <1>1, <1>4 DEF Client, Connect, SendPacket, CloseClient, Defined
<1>5. CASE UNCHANGED vars
  BY <1>1, <1>5 DEF vars, Defined
<1> QED
  BY <1>2, <1>3, <1>4, <1>5 DEF Next

(* recv takes the next bytes of the packet in flight. *)
LEMMA RecvData ==
  ASSUME LoopInv, EchoInv, Recv
  PROVE  LET c      == Owner(cur)
             packet == Current(c)
             off    == Offset
         IN  /\ InFlight(c) /\ off = m_rcv_buf_len[cur] /\ off \in Nat /\ chunk' \in Nat /\ chunk' > 0
             /\ off + chunk' <= Len(packet)
             /\ rx' = [rx EXCEPT ![c] = SubSeq(packet, off + chunk' + 1, Len(packet))]
             /\ \A k \in 0..(BufSize - 1) :
                  m_rcv_buf'[cur][k] = IF k \in off..(off + chunk' - 1)
                                     THEN packet[k + 1] ELSE m_rcv_buf[cur][k]
             /\ \A k \in 0..(off + chunk' - 1) : m_rcv_buf'[cur][k] = packet[k + 1]
             /\ \A t \in Slots : t # cur => m_rcv_buf'[t] = m_rcv_buf[t]
<1> DEFINE c      == Owner(cur)
           packet == Current(c)
           off    == Offset
           in     == Input
<1>a. TypeOK /\ LengthsFit
  BY DEF LoopInv
<1>0. InArguments
  BY DEF Recv
<1>1. /\ c \in Clients /\ RestData(cur) /\ cur \in Serving /\ cur \in Slots
      /\ off = m_rcv_buf_len[cur] /\ in = rx[c]
  BY <1>0, ArgumentSlot DEF Input, Owner
<1>2. in \in Seq(Bytes) /\ Len(in) \in Nat /\ off \in 0..BufSize /\ Room \in Nat
  BY <1>0, RecvSlot
<1>3. PICK n \in 1..Min({Len(in), Room}) :
        /\ off + n <= BufSize
        /\ m_rcv_buf' = [m_rcv_buf EXCEPT ![cur] =
             [k \in DOMAIN @ |-> IF k \in off..(off + n - 1) THEN in[k - off + 1] ELSE @[k]]]
        /\ rx' = [rx EXCEPT ![c] = SubSeq(in, n + 1, Len(in))]
        /\ chunk' = n
  BY DEF Recv, Owner
<1>4. Min({Len(in), Room}) \in Nat /\ Min({Len(in), Room}) <= Len(in)
  BY <1>2, MinIsLeast
<1>5. n \in Nat /\ n >= 1 /\ n <= Len(in) /\ off + n <= BufSize /\ BufSize \in Nat
  <2>1. n \in Nat /\ n >= 1 /\ n <= Len(in)
    BY <1>2, <1>3, <1>4
  <2> QED
    BY <1>3, <2>1, LoopSizes
<1>6. in # <<>>
  BY <1>2, <1>5, EmptySeq
<1>7. /\ InFlight(c) /\ off <= Len(packet)
      /\ in = SubSeq(packet, off + 1, Len(packet))
      /\ \A k \in 0..(off - 1) : m_rcv_buf[cur][k] = packet[k + 1]
  BY <1>1, <1>6 DEF RestData, Partial
<1>8. packet \in Seq(Bytes) /\ Len(packet) \in Nat /\ off \in Nat
  BY <1>1, <1>2, <1>7, CurrentPacket DEF InFlight, LoopInv, EchoInv
<1> HIDE DEF c, packet, off, in
<1>9. /\ Len(in) = Len(packet) - off
      /\ \A i \in 1..Len(in) : in[i] = packet[off + i]
  <2>1. \A i \in (off + 1)..Len(packet) : packet[i] \in Bytes
    <3>1. \A i \in (off + 1)..Len(packet) : i \in 1..Len(packet)
      BY <1>8
    <3> QED
      BY <1>8, <3>1, ElementOfSeq
  <2>2. off + 1 \in Int /\ Len(packet) \in Int
    BY <1>8
  <2>3. /\ Len(in) = IF off + 1 <= Len(packet) THEN Len(packet) - (off + 1) + 1 ELSE 0
        /\ \A i \in 1..(Len(packet) - (off + 1) + 1) : in[i] = packet[off + 1 + i - 1]
    BY <1>7, <2>1, <2>2, SubSeqProperties
  <2>4. Len(in) = Len(packet) - off /\ Len(packet) - (off + 1) + 1 = Len(packet) - off
    BY <1>7, <1>8, <2>3
  <2>5. \A i \in 1..Len(in) : off + 1 + i - 1 = off + i
    BY <1>2, <1>8
  <2> QED
    BY <2>3, <2>4, <2>5
<1>10. off + n <= Len(packet)
  BY <1>2, <1>5, <1>8, <1>9
<1>11. rx' = [rx EXCEPT ![c] = SubSeq(packet, off + n + 1, Len(packet))]
  <2>1. SubSeq(in, n + 1, Len(in)) = SubSeq(packet, off + n + 1, Len(packet))
    <3>1. CASE n = Len(in)
      <4>1. n + 1 \in Int /\ Len(in) \in Int /\ Len(in) < n + 1
            /\ off + n + 1 \in Int /\ Len(packet) \in Int /\ Len(packet) < off + n + 1
        BY <1>2, <1>5, <1>8, <1>9, <3>1
      <4>2. SubSeq(in, n + 1, Len(in)) = <<>>
        BY <4>1, SubSeqEmpty
      <4>3. SubSeq(packet, off + n + 1, Len(packet)) = <<>>
        BY <4>1, SubSeqEmpty
      <4> QED
        BY <4>2, <4>3
    <3>2. CASE n # Len(in)
      <4>1. /\ off + 1 \in 1..Len(packet) /\ Len(packet) \in 1..Len(packet)
            /\ n + 1 \in 1..(Len(packet) - (off + 1) + 1)
            /\ Len(in) \in 1..(Len(packet) - (off + 1) + 1)
            /\ off + 1 + (n + 1) - 1 = off + n + 1
            /\ off + 1 + Len(in) - 1 = Len(packet)
        <5>1. Len(in) = Len(packet) - off
          BY <1>9
        <5> QED
          BY <1>2, <1>5, <1>8, <3>2, <5>1
      <4>2. SubSeq(SubSeq(packet, off + 1, Len(packet)), n + 1, Len(in))
              = SubSeq(packet, off + 1 + (n + 1) - 1, off + 1 + Len(in) - 1)
        BY <1>8, <4>1, SubSeqOfSubSeq
      <4> QED
        BY <1>7, <4>1, <4>2
    <3> QED
      BY <3>1, <3>2
  <2> QED
    BY <1>3, <2>1
<1>12. ASSUME NEW k \in 0..(BufSize - 1)
       PROVE  m_rcv_buf'[cur][k] = IF k \in off..(off + n - 1) THEN packet[k + 1] ELSE m_rcv_buf[cur][k]
  <2>1. m_rcv_buf'[cur][k] = IF k \in off..(off + n - 1) THEN in[k - off + 1] ELSE m_rcv_buf[cur][k]
    BY <1>3, <1>a DEF TypeOK
  <2>2. ASSUME k \in off..(off + n - 1) PROVE in[k - off + 1] = packet[k + 1]
    <3>1. k - off + 1 \in 1..Len(in) /\ off + (k - off + 1) = k + 1
      BY <1>2, <1>5, <1>8, <2>2
    <3> QED
      BY <1>9, <3>1
  <2> QED
    BY <2>1, <2>2
<1>13. ASSUME NEW k \in 0..(off + n - 1) PROVE m_rcv_buf'[cur][k] = packet[k + 1]
  <2>1. k \in 0..(BufSize - 1) /\ (k \in off..(off + n - 1) \/ k \in 0..(off - 1))
    BY <1>5, <1>8
  <2> QED
    BY <1>7, <1>12, <2>1
<1>14. \A t \in Slots : t # cur => m_rcv_buf'[t] = m_rcv_buf[t]
  BY <1>3, <1>a DEF TypeOK
<1>15. n > 0
  BY <1>5
<1>16. off = m_rcv_buf_len[cur]
  BY <1>1
<1> QED
  BY <1>3, <1>5, <1>7, <1>8, <1>10, <1>11, <1>12, <1>13, <1>14, <1>15, <1>16 DEF c, packet, off

LEMMA SlotsCleanNext ==
  ASSUME LoopInv, EchoInv, PlainScript, [Next]_vars
  PROVE  SlotsClean'
<1>a. TypeOK /\ SlotsClean /\ LengthsFit
  BY DEF LoopInv, EchoInv
<1>b. ASSUME UNCHANGED <<m_rcv_buf, m_rcv_buf_len, cur>>, pc' = "register" => pc = "register"
      PROVE  SlotsClean'
  BY <1>a, <1>b DEF SlotsClean
<1>0. BufSize \in Nat /\ BufSize > 2 /\ 1 \in 0..(BufSize - 1)
  BY LoopSizes
<1>1. CASE Wait \/ WaitFails \/ Exit \/ LoadLength \/ ReadHeader \/ TestComplete \/ TestOverlong
           \/ AddToPool \/ Register \/ Overrun \/ RecvEnds
  <2>1. UNCHANGED <<m_rcv_buf, m_rcv_buf_len, cur>> /\ pc' # "register"
    BY <1>1 DEF Wait, WaitFails, Exit, LoadLength, ReadHeader, TestComplete, TestOverlong, AddToPool,
       Register, Overrun, RecvEnds, Done, slotVars, recvVars
  <2> QED
    BY <2>1, <1>b
<1>2. ASSUME NEW s \in Slots, AcceptFails(s) \/ AcceptDropped(s) PROVE SlotsClean'
  <2>1. UNCHANGED <<m_rcv_buf, m_rcv_buf_len, cur>> /\ pc' # "register"
    BY <1>2 DEF AcceptFails, AcceptDropped, Done, slotVars, recvVars
  <2> QED
    BY <2>1, <1>b
<1>11. ASSUME NEW s \in Slots, ReadLength(s) PROVE SlotsClean'
  <2>1. UNCHANGED <<m_rcv_buf, m_rcv_buf_len>> /\ pc' # "register"
    BY <1>11 DEF ReadLength, slotVars
  <2> QED
    BY <1>a, <2>1 DEF SlotsClean
<1>3. CASE StoreLength
  BY <1>3, <1>a DEF StoreLength, SlotsClean
<1>4. ASSUME NEW s \in Slots, AcceptConnect(s) PROVE SlotsClean'
  <2>1. cur' \in Slots
    BY <1>4, AcceptShape
  <2>2. /\ m_rcv_buf' = [m_rcv_buf EXCEPT ![cur'] = [k \in DOMAIN @ |-> 0]]
        /\ m_rcv_buf_len' = [m_rcv_buf_len EXCEPT ![cur'] = 0]
    BY <1>4 DEF AcceptConnect
  <2>3. m_rcv_buf_len'[cur'] = 0
    BY <1>a, <2>1, <2>2 DEF TypeOK
  <2>4. \A t \in Slots : m_rcv_buf'[t][1] \in {m_rcv_buf[t][1], 0}
    BY <1>a, <1>0, <2>1, <2>2 DEF TypeOK
  <2>5. \A t \in Slots : m_rcv_buf'[t][1] < 128
    BY <1>a, <2>4 DEF SlotsClean
  <2> QED
    BY <2>3, <2>5 DEF SlotsClean
<1>5. ASSUME Recv PROVE SlotsClean'
  <2>1. Owner(cur) \in Clients /\ pc' = "load"
    BY <1>5, ArgumentSlot DEF Recv
  <2>2. /\ sent[Owner(cur)] \in 1..Len(Script[Owner(cur)])
        /\ m_rcv_buf'[cur][1] \in {m_rcv_buf[cur][1], Current(Owner(cur))[2]}
        /\ \A t \in Slots : t # cur => m_rcv_buf'[t] = m_rcv_buf[t]
    <3>1. /\ InFlight(Owner(cur))
          /\ m_rcv_buf'[cur][1] = IF 1 \in Offset..(Offset + chunk' - 1)
                                THEN Current(Owner(cur))[1 + 1] ELSE m_rcv_buf[cur][1]
          /\ \A t \in Slots : t # cur => m_rcv_buf'[t] = m_rcv_buf[t]
      BY <1>0, <1>5, RecvData
    <3>2. sent[Owner(cur)] \in 1..Len(Script[Owner(cur)])
      BY <2>1, <3>1, CurrentPacket DEF InFlight, LoopInv, EchoInv
    <3> QED
      BY <3>1, <3>2
  <2>3. Current(Owner(cur))[2] < 128
    <3>1. DOMAIN Script[Owner(cur)] = 1..Len(Script[Owner(cur)])
      BY <2>1, ScriptTypes, LenProperties
    <3> QED
      BY <2>1, <2>2, <3>1 DEF PlainScript, Current
  <2> QED
    BY <1>a, <2>1, <2>2, <2>3 DEF SlotsClean
<1>6. ASSUME NEW w \in Workers, StartTask(w) \/ SendArguments(w) \/ SendReply(w) PROVE SlotsClean'
  <2>1. UNCHANGED <<m_rcv_buf, m_rcv_buf_len, cur, pc>>
    BY <1>6 DEF StartTask, SendArguments, SendReply, slotVars, recvVars
  <2> QED
    BY <2>1, <1>b
<1>7. ASSUME NEW w \in Workers, ResetLength(w) PROVE SlotsClean'
  <2>1. /\ m_rcv_buf_len' = [m_rcv_buf_len EXCEPT ![running[w]] = 0]
        /\ UNCHANGED <<m_rcv_buf, cur, pc>> /\ cur \in Slots
    BY <1>7, <1>a DEF ResetLength, LengthAfter, recvVars, TypeOK
  <2> QED
    BY <1>a, <2>1 DEF SlotsClean, TypeOK
<1>8. ASSUME NEW w \in Workers, ClearHeader(w) PROVE SlotsClean'
  <2>1. /\ m_rcv_buf' = [m_rcv_buf EXCEPT ![running[w]] = [@ EXCEPT ![0] = 0]]
        /\ UNCHANGED <<m_rcv_buf_len, cur, pc>>
    BY <1>8 DEF ClearHeader, recvVars
  <2>2. \A s \in Slots : m_rcv_buf'[s][1] = m_rcv_buf[s][1]
    BY <1>a, <1>0, <2>1 DEF TypeOK
  <2> QED
    BY <1>a, <2>1, <2>2 DEF SlotsClean
<1>9. ASSUME NEW c \in Clients, Client(c) PROVE SlotsClean'
  BY <1>9, <1>b DEF Client, Connect, SendPacket, CloseClient, slotVars, recvVars
<1>10. CASE UNCHANGED vars
  BY <1>10, <1>b DEF vars, slotVars, recvVars
<1> QED
  BY <1>1, <1>2, <1>3, <1>4, <1>5, <1>6, <1>7, <1>8, <1>9, <1>10, <1>11 DEF Next, Main, MyTask

-----------------------------------------------------------------------------
(* Clients without a slot *)

(* Nothing but a drop takes a slot from a client, and then it is not present. *)
LEMMA UnservedBefore ==
  ASSUME LoopInv, EchoInv, [Next]_vars, pc' # "exited", NEW c \in Clients, Unserved(c)'
  PROVE  Unserved(c) /\ pc # "exited"
<1>a. TypeOK /\ ListenerKept /\ SlotsOwnFds /\ CurrentSlot /\ ClientsOnce
  BY DEF LoopInv
<1> USE DEF Unserved
<1>1. CASE Wait
  BY <1>1 DEF Wait, Present, Accepted, OpenFds, Serving, Active, Owner, slotVars, kernelVars, clientVars
<1>2. CASE Exit
  BY <1>2 DEF Exit
<1>3. CASE Register
  <2>1. cur \in Slots \ Active /\ pc = "register" /\ UNCHANGED <<conn, file, backlog>>
    BY <1>3, <1>a DEF Register, CurrentSlot, TypeOK, clientVars
  <2>2. \A s \in Serving : s \in Serving' /\ Owner(s)' = Owner(s)
    BY <1>3, <1>a, <2>1 DEF Register, Serving, Active, Owner, TypeOK
  <2> QED
    BY <2>1, <2>2 DEF Present, Accepted, OpenFds
<1>4. ASSUME NEW s \in Slots, AcceptDropped(s) PROVE Unserved(c) /\ pc # "exited"
  <2>1. /\ pc = "dispatch" /\ backlog # <<>> /\ backlog' = Tail(backlog)
        /\ conn' = [conn EXCEPT ![Head(backlog)] = "closed"]
        /\ UNCHANGED <<m_fd, m_status, file>>
    BY <1>4, <1>a DEF AcceptDropped, Event, ListenerKept, ClientsOnce, slotVars
  <2>2. \A k \in DOMAIN backlog' : k + 1 \in DOMAIN backlog /\ backlog'[k] = backlog[k + 1]
    BY <1>a, <2>1, TailElements DEF ClientsOnce
  <2>3. Present(c)' => Present(c)
    BY <1>a, <2>1, <2>2 DEF Present, Accepted, OpenFds, TypeOK
  <2> QED
    BY <2>1, <2>3 DEF Serving, Active, Owner
<1>5. ASSUME NEW s \in Slots, AcceptConnect(s) PROVE Unserved(c) /\ pc # "exited"
  <2>1. /\ pc = "dispatch" /\ backlog # <<>> /\ backlog' = Tail(backlog) /\ conn' = conn
        /\ m_status' = m_status /\ m_fd' = [m_fd EXCEPT ![cur'] = Stdin]
        /\ cur' \in Slots \ Active /\ new_fd' \in Fds /\ file[new_fd'] = None
        /\ file' = [file EXCEPT ![new_fd'] = Head(backlog)]
    BY <1>5, AcceptShape
  <2>2. /\ \A k \in DOMAIN backlog' : k + 1 \in DOMAIN backlog /\ backlog'[k] = backlog[k + 1]
        /\ 1 \in DOMAIN backlog /\ Head(backlog) = backlog[1]
    BY <1>a, <2>1, TailElements DEF ClientsOnce
  <2>3. Present(c)' => Present(c)
    <3>1. \A fd \in Fds : file'[fd] = IF fd = new_fd' THEN Head(backlog) ELSE file[fd]
      BY <1>a, <2>1 DEF TypeOK
    <3>2. c \in Accepted' => c \in Accepted \/ c = Head(backlog)
      BY <3>1 DEF Accepted, OpenFds
    <3> QED
      BY <2>1, <2>2, <3>2 DEF Present
  <2>4. ASSUME NEW t \in Serving PROVE t \in Serving' /\ Owner(t)' = Owner(t)
    <3>1. m_fd[t] \in OpenFds /\ t \in Active /\ t \in Slots
      BY <2>1, ServingSlot
    <3>2. m_fd'[t] = m_fd[t] /\ m_fd[t] # new_fd' /\ file'[m_fd[t]] = file[m_fd[t]]
      BY <1>a, <2>1, <3>1 DEF TypeOK, OpenFds
    <3> QED
      BY <2>1, <3>2 DEF Serving, Active, Owner
  <2> QED
    BY <2>1, <2>3, <2>4
<1>6. ASSUME NEW s \in Slots, ReadLength(s) PROVE Unserved(c) /\ pc # "exited"
  BY <1>6 DEF ReadLength, Event, Present, Accepted, OpenFds, Serving, Active, Owner, slotVars, kernelVars,
     clientVars
<1>7. ASSUME NEW s \in Slots, Drops(s) PROVE Unserved(c) /\ pc # "exited"
  <2>1. /\ s \in Serving /\ pc # "exited" /\ backlog' = backlog /\ m_fd' = m_fd
        /\ m_fd[s] \in OpenFds /\ Active' = Active \ {s} /\ OpenFds' = OpenFds \ {m_fd[s]}
        /\ file' = [file EXCEPT ![m_fd[s]] = None]
        /\ conn' = [conn EXCEPT ![Owner(s)] = "closed"]
    BY <1>7, DropShape DEF Serving, InRecv, Owner
  <2>2. Owner(s) \in Clients /\ Owner(s) \in Accepted
    BY <2>1, ServingSlot
  <2>3. \A fd \in OpenFds' : fd \in OpenFds /\ file'[fd] = file[fd] /\ file[fd] # Owner(s)
    BY <1>a, <2>1 DEF OpenFds, TypeOK, ClientsOnce, Owner
  <2>4. c # Owner(s)
    <3> SUFFICES ASSUME c = Owner(s) PROVE FALSE
      OBVIOUS
    <3>1. conn'[c] = "closed"
      BY <1>a, <2>1, <2>2 DEF TypeOK
    <3>2. c \notin Accepted'
      BY <2>3 DEF Accepted
    <3>3. \A k \in DOMAIN backlog' : backlog'[k] # c
      BY <1>a, <2>1, <2>2 DEF ClientsOnce
    <3> QED
      BY <3>1, <3>2, <3>3 DEF Present
  <2>5. Present(c)
    <3>1. conn'[c] = conn[c]
      BY <1>a, <2>1, <2>4 DEF TypeOK
    <3>2. c \in Accepted' => c \in Accepted
      BY <2>3 DEF Accepted
    <3> QED
      BY <2>1, <3>1, <3>2 DEF Present
  <2>6. ASSUME NEW t \in Serving, t # s PROVE t \in Serving' /\ Owner(t)' = Owner(t)
    <3>1. m_fd[t] \in OpenFds /\ m_fd[t] # m_fd[s] /\ t \in Active /\ t # Listener
      BY <2>1, <2>6, ServingSlot
    <3>2. file'[m_fd[t]] = file[m_fd[t]]
      BY <2>1, <2>3, <3>1
    <3> QED
      BY <2>1, <2>6, <3>1, <3>2 DEF Serving, Owner
  <2> QED
    BY <2>1, <2>4, <2>5, <2>6
<1>8. ASSUME NEW d \in Clients, Connect(d) PROVE Unserved(c) /\ pc # "exited"
  <2>1. /\ conn[d] = "none" /\ pc # "exited" /\ conn' = [conn EXCEPT ![d] = "open"]
        /\ backlog' = Append(backlog, d) /\ UNCHANGED <<m_fd, m_status, file>>
    BY <1>8 DEF Connect, slotVars
  <2>2. \A k \in DOMAIN backlog' : (k \in DOMAIN backlog /\ backlog'[k] = backlog[k]) \/ backlog'[k] = d
    BY <1>a, <2>1, AppendElements DEF ClientsOnce
  <2>3. Present(c)' => Present(c)
    BY <1>a, <2>1, <2>2 DEF Present, Accepted, OpenFds, TypeOK
  <2> QED
    BY <2>1, <2>3 DEF Serving, Active, Owner
<1>9. CASE Quiet
  BY <1>9 DEF Quiet, StructVars, Present, Accepted, OpenFds, Serving, Active, Owner
<1> QED
  BY <1>1, <1>2, <1>3, <1>4, <1>5, <1>6, <1>7, <1>8, <1>9, StepKinds

(* A patient client puts a whole new packet in flight. *)
LEMMA PacketSent ==
  ASSUME LoopInv, EchoInv, Habit = "patient", NEW c \in Clients, SendPacket(c)
  PROVE  /\ Idle(c) /\ Settled(c) /\ ~InFlight(c) /\ InFlight(c)' /\ ~Idle(c)'
         /\ Current(c)' \in Seq(Bytes) /\ Len(Current(c)') \in Nat /\ Len(Current(c)') >= 2
         /\ rx' = [rx EXCEPT ![c] = @ \o Current(c)']
         /\ \A d \in Clients : d # c => sent'[d] = sent[d] /\ rx'[d] = rx[d]
         /\ UNCHANGED <<slotVars, kernelVars, pc, batch, recvVars, poolVars, workerVars, conn, eof, got>>
<1>a. TypeOK /\ LengthsFit
  BY DEF LoopInv
<1>1. /\ sent[c] < Len(Script[c]) /\ MayAct(c)
      /\ sent' = [sent EXCEPT ![c] = @ + 1]
      /\ rx' = [rx EXCEPT ![c] = @ \o Script[c][sent[c] + 1]]
      /\ UNCHANGED <<slotVars, kernelVars, pc, batch, recvVars, poolVars, workerVars, conn, eof, got>>
  BY DEF SendPacket
<1>2. Idle(c) /\ ~InFlight(c) /\ Settled(c)
  BY <1>1, PatientActs
<1>3. /\ sent[c] \in Nat /\ sent'[c] = sent[c] + 1 /\ sent'[c] # 0 /\ sent'[c] - 1 = sent[c]
      /\ sent[c] \in 0..Len(Script[c]) /\ sent[c] + 1 \in 1..Len(Script[c])
  BY <1>a, <1>1, ScriptTypes DEF TypeOK
<1>4. Current(c)' = Script[c][sent[c] + 1]
  BY <1>3 DEF Current
<1>5. InFlight(c)'
  BY <1>1, <1>2, <1>3 DEF InFlight, Idle
<1>6. /\ Script[c][sent[c] + 1] \in Seq(Bytes) /\ Len(Script[c][sent[c] + 1]) \in Nat
      /\ Len(Script[c][sent[c] + 1]) >= 2
  BY <1>3, ScriptTypes
<1>7. ~Idle(c)'
  <2>1. /\ SentBytes(c, sent[c]) \in Seq(Bytes)
        /\ SentBytes(c, sent[c] + 1) = SentBytes(c, sent[c]) \o Script[c][sent[c] + 1]
    BY <1>1, <1>3, SentGrows
  <2>2. Len(SentBytes(c, sent[c])) \in Nat
        /\ Len(SentBytes(c, sent[c] + 1))
             = Len(SentBytes(c, sent[c])) + Len(Script[c][sent[c] + 1])
    <3>1. PICK s, t : s = SentBytes(c, sent[c]) /\ t = Script[c][sent[c] + 1]
      OBVIOUS
    <3>2. s \in Seq(Bytes) /\ t \in Seq(Bytes) /\ SentBytes(c, sent[c] + 1) = s \o t
      BY <1>6, <2>1, <3>1
    <3>3. Len(s) \in Nat /\ Len(s \o t) = Len(s) + Len(t)
      BY <3>2, ConcatProperties, LenProperties
    <3> QED
      BY <3>1, <3>2, <3>3
  <2>3. Len(SentBytes(c, sent[c] + 1)) # Len(SentBytes(c, sent[c]))
    <3>1. \A x, y, z \in Int : x = y + z /\ z >= 2 => x # y
      OBVIOUS
    <3>2. /\ Len(SentBytes(c, sent[c] + 1)) \in Int /\ Len(SentBytes(c, sent[c])) \in Int
          /\ Len(Script[c][sent[c] + 1]) \in Int
      BY <1>6, <2>2
    <3> QED
      BY <1>6, <2>2, <3>1, <3>2
  <2>4. SentBytes(c, sent[c] + 1) # SentBytes(c, sent[c])
    BY <2>3, Zenon
  <2> QED
    BY <1>1, <1>2, <1>3, <2>4 DEF Idle
<1>8. \A d \in Clients : d # c => sent'[d] = sent[d] /\ rx'[d] = rx[d]
  BY <1>a, <1>1 DEF TypeOK, LengthsFit
<1> QED
  BY <1>1, <1>2, <1>4, <1>5, <1>6, <1>7, <1>8

LEMMA UnservedDataNext ==
  ASSUME LoopInv, EchoInv, Habit = "patient", [Next]_vars
  PROVE  UnservedData'
<1> SUFFICES ASSUME pc' # "exited", NEW c \in Clients, Unserved(c)'
             PROVE  rx'[c] = IF Idle(c)' THEN <<>> ELSE Current(c)'
  BY DEF UnservedData
<1>a. TypeOK /\ LengthsFit /\ ClientsInv
  BY DEF LoopInv, EchoInv
<1>b. Unserved(c) /\ rx[c] = (IF Idle(c) THEN <<>> ELSE Current(c))
  BY UnservedBefore DEF EchoInv, UnservedData
<1>c. ASSUME rx'[c] = rx[c], got'[c] = got[c], sent'[c] = sent[c]
      PROVE  rx'[c] = IF Idle(c)' THEN <<>> ELSE Current(c)'
  BY <1>b, <1>c DEF Idle, Current
<1>1. ASSUME Main, ~Recv PROVE UNCHANGED <<rx, got, sent>>
  BY <1>1 DEF Main, Wait, WaitFails, Exit, AcceptFails, AcceptDropped, AcceptConnect, ReadLength,
     Overrun, RecvEnds, Register, LoadLength, StoreLength, ReadHeader, TestComplete, TestOverlong, AddToPool, clientVars
<1>2. ASSUME Recv PROVE rx'[c] = IF Idle(c)' THEN <<>> ELSE Current(c)'
  <2>1. cur \in Serving
    BY <1>2, ArgumentSlot DEF Recv
  <2>2. c # Owner(cur)
    BY <1>b, <2>1 DEF Unserved
  <2>3. rx'[c] = rx[c] /\ UNCHANGED <<got, sent>>
    <3>1. \E x : rx' = [rx EXCEPT ![Owner(cur)] = x]
      BY <1>2 DEF Recv, Owner
    <3> QED
      BY <1>2, <1>a, <2>2, <3>1 DEF Recv, LengthsFit
  <2> QED
    BY <1>c, <2>3
<1>3. ASSUME NEW w \in Workers, SendReply(w) PROVE rx'[c] = IF Idle(c)' THEN <<>> ELSE Current(c)'
  <2>1. wpc[w] = "send" /\ UNCHANGED <<rx, sent>>
        /\ (got' = got \/ \E x : got' = [got EXCEPT ![file[wargs[w][1]]] = x])
    BY <1>3 DEF SendReply
  <2>2. running[w] \in Serving /\ file[wargs[w][1]] = Owner(running[w])
    BY <2>1, RunningSlot, ReplyIsPacket DEF Owner
  <2>3. c # file[wargs[w][1]]
    BY <1>b, <2>2 DEF Unserved
  <2>4. got'[c] = got[c]
    BY <1>a, <2>1, <2>3 DEF ClientsInv
  <2> QED
    BY <1>c, <2>1, <2>4
<1>4. ASSUME NEW w \in Workers, StartTask(w) \/ SendArguments(w) \/ ResetLength(w) \/ ClearHeader(w)
      PROVE  UNCHANGED <<rx, got, sent>>
  BY <1>4 DEF StartTask, SendArguments, ResetLength, ClearHeader, clientVars
<1>5. ASSUME NEW d \in Clients, SendPacket(d) PROVE rx'[c] = IF Idle(c)' THEN <<>> ELSE Current(c)'
  <2>1. CASE d = c
    <3>1. Idle(c) /\ ~Idle(c)' /\ rx' = [rx EXCEPT ![c] = @ \o Current(c)'] /\ Current(c)' \in Seq(Bytes)
      BY <1>5, <2>1, PacketSent
    <3>2. rx[c] = <<>>
      BY <1>b, <3>1
    <3>3. rx'[c] = <<>> \o Current(c)'
      BY <1>a, <3>1, <3>2 DEF LengthsFit
    <3> QED
      BY <3>1, <3>3, ConcatEmptySeq
  <2>2. CASE d # c
    <3>1. rx'[c] = rx[c] /\ sent'[c] = sent[c] /\ got' = got
      BY <1>5, <2>2, PacketSent
    <3> QED
      BY <1>c, <3>1
  <2> QED
    BY <2>1, <2>2
<1>6. ASSUME NEW d \in Clients, Connect(d) \/ CloseClient(d) PROVE UNCHANGED <<rx, got, sent>>
  BY <1>6 DEF Connect, CloseClient
<1>7. ASSUME UNCHANGED vars PROVE UNCHANGED <<rx, got, sent>>
  BY <1>7 DEF vars, clientVars
<1> QED
  BY <1>c, <1>1, <1>2, <1>3, <1>4, <1>5, <1>6, <1>7 DEF Next, MyTask, Client

-----------------------------------------------------------------------------
(* What a step leaves alone *)

Same(s) ==
  /\ m_fd'[s] = m_fd[s] /\ file'[m_fd[s]] = file[m_fd[s]]
  /\ m_rcv_buf'[s] = m_rcv_buf[s] /\ m_rcv_buf_len'[s] = m_rcv_buf_len[s]
  /\ rx'[Owner(s)] = rx[Owner(s)] /\ got'[Owner(s)] = got[Owner(s)]
  /\ sent'[Owner(s)] = sent[Owner(s)]

TaskSame(s) ==
  /\ Queued(s)' <=> Queued(s)
  /\ \A w \in Workers : running'[w] = s <=> running[w] = s
  /\ \A w \in Workers : running[w] = s =>
       wpc'[w] = wpc[w] /\ wargs'[w] = wargs[w] /\ eof'[Owner(s)] = eof[Owner(s)]

HandSame(s) ==
  InHand(s) \/ InHand(s)' => UNCHANGED <<pc, cur, chunk, loaded, header>>

LEMMA SameData ==
  ASSUME NEW s, Same(s)
  PROVE  /\ Owner(s)' = Owner(s) /\ Current(Owner(s))' = Current(Owner(s))
         /\ \A n : Partial(s, n)' <=> Partial(s, n)
         /\ Whole(s)' <=> Whole(s)
         /\ RestData(s)' <=> RestData(s)
<1>1. Owner(s)' = Owner(s)
  BY DEF Same, Owner
<1>2. Current(Owner(s))' = Current(Owner(s)) /\ (InFlight(Owner(s))' <=> InFlight(Owner(s)))
  BY <1>1 DEF Same, Current, InFlight
<1>3. rx'[Owner(s)'] = rx[Owner(s)] /\ m_rcv_buf'[s] = m_rcv_buf[s]
      /\ m_rcv_buf_len'[s] = m_rcv_buf_len[s]
  BY <1>1 DEF Same
<1>4. ASSUME NEW n PROVE Partial(s, n)' <=> Partial(s, n)
  BY <1>1, <1>2, <1>3 DEF Partial
<1>5. Whole(s)' <=> Whole(s)
  BY <1>1, <1>2, <1>3, <1>4 DEF Whole
<1>6. RestData(s)' <=> RestData(s)
  BY <1>1, <1>2, <1>3, <1>4 DEF RestData
<1> QED
  BY <1>1, <1>2, <1>4, <1>5, <1>6

(* A slot that a step does not touch keeps its data. *)
LEMMA KeepSlot ==
  ASSUME NEW s, OneSlotData(s), Same(s), TaskSame(s), HandSame(s)
  PROVE  OneSlotData(s)'
<1>1. /\ Owner(s)' = Owner(s) /\ Current(Owner(s))' = Current(Owner(s))
      /\ \A n : Partial(s, n)' <=> Partial(s, n)
      /\ Whole(s)' <=> Whole(s)
      /\ RestData(s)' <=> RestData(s)
  BY SameData
<1>2. HasTask(s)' <=> HasTask(s)
  BY DEF TaskSame, HasTask
<1>3. InHand(s)' <=> InHand(s)
  BY DEF HandSame, InHand, InRecv
<1>4. InHand(s)' => HandData(s)'
  <2> SUFFICES ASSUME InHand(s)' PROVE HandData(s)'
    OBVIOUS
  <2>1. UNCHANGED <<pc, cur, chunk, loaded, header>> /\ HandData(s)
    BY <1>3 DEF HandSame, OneSlotData
  <2>2. m_rcv_buf'[s] = m_rcv_buf[s] /\ m_rcv_buf_len'[s] = m_rcv_buf_len[s]
    BY DEF Same
  <2> QED
    BY <1>1, <2>1, <2>2 DEF HandData, PartData, InArguments
<1>5. ASSUME NEW w \in Workers, running'[w] = s PROVE TaskData(s, w)'
  <2>1. /\ TaskData(s, w)
        /\ wpc'[w] = wpc[w] /\ wargs'[w] = wargs[w] /\ eof'[Owner(s)] = eof[Owner(s)]
    BY <1>5 DEF TaskSame, OneSlotData
  <2>2. /\ m_fd'[s] = m_fd[s] /\ m_rcv_buf_len'[s] = m_rcv_buf_len[s]
        /\ rx'[Owner(s)] = rx[Owner(s)]
    BY DEF Same
  <2> QED
    BY <1>1, <2>1, <2>2 DEF TaskData
<1>6. Queued(s)' => Whole(s)'
  BY <1>1 DEF OneSlotData, TaskSame
<1>7. ~HasTask(s)' /\ ~InHand(s)' => RestData(s)'
  BY <1>1, <1>2, <1>3 DEF OneSlotData
<1> QED
  BY <1>4, <1>5, <1>6, <1>7 DEF OneSlotData

(* Steps that leave the buffers, the tasks and the clients alone. *)
LEMMA KeepQuiet ==
  ASSUME NEW s, OneSlotData(s),
         UNCHANGED <<m_rcv_buf, m_rcv_buf_len, pending, running, wpc, wargs, rx, got, sent, eof>>,
         m_fd'[s] = m_fd[s], file'[m_fd[s]] = file[m_fd[s]], HandSame(s)
  PROVE  OneSlotData(s)'
<1>1. Same(s) /\ TaskSame(s)
  BY DEF Same, TaskSame, Queued
<1> QED
  BY <1>1, KeepSlot

-----------------------------------------------------------------------------
(* testpacket *)

LEMMA HeaderArithmetic ==
  ASSUME NEW hi \in Int, NEW lo \in Int, NEW last \in Int, NEW n \in Int, NEW size \in Int,
         n > 0, n <= size, size >= 2, hi >= 0, lo >= 0,
         hi * 256 + last = size - 2, n >= 2 => lo = last
  PROVE  /\ hi * 256 + lo = n - 2 <=> n = size
         /\ n < size => ~(hi * 256 + lo < n - 2)
OBVIOUS

LEMMA HandVerdict ==
  ASSUME LoopInv, EchoInv, PlainScript, pc \in {"complete", "overlong"}
  PROVE  /\ cur \in Serving /\ HandData(cur)
         /\ Verdict = "DATA_COMPLETE" <=> m_rcv_buf_len[cur] = Len(Current(Owner(cur)))
         /\ pc = "overlong" => Verdict # "DATA_ERROR"
         /\ m_rcv_buf_len[cur] <= Len(Current(Owner(cur)))
<1> DEFINE packet == Current(Owner(cur))
           n      == m_rcv_buf_len[cur]
           b0     == m_rcv_buf[cur][0]
           b1     == m_rcv_buf[cur][1]
<1>1. cur \in Serving /\ pc # "exited" /\ InHand(cur)
  BY DEF LoopInv, CurrentSlot, InRecv, Serving, InHand
<1>2. Owner(cur) \in Clients /\ HandData(cur) /\ cur \in Slots
  BY <1>1, ServingSlot DEF EchoInv, SlotData, OneSlotData
<1>3. /\ n \in 0..BufSize /\ b0 \in Bytes /\ b1 \in Bytes
  BY <1>2, LoopSizes DEF LoopInv, TypeOK
<1>4. /\ Partial(cur, n) /\ n > 0 /\ n \in Nat
      /\ header = <<b0, b1>> /\ (pc = "overlong" => n < Len(packet))
  <2>1. n + 0 = n /\ n \in Nat
    BY <1>3
  <2>2. pc \notin {"load", "store"}
    OBVIOUS
  <2> HIDE DEF n, packet
  <2> QED
    BY <1>2, <2>1, <2>2 DEF HandData, PartData, InArguments, n, packet
<1>5. /\ InFlight(Owner(cur)) /\ n <= Len(packet)
      /\ \A k \in 0..(n - 1) : m_rcv_buf[cur][k] = packet[k + 1]
  BY <1>4 DEF Partial
<1>6. /\ Len(packet) \in Nat /\ Len(packet) >= 2
      /\ packet[1] \in Bytes /\ packet[2] \in Bytes
      /\ packet[1] * 256 + packet[2] = Len(packet) - 2
      /\ sent[Owner(cur)] \in 1..Len(Script[Owner(cur)])
  BY <1>2, <1>5, CurrentPacket DEF LoopInv, EchoInv, InFlight
<1>7. packet[1] < 128 /\ packet[2] < 128
  <2>1. sent[Owner(cur)] \in DOMAIN Script[Owner(cur)]
    BY <1>2, <1>6, ScriptTypes, LenProperties
  <2> QED
    BY <1>2, <2>1 DEF PlainScript, Current
<1>8. b1 < 128
  BY <1>2 DEF EchoInv, SlotsClean
<1> HIDE DEF packet, n, b0, b1
<1>9. b0 = packet[1] /\ (n >= 2 => b1 = packet[2])
  <2>1. 0 \in 0..(n - 1) /\ 0 + 1 = 1 /\ (n >= 2 => 1 \in 0..(n - 1)) /\ 1 + 1 = 2
    BY <1>4
  <2> QED
    BY <1>5, <2>1 DEF b0, b1
<1>10. b0 \in 0..127 /\ b1 \in 0..127 /\ packet[2] \in Int
  <2>1. b0 \in 0..255 /\ b1 \in 0..255 /\ packet[2] \in 0..255
    BY <1>3, <1>6 DEF Bytes
  <2>2. b0 < 128 /\ b1 < 128
    BY <1>7, <1>8, <1>9
  <2> QED
    BY <2>1, <2>2
<1>11. HeaderLength(b0, b1) = b0 * 256 + b1
  BY <1>10 DEF HeaderLength, SignedChar
<1>12. /\ Verdict = "DATA_COMPLETE" <=> b0 * 256 + b1 = n - 2
       /\ Verdict = "DATA_ERROR" <=> b0 * 256 + b1 < n - 2
  <2>1. Verdict = TestPacket(b0, b1, n)
    BY <1>4 DEF Verdict, n
  <2>2. b0 * 256 + b1 \in Int /\ n - 2 \in Int
    BY <1>4, <1>10
  <2> QED
    BY <1>11, <2>1, <2>2 DEF TestPacket, HEADER_LEN
<1>13. /\ b0 * 256 + b1 = n - 2 <=> n = Len(packet)
       /\ n < Len(packet) => ~(b0 * 256 + b1 < n - 2)
  <2>1. b0 \in Int /\ b1 \in Int /\ n \in Int /\ Len(packet) \in Int
    BY <1>4, <1>6, <1>10
  <2>2. /\ n > 0 /\ n <= Len(packet) /\ Len(packet) >= 2 /\ b0 >= 0 /\ b1 >= 0
        /\ b0 * 256 + packet[2] = Len(packet) - 2 /\ (n >= 2 => b1 = packet[2])
    <3>1. n > 0 /\ n <= Len(packet) /\ Len(packet) >= 2
      BY <1>4, <1>5, <1>6
    <3>2. b0 >= 0 /\ b1 >= 0
      BY <1>10
    <3>3. b0 * 256 + packet[2] = Len(packet) - 2
      BY <1>6, <1>9, Zenon
    <3> QED
      BY <1>9, <3>1, <3>2, <3>3
  <2> QED
    BY <1>10, <2>1, <2>2, HeaderArithmetic
<1> QED
  BY <1>1, <1>2, <1>4, <1>5, <1>12, <1>13 DEF n, packet

-----------------------------------------------------------------------------
(* The data of the slots, step by step *)

(* main between two callbacks, and clients that connect or close. *)
LEMMA SlotDataStructure ==
  ASSUME LoopInv, EchoInv, Habit = "patient",
         \/ Wait \/ WaitFails \/ Exit \/ UNCHANGED vars
         \/ \E s \in Slots : AcceptFails(s) \/ AcceptDropped(s) \/ AcceptConnect(s) \/ Drops(s)
         \/ \E c \in Clients : Connect(c) \/ CloseClient(c)
  PROVE  SlotData'
<1> SUFFICES ASSUME pc' # "exited", NEW s \in Serving' PROVE OneSlotData(s)'
  BY DEF SlotData
<1>a. TypeOK /\ SlotData
  BY DEF LoopInv, EchoInv
<1>b. ASSUME s \in Serving, pc # "exited",
             UNCHANGED <<m_rcv_buf, m_rcv_buf_len, pending, running, wpc, wargs, rx, got, sent, eof>>,
             m_fd'[s] = m_fd[s], file'[m_fd[s]] = file[m_fd[s]], HandSame(s)
      PROVE  OneSlotData(s)'
  BY <1>a, <1>b, KeepQuiet DEF SlotData
<1>1. CASE Wait \/ WaitFails \/ \E t \in Slots : AcceptFails(t) \/ AcceptDropped(t)
  <2>1. /\ UNCHANGED <<m_rcv_buf, m_rcv_buf_len, pending, running, wpc, wargs, rx, got, sent, eof,
                       m_fd, m_status, file>>
        /\ pc \in {"wait", "dispatch"} /\ pc' \in {"wait", "dispatch", "ended"}
    BY <1>1 DEF Wait, WaitFails, AcceptFails, AcceptDropped, Event, Done, Pool!Close, slotVars,
       kernelVars, workerVars, clientVars, poolVars
  <2> QED
    BY <2>1, <1>b DEF Serving, Active, HandSame, InHand, InRecv
<1>2. CASE Exit
  BY <1>2 DEF Exit
<1>3. CASE UNCHANGED vars
  BY <1>3, <1>b DEF vars, slotVars, kernelVars, recvVars, poolVars, workerVars, clientVars, Serving,
     Active, HandSame
<1>4. ASSUME NEW t \in Slots, AcceptConnect(t) PROVE OneSlotData(s)'
  <2>1. /\ pc = "dispatch" /\ pc' = "register" /\ cur' \in Slots \ Active /\ m_status' = m_status
        /\ m_fd' = [m_fd EXCEPT ![cur'] = Stdin]
        /\ new_fd' \in Fds /\ file[new_fd'] = None
        /\ file' = [file EXCEPT ![new_fd'] = Head(backlog)]
    BY <1>4, AcceptShape
  <2>2. /\ \E x : m_rcv_buf' = [m_rcv_buf EXCEPT ![cur'] = x]
        /\ \E x : m_rcv_buf_len' = [m_rcv_buf_len EXCEPT ![cur'] = x]
        /\ UNCHANGED <<pending, running, wpc, wargs, rx, got, sent, eof>>
    BY <1>4 DEF AcceptConnect, poolVars, workerVars, clientVars
  <2>3. s \in Serving /\ s # cur' /\ s \in Slots /\ m_fd[s] \in OpenFds
    <3>1. s \in Serving
      BY <2>1 DEF Serving, Active
    <3> QED
      BY <2>1, <3>1, ServingSlot
  <2>4. /\ m_fd'[s] = m_fd[s] /\ file'[m_fd[s]] = file[m_fd[s]]
        /\ m_rcv_buf'[s] = m_rcv_buf[s] /\ m_rcv_buf_len'[s] = m_rcv_buf_len[s]
    BY <1>a, <2>1, <2>2, <2>3 DEF TypeOK, OpenFds
  <2>5. Same(s) /\ TaskSame(s) /\ HandSame(s)
    BY <2>1, <2>2, <2>4 DEF Same, TaskSame, HandSame, Queued, InHand, InRecv
  <2>6. OneSlotData(s)
    BY <1>a, <2>1, <2>3 DEF SlotData
  <2> QED
    BY <2>5, <2>6, KeepSlot
<1>5. ASSUME NEW t \in Slots, Drops(t) PROVE OneSlotData(s)'
  <2>1. /\ t \in Serving /\ Active' = Active \ {t} /\ m_fd' = m_fd /\ cur' = cur
        /\ file' = [file EXCEPT ![m_fd[t]] = None]
        /\ pc' \in {"wait", "dispatch"} /\ pc # "exited"
    BY <1>5, DropShape DEF Serving, InRecv
  <2>2. /\ UNCHANGED <<m_rcv_buf, m_rcv_buf_len, pending, running, wpc, wargs, rx, got, sent, eof>>
        /\ t = cur
    BY <1>5 DEF Drops, RecvEnds, TestOverlong, AddToPool, poolVars, workerVars
  <2>3. s \in Serving /\ s # t
    BY <2>1 DEF Serving
  <2>4. m_fd[s] # m_fd[t] /\ m_fd[s] \in Fds
    BY <2>1, <2>3, ServingSlot
  <2>5. file'[m_fd[s]] = file[m_fd[s]]
    BY <1>a, <2>1, <2>4 DEF TypeOK
  <2> QED
    BY <1>b, <2>1, <2>2, <2>3, <2>5 DEF HandSame, InHand, InRecv
<1>6. ASSUME NEW c \in Clients, Connect(c) PROVE OneSlotData(s)'
  <2>1. /\ UNCHANGED <<m_rcv_buf, m_rcv_buf_len, pending, running, wpc, wargs, rx, got, sent, eof,
                       m_fd, m_status, file, pc, cur, chunk, loaded, header>>
        /\ pc # "exited"
    BY <1>6 DEF Connect, slotVars, recvVars, poolVars, workerVars
  <2> QED
    BY <2>1, <1>b DEF Serving, Active, HandSame
<1>7. ASSUME NEW c \in Clients, CloseClient(c) PROVE OneSlotData(s)'
  <2>1. /\ UNCHANGED <<m_rcv_buf, m_rcv_buf_len, pending, running, wpc, wargs, rx, got, sent,
                       m_fd, m_status, file, pc, cur, chunk, loaded, header>>
        /\ eof' = [eof EXCEPT ![c] = TRUE] /\ Settled(c)
    BY <1>7, PatientActs DEF CloseClient, slotVars, kernelVars, recvVars, poolVars, workerVars
  <2>2. s \in Serving /\ pc # "exited"
    BY <2>1 DEF Serving, Active
  <2>3. Owner(s) \in Clients /\ OneSlotData(s)
    BY <1>a, <2>2, ServingSlot DEF SlotData
  <2>4. (\E w \in Workers : running[w] = s) => eof'[Owner(s)] = eof[Owner(s)]
    <3>1. CASE Owner(s) = c
      BY <2>1, <2>2, <3>1, SettledSlot DEF HasTask
    <3>2. CASE Owner(s) # c
      BY <1>a, <2>1, <2>3, <3>2 DEF TypeOK
    <3> QED
      BY <3>1, <3>2
  <2>5. Same(s) /\ TaskSame(s) /\ HandSame(s)
    BY <2>1, <2>4 DEF Same, TaskSame, HandSame, Queued
  <2> QED
    BY <2>3, <2>5, KeepSlot
<1> QED
  BY <1>1, <1>2, <1>3, <1>4, <1>5, <1>6, <1>7

(* The slot of a new connection is empty, and its client unserved so far. *)
LEMMA SlotDataRegister ==
  ASSUME LoopInv, EchoInv, Register
  PROVE  SlotData'
<1> SUFFICES ASSUME NEW s \in Serving' PROVE OneSlotData(s)'
  BY DEF SlotData
<1>a. TypeOK /\ CurrentSlot /\ ListenerKept /\ ClientsOnce /\ SlotData /\ SlotsClean /\ UnservedData
      /\ TasksApart /\ LengthsFit
  BY DEF LoopInv, EchoInv
<1>1. /\ pc = "register" /\ pc' \in {"wait", "dispatch"} /\ cur \in Slots \ Active
      /\ new_fd \in OpenFds /\ \A t \in Active : m_fd[t] # new_fd
      /\ m_fd' = [m_fd EXCEPT ![cur] = new_fd]
      /\ UNCHANGED <<m_rcv_buf, m_rcv_buf_len, pending, running, wpc, wargs, rx, got, sent, eof,
                     file, cur>>
  BY <1>a DEF Register, Done, CurrentSlot, TypeOK, recvVars, poolVars, workerVars, clientVars
<1>2. s \in Slots /\ (s # cur => s \in Serving)
  BY <1>a, <1>1 DEF Register, Serving, Active, TypeOK
<1>3. CASE s # cur
  <2>1. m_fd'[s] = m_fd[s] /\ OneSlotData(s)
    BY <1>a, <1>1, <1>2, <1>3 DEF TypeOK, SlotData
  <2> QED
    BY <1>1, <1>3, <2>1, KeepQuiet DEF HandSame, InHand, InRecv
<1>4. CASE s = cur
  <2>0. PICK c \in Clients : c = file[new_fd]
    BY <1>a, <1>1, AcceptedType
  <2>1. c \in Clients /\ c \in Accepted
    BY <1>1, <2>0 DEF Accepted
  <2>2. \A t \in Serving : Owner(t) # c
    <3> SUFFICES ASSUME NEW t \in Serving, Owner(t) = c PROVE FALSE
      OBVIOUS
    <3>1. m_fd[t] \in OpenFds /\ t \in Active
      BY <1>1, ServingSlot
    <3> QED
      BY <1>a, <1>1, <2>0, <3>1 DEF ClientsOnce, Owner
  <2>3. rx[c] = IF Idle(c) THEN <<>> ELSE Current(c)
    BY <1>a, <1>1, <2>1, <2>2 DEF UnservedData, Unserved, Present
  <2>4. ~HasTask(s)' /\ ~InHand(s)'
    <3>1. s \notin Serving
      BY <1>1, <1>4 DEF Serving
    <3>2. ~HasTask(s)
      BY <1>a, <1>1, <1>2, <3>1 DEF TasksApart
    <3> QED
      BY <1>1, <3>2 DEF HasTask, Queued, InHand, InRecv
  <2>5. Owner(s)' = c /\ m_rcv_buf_len'[s] = 0
    BY <1>a, <1>1, <1>4, <2>0 DEF Owner, TypeOK, SlotsClean
  <2>6. RestData(s)'
    <3>1. CASE Idle(c)
      BY <1>1, <2>3, <2>5, <3>1 DEF RestData
    <3>2. CASE ~Idle(c)
      <4>1. InFlight(c) /\ rx[c] = Current(c)
        BY <2>1, <2>3, <3>2 DEF EchoInv, ClientsInv
      <4>2. Current(c) \in Seq(Bytes) /\ Len(Current(c)) \in Nat /\ Len(Current(c)) >= 2
        BY <1>a, <2>1, <4>1, CurrentPacket DEF EchoInv, InFlight
      <4>3. rx[c] = SubSeq(Current(c), 0 + 1, Len(Current(c)))
        <5>1. SubSeq(Current(c), 1, Len(Current(c))) = Current(c)
          BY <4>2, SubSeqFull
        <5> QED
          BY <4>1, <5>1
      <4>4. InFlight(c)' /\ Current(c)' = Current(c) /\ rx'[c] = rx[c]
        BY <1>1, <4>1 DEF InFlight, Current
      <4>5. 0 <= Len(Current(c)) /\ 0 < Len(Current(c)) /\ 0..(0 - 1) = {}
        BY <4>2
      <4>6. Partial(s, 0)'
        BY <2>5, <4>3, <4>4, <4>5 DEF Partial
      <4> QED
        BY <2>5, <4>4, <4>5, <4>6 DEF RestData
    <3> QED
      BY <3>1, <3>2
  <2>7. ~Queued(s)' /\ \A w \in Workers : running'[w] # s
    BY <2>4 DEF HasTask
  <2> QED
    BY <2>4, <2>6, <2>7 DEF OneSlotData
<1> QED
  BY <1>3, <1>4

(* recvdata begins: the slot of the event is now in main's hand. *)
LEMMA SlotDataRead ==
  ASSUME LoopInv, EchoInv, NEW t \in Slots, ReadLength(t)
  PROVE  SlotData'
<1> SUFFICES ASSUME NEW s \in Serving' PROVE OneSlotData(s)'
  BY DEF SlotData
<1>a. TypeOK /\ SlotData
  BY DEF LoopInv, EchoInv
<1>1. /\ pc = "dispatch" /\ InArguments' /\ InRecv' /\ cur' = t /\ loaded' = m_rcv_buf_len[t]
      /\ UNCHANGED <<m_fd, m_status, m_rcv_buf, m_rcv_buf_len, file, pending, running, wpc, wargs,
                     rx, got, sent, eof>>
  BY DEF ReadLength, Event, InArguments, InRecv, slotVars, kernelVars, poolVars, workerVars, clientVars
<1>2. t \in Serving /\ ~HasTask(t) /\ RestData(t)
  BY BatchSlot DEF ReadLength
<1>3. s \in Serving /\ pc # "exited" /\ OneSlotData(s)
  BY <1>a, <1>1 DEF Serving, Active, SlotData
<1>4. Same(s) /\ TaskSame(s)
  BY <1>1 DEF Same, TaskSame, Queued
<1>5. CASE s # t
  <2>1. HandSame(s)
    BY <1>1, <1>5 DEF HandSame, InHand, InRecv
  <2> QED
    BY <1>3, <1>4, <2>1, KeepSlot
<1>6. CASE s = t
  <2>1. RestData(s)'
    BY <1>2, <1>4, <1>6, SameData
  <2>2. HandData(s)'
    BY <1>1, <1>6, <2>1 DEF HandData
  <2>3. ~Queued(s)' /\ (\A w \in Workers : running'[w] # s) /\ InHand(s)'
    BY <1>1, <1>2, <1>6 DEF HasTask, Queued, InHand
  <2> QED
    BY <2>2, <2>3 DEF OneSlotData
<1> QED
  BY <1>5, <1>6

(* recv: what it brings counts, although the length does not say so yet. *)
LEMMA SlotDataRecv ==
  ASSUME LoopInv, EchoInv, Recv
  PROVE  SlotData'
<1> SUFFICES ASSUME NEW s \in Serving' PROVE OneSlotData(s)'
  BY DEF SlotData
<1>a. TypeOK /\ SlotData /\ LengthsFit
  BY DEF LoopInv, EchoInv
<1>0. PICK t \in Slots : t = cur
  BY ArgumentSlot DEF Recv
<1>1. /\ InRecv /\ pc' = "load" /\ cur = t /\ cur' = t
      /\ UNCHANGED <<m_fd, m_status, m_rcv_buf_len, file, pending, running, wpc, wargs, got, sent, eof>>
  BY <1>0 DEF Recv, InArguments, InRecv, poolVars, workerVars, kernelVars
<1>2. t \in Serving /\ ~HasTask(t) /\ Owner(t) \in Clients
  BY <1>0, ArgumentSlot DEF Recv
<1>3. /\ InFlight(Owner(t)) /\ m_rcv_buf_len[t] \in Nat /\ chunk' \in Nat /\ chunk' > 0
      /\ m_rcv_buf_len[t] + chunk' <= Len(Current(Owner(t)))
      /\ rx' = [rx EXCEPT ![Owner(t)] =
                  SubSeq(Current(Owner(t)), m_rcv_buf_len[t] + chunk' + 1, Len(Current(Owner(t))))]
      /\ \A k \in 0..(m_rcv_buf_len[t] + chunk' - 1) : m_rcv_buf'[t][k] = Current(Owner(t))[k + 1]
      /\ \A u \in Slots : u # t => m_rcv_buf'[u] = m_rcv_buf[u]
  <2>1. Offset = m_rcv_buf_len[t]
    BY <1>0, ArgumentSlot DEF Recv
  <2> QED
    BY <1>0, <2>1, RecvData
<1>4. s \in Serving /\ s \in Slots /\ pc # "exited"
  BY <1>1 DEF Serving, Active, InRecv
<1>5. CASE s # t
  <2>1. Owner(s) # Owner(t) /\ OneSlotData(s)
    BY <1>a, <1>2, <1>4, <1>5, ServingSlot DEF SlotData
  <2>2. rx'[Owner(s)] = rx[Owner(s)]
    BY <1>4, <1>3, <1>a, <2>1, ServingSlot DEF LengthsFit
  <2>3. Same(s) /\ TaskSame(s) /\ HandSame(s)
    BY <1>1, <1>3, <1>4, <1>5, <2>2 DEF Same, TaskSame, Queued, HandSame, InHand
  <2> QED
    BY <2>1, <2>3, KeepSlot
<1>6. CASE s = t
  <2>1. Owner(t)' = Owner(t) /\ Current(Owner(t))' = Current(Owner(t)) /\ InFlight(Owner(t))'
    BY <1>1, <1>3 DEF Owner, Current, InFlight
  <2>2. rx'[Owner(t)] = SubSeq(Current(Owner(t)), m_rcv_buf_len[t] + chunk' + 1, Len(Current(Owner(t))))
    BY <1>a, <1>2, <1>3 DEF LengthsFit
  <2>3. \A n : n = m_rcv_buf_len[t] + chunk' => Partial(t, n)'
    <3> SUFFICES ASSUME NEW n, n = m_rcv_buf_len[t] + chunk' PROVE Partial(t, n)'
      OBVIOUS
    <3>1. PICK c \in Clients : c = Owner(t)
      BY <1>2
    <3>2. n \in Nat
      BY <1>3
    <3>3. Owner(t)' = c /\ Current(c)' = Current(c) /\ InFlight(c)'
      BY <1>1, <1>3, <2>1, <3>1 DEF Current, InFlight
    <3>4. /\ n <= Len(Current(c)) /\ rx'[c] = SubSeq(Current(c), n + 1, Len(Current(c)))
          /\ \A k \in 0..(n - 1) : m_rcv_buf'[t][k] = Current(c)[k + 1]
      <4>1. n <= Len(Current(c))
        BY <1>3, <3>1
      <4>2. rx'[c] = SubSeq(Current(c), n + 1, Len(Current(c)))
        BY <2>2, <3>1
      <4>3. \A k \in 0..(n - 1) : m_rcv_buf'[t][k] = Current(c)[k + 1]
        BY <1>3, <3>1
      <4> QED
        BY <4>1, <4>2, <4>3
    <3> QED
      BY <3>3, <3>4 DEF Partial
  <2>4. m_rcv_buf_len[t] + chunk' > 0
    BY <1>3
  <2>5. HandData(t)'
    BY <1>1, <2>3, <2>4 DEF HandData, PartData, InArguments
  <2>6. ~Queued(t)' /\ (\A w \in Workers : running'[w] # t) /\ InHand(t)'
    BY <1>1, <1>2 DEF HasTask, Queued, InHand, InRecv
  <2> QED
    BY <1>6, <2>5, <2>6 DEF OneSlotData
<1> QED
  BY <1>5, <1>6

(* The rest of recvdata: the length, and the verdict of testpacket. *)
LEMMA SlotDataHand ==
  ASSUME LoopInv, EchoInv, PlainScript,
         \/ LoadLength \/ StoreLength \/ ReadHeader \/ TestComplete
         \/ TestOverlong \/ (AddToPool /\ Pool!Submit(cur))
  PROVE  SlotData'
<1>a. TypeOK /\ SlotData /\ CurrentSlot
  BY DEF LoopInv, EchoInv
<1>0. TestOverlong => Verdict # "DATA_ERROR" /\ UNCHANGED <<file, m_status>>
  BY HandVerdict DEF TestOverlong
<1>1. /\ InRecv /\ cur' = cur /\ chunk' = chunk
      /\ UNCHANGED <<m_fd, m_status, m_rcv_buf, file, running, wpc, wargs, rx, got, sent, eof>>
      /\ \A s : s # cur => (Queued(s)' <=> Queued(s))
      /\ m_rcv_buf_len' = IF pc = "store" THEN [m_rcv_buf_len EXCEPT ![cur] = loaded + chunk]
                          ELSE m_rcv_buf_len
  <2>1. CASE LoadLength
    BY <2>1 DEF LoadLength, InRecv, Queued, slotVars, kernelVars, poolVars, workerVars, clientVars
  <2>2. CASE StoreLength
    BY <2>2 DEF StoreLength, InRecv, Queued, recvVars, kernelVars, poolVars, workerVars, clientVars
  <2>3. CASE ReadHeader
    BY <2>3 DEF ReadHeader, InRecv, Queued, slotVars, kernelVars, poolVars, workerVars, clientVars
  <2>4. CASE TestComplete
    BY <2>4 DEF TestComplete, InRecv, Queued, slotVars, recvVars, kernelVars, poolVars, workerVars,
       clientVars
  <2>5. CASE TestOverlong
    BY <1>0, <2>5 DEF TestOverlong, InRecv, Queued, recvVars, poolVars, workerVars
  <2>6. CASE AddToPool /\ Pool!Submit(cur)
    BY <2>6, SubmitShape DEF AddToPool, InRecv, recvVars, workerVars
  <2> QED
    BY <2>1, <2>2, <2>3, <2>4, <2>5, <2>6
<1>2. cur \in Serving /\ cur \in Slots /\ InHand(cur) /\ pc # "exited" /\ ~HasTask(cur)
  <2>1. cur \in Serving /\ cur \in Slots /\ InHand(cur) /\ pc # "exited"
    BY <1>a, <1>1 DEF CurrentSlot, Serving, Active, InHand, InRecv
  <2> QED
    BY <2>1 DEF EchoInv, TasksApart
<1>3. ASSUME NEW s \in Serving', s # cur PROVE OneSlotData(s)'
  <2>1. s \in Serving /\ OneSlotData(s) /\ m_rcv_buf_len'[s] = m_rcv_buf_len[s]
    BY <1>a, <1>1, <1>2, <1>3 DEF Serving, Active, SlotData, TypeOK
  <2>2. Same(s) /\ TaskSame(s) /\ HandSame(s)
    BY <1>1, <1>3, <2>1 DEF Same, TaskSame, HandSame, InHand
  <2> QED
    BY <2>1, <2>2, KeepSlot
<1>4. OneSlotData(cur)'
  <2>1. HandData(cur)
    BY <1>a, <1>2 DEF SlotData, OneSlotData
  <2>2. \A n : Partial(cur, n)' <=> Partial(cur, n)
    BY <1>1 DEF Partial, InFlight, Current, Owner
  <2>3. Len(Current(Owner(cur)))' = Len(Current(Owner(cur))) /\ Owner(cur)' = Owner(cur)
    BY <1>1 DEF Current, Owner
  <2>4. \A w \in Workers : running'[w] # cur'
    BY <1>1, <1>2 DEF HasTask
  <2>5. m_rcv_buf_len[cur] \in Nat
    BY <1>a, <1>2 DEF TypeOK
  <2>6. ASSUME HandData(cur)', ~Queued(cur)', InHand(cur)' PROVE OneSlotData(cur)'
    BY <2>4, <2>6 DEF OneSlotData
  <2>7. CASE LoadLength
    <3>1. /\ pc = "load" /\ pc' = "store" /\ loaded' = m_rcv_buf_len[cur]
          /\ m_rcv_buf_len' = m_rcv_buf_len /\ pending' = pending
      BY <2>7 DEF LoadLength, slotVars, poolVars
    <3>2. HandData(cur)'
      BY <1>1, <2>1, <2>2, <3>1 DEF HandData, PartData, InArguments
    <3> QED
      BY <1>1, <1>2, <2>6, <3>1, <3>2 DEF InHand, InRecv, HasTask, Queued
  <2>8. CASE StoreLength
    <3>1. /\ pc = "store" /\ pc' = "header" /\ pending' = pending
          /\ m_rcv_buf_len'[cur] = loaded + chunk /\ loaded = m_rcv_buf_len[cur]
      BY <1>a, <1>2, <2>1, <2>8 DEF StoreLength, poolVars, HandData, PartData, InArguments, TypeOK
    <3>2. Partial(cur, m_rcv_buf_len'[cur]) /\ m_rcv_buf_len'[cur] > 0
      BY <2>1, <3>1 DEF HandData, PartData, InArguments
    <3>3. m_rcv_buf_len'[cur] + 0 = m_rcv_buf_len'[cur]
      <4>1. chunk \in Nat
        BY <1>a DEF TypeOK
      <4> QED
        BY <2>5, <3>1, <4>1
    <3>4. HandData(cur)'
      BY <1>1, <2>2, <3>1, <3>2, <3>3 DEF HandData, PartData, InArguments
    <3> QED
      BY <1>1, <1>2, <2>6, <3>1, <3>4 DEF InHand, InRecv, HasTask, Queued
  <2>9. CASE ReadHeader
    <3>1. /\ pc = "header" /\ pc' = "complete" /\ pending' = pending
          /\ header' = <<m_rcv_buf[cur][0], m_rcv_buf[cur][1]>> /\ m_rcv_buf_len' = m_rcv_buf_len
      BY <2>9 DEF ReadHeader, slotVars, poolVars
    <3>2. HandData(cur)'
      BY <1>1, <2>1, <2>2, <3>1 DEF HandData, PartData, InArguments
    <3> QED
      BY <1>1, <1>2, <2>6, <3>1, <3>2 DEF InHand, InRecv, HasTask, Queued
  <2>10. CASE TestComplete
    <3>1. /\ pc = "complete" /\ pending' = pending /\ header' = header
          /\ pc' = IF Verdict = "DATA_COMPLETE" THEN "add" ELSE "overlong"
          /\ m_rcv_buf_len' = m_rcv_buf_len
      BY <2>10 DEF TestComplete, slotVars, recvVars, poolVars
    <3>2. /\ Verdict = "DATA_COMPLETE" <=> m_rcv_buf_len[cur] = Len(Current(Owner(cur)))
          /\ m_rcv_buf_len[cur] <= Len(Current(Owner(cur)))
      BY <3>1, HandVerdict
    <3>3. Len(Current(Owner(cur))) \in Nat
      BY <1>2, <2>1, ServingSlot, CurrentPacket
         DEF HandData, PartData, InArguments, Partial, InFlight, LoopInv, EchoInv
    <3>4. /\ m_rcv_buf_len[cur] + 0 = m_rcv_buf_len[cur]
          /\ Verdict # "DATA_COMPLETE" => m_rcv_buf_len[cur] < Len(Current(Owner(cur)))
      BY <2>5, <3>2, <3>3
    <3>5. HandData(cur)'
      <4> DEFINE m == m_rcv_buf_len[cur]
      <4>1. /\ Partial(cur, m) /\ m > 0 /\ header = <<m_rcv_buf[cur][0], m_rcv_buf[cur][1]>>
        BY <2>1, <3>1, <3>4 DEF HandData, PartData, InArguments
      <4>2. pc' \in {"add", "overlong"} /\ (pc' = "add" => m = Len(Current(Owner(cur))))
            /\ (pc' = "overlong" => m < Len(Current(Owner(cur))))
        BY <3>1, <3>2, <3>4
      <4>3. m_rcv_buf_len'[cur] + 0 = m
        BY <3>1, <3>4
      <4> HIDE DEF m
      <4> QED
        BY <1>1, <2>2, <2>3, <3>1, <4>1, <4>2, <4>3 DEF HandData, PartData, InArguments
    <3> QED
      BY <1>1, <1>2, <2>6, <3>1, <3>5 DEF InHand, InRecv, HasTask, Queued
  <2>11. CASE TestOverlong
    <3>1. /\ pc = "overlong" /\ pc' \in {"wait", "dispatch"} /\ pending' = pending
          /\ m_rcv_buf_len' = m_rcv_buf_len
      BY <2>11 DEF TestOverlong, Done, poolVars
    <3>2. Partial(cur, m_rcv_buf_len[cur]) /\ m_rcv_buf_len[cur] < Len(Current(Owner(cur)))
      <4>1. m_rcv_buf_len[cur] + 0 = m_rcv_buf_len[cur]
        BY <2>5
      <4> QED
        BY <2>1, <3>1, <4>1 DEF HandData, PartData, InArguments
    <3>3. RestData(cur)'
      BY <1>1, <2>2, <2>3, <3>1, <3>2 DEF RestData
    <3> QED
      BY <1>1, <1>2, <2>4, <3>1, <3>3 DEF OneSlotData, InHand, InRecv, HasTask, Queued
  <2>12. CASE AddToPool /\ Pool!Submit(cur)
    <3>1. pc = "add" /\ pc' \in {"wait", "dispatch"} /\ m_rcv_buf_len' = m_rcv_buf_len
      BY <2>12 DEF AddToPool, Done
    <3>2. Whole(cur)
      <4>1. m_rcv_buf_len[cur] + 0 = m_rcv_buf_len[cur]
        BY <2>5
      <4> QED
        BY <2>1, <3>1, <4>1 DEF HandData, PartData, InArguments, Whole
    <3>3. Whole(cur)'
      BY <1>1, <2>2, <2>3, <3>1, <3>2 DEF Whole
    <3>4. Queued(cur)'
      BY <1>1, <2>12, SubmitShape
    <3> QED
      BY <1>1, <2>4, <3>1, <3>3, <3>4 DEF OneSlotData, InHand, InRecv, HasTask
  <2> QED
    BY <2>7, <2>8, <2>9, <2>10, <2>11, <2>12
<1> QED
  BY <1>1, <1>3, <1>4 DEF SlotData

-----------------------------------------------------------------------------
(* The data of the slots while the workers run mytask *)

(* The task of a worker is the only one of its slot. *)
LEMMA OwnTask ==
  ASSUME LoopInv, EchoInv, NEW w \in Workers, wpc[w] # "idle"
  PROVE  /\ ~Queued(running[w])
         /\ \A v \in Workers : running[v] = running[w] => v = w
BY RunningSlot DEF EchoInv, TasksOnce, Queued

(* mytask touches only its own slot and the client of it. *)
LEMMA OtherTasks ==
  ASSUME LoopInv, EchoInv, NEW w \in Workers, NEW r, r = running[w], wpc[w] # "idle",
         UNCHANGED <<m_fd, m_status, file, pc, cur, chunk, loaded, header, pending, rx, sent, eof>>,
         \A v \in Workers : v # w =>
           running'[v] = running[v] /\ wpc'[v] = wpc[v] /\ wargs'[v] = wargs[v],
         running'[w] \in {r, None},
         \A u \in Slots : u # r =>
           m_rcv_buf'[u] = m_rcv_buf[u] /\ m_rcv_buf_len'[u] = m_rcv_buf_len[u],
         \A c \in Clients : c # Owner(r) => got'[c] = got[c],
         NEW s \in Serving', s # r
  PROVE  OneSlotData(s)'
<1>1. r \in Serving /\ r # None /\ pc # "exited"
  BY RunningSlot
<1>2. s \in Serving
  BY DEF Serving, Active
<1>3. OneSlotData(s) /\ Owner(s) \in Clients /\ Owner(s) # Owner(r) /\ s \in Slots /\ s # None
  BY <1>1, <1>2, ServingSlot, LoopSizes DEF EchoInv, SlotData
<1>4. Same(s)
  BY <1>3 DEF Same
<1>5. TaskSame(s)
  BY <1>1, <1>3 DEF TaskSame, Queued
<1>6. HandSame(s)
  BY DEF HandSame
<1> QED
  BY <1>3, <1>4, <1>5, <1>6, KeepSlot

LEMMA SlotDataStart ==
  ASSUME LoopInv, EchoInv, NEW w \in Workers, StartTask(w)
  PROVE  SlotData'
<1> SUFFICES ASSUME pc' # "exited", NEW s \in Serving' PROVE OneSlotData(s)'
  BY DEF SlotData
<1>a. TypeOK /\ TasksOnce
  BY DEF LoopInv, EchoInv
<1>1. /\ pending \in Seq(Slots) /\ pending # <<>>
      /\ Head(pending) \in Slots /\ Queued(Head(pending))
      /\ running[w] = None /\ running' = [running EXCEPT ![w] = Head(pending)]
      /\ wpc' = [wpc EXCEPT ![w] = "args"]
      /\ UNCHANGED <<m_fd, m_status, m_rcv_buf, m_rcv_buf_len, file, pc, cur, chunk, loaded, header,
                     wargs, rx, got, sent, eof>>
      /\ \A x : Queued(x)' => Queued(x)
      /\ \A x : Queued(x) => Queued(x)' \/ x = Head(pending)
  BY StartShape DEF slotVars, kernelVars, recvVars, clientVars
<1>2. \A v \in Workers : /\ running'[v] = IF v = w THEN Head(pending) ELSE running[v]
                         /\ wpc'[v] = IF v = w THEN "args" ELSE wpc[v]
  BY <1>a, <1>1 DEF TypeOK
<1>3. s \in Serving /\ s \in Slots /\ s # None /\ OneSlotData(s) /\ pc # "exited" /\ Same(s)
  <2>1. s \in Serving /\ pc # "exited"
    BY <1>1 DEF Serving, Active
  <2> QED
    BY <1>1, <2>1, ServingSlot, LoopSizes DEF EchoInv, SlotData, Same
<1>4. CASE s # Head(pending)
  <2>1. TaskSame(s)
    BY <1>1, <1>2, <1>3, <1>4 DEF TaskSame
  <2>2. HandSame(s)
    BY <1>1 DEF HandSame
  <2> QED
    BY <1>3, <2>1, <2>2, KeepSlot
<1>5. CASE s = Head(pending)
  <2>1. Queued(s) /\ HasTask(s) /\ Whole(s)
    BY <1>1, <1>3, <1>5 DEF HasTask, OneSlotData
  <2>2. Whole(s)'
    BY <1>3, <2>1, SameData
  <2>3. ~InHand(s)'
    BY <1>1, <1>3, <2>1 DEF EchoInv, TasksApart, InHand, InRecv
  <2>4. running'[w] = s /\ wpc'[w] = "args"
    BY <1>2, <1>5
  <2>5. ASSUME NEW v \in Workers, running'[v] = s PROVE v = w
    BY <1>a, <1>2, <2>1, <2>5 DEF TasksOnce, Queued
  <2>6. TaskData(s, w)'
    BY <2>2, <2>4 DEF TaskData
  <2>7. HasTask(s)'
    BY <2>4 DEF HasTask
  <2> QED
    BY <2>2, <2>3, <2>5, <2>6, <2>7 DEF OneSlotData
<1> QED
  BY <1>4, <1>5

LEMMA SlotDataTask ==
  ASSUME LoopInv, EchoInv, NEW w \in Workers, MyTask(w)
  PROVE  SlotData'
<1> SUFFICES ASSUME pc' # "exited", NEW s \in Serving' PROVE OneSlotData(s)'
  BY DEF SlotData
<1>a. TypeOK /\ ClientsInv
  BY DEF LoopInv, EchoInv
<1>0. wpc[w] # "idle"
  BY DEF MyTask, SendArguments, SendReply, ResetLength, ClearHeader
<1>1. PICK r \in Slots : r = running[w]
  BY <1>0, RunningSlot
<1>2. /\ r \in Serving /\ r # None /\ pc # "exited" /\ ~InHand(r) /\ TaskData(r, w)
      /\ ~Queued(r) /\ \A v \in Workers : running[v] = r => v = w
      /\ Owner(r) \in Clients
  BY <1>0, <1>1, RunningSlot, OwnTask, ServingSlot
<1>3. /\ UNCHANGED <<m_fd, m_status, file, pc, cur, chunk, loaded, header, pending, rx, sent, eof>>
      /\ \A v \in Workers : v # w =>
           running'[v] = running[v] /\ wpc'[v] = wpc[v] /\ wargs'[v] = wargs[v]
      /\ running'[w] \in {r, None}
      /\ \A u \in Slots : u # r =>
           m_rcv_buf'[u] = m_rcv_buf[u] /\ m_rcv_buf_len'[u] = m_rcv_buf_len[u]
      /\ \A c \in Clients : c # Owner(r) => got'[c] = got[c]
  <2>1. CASE SendArguments(w)
    BY <1>a, <1>1, <2>1 DEF SendArguments, Goto, slotVars, kernelVars, recvVars, poolVars, clientVars,
       TypeOK
  <2>2. CASE SendReply(w)
    <3>1. wargs[w][1] = m_fd[r] /\ wpc[w] = "send"
      BY <1>1, <2>2, ReplyIsPacket DEF SendReply
    <3>2. got' = got \/ \E x : got' = [got EXCEPT ![Owner(r)] = x]
      BY <2>2, <3>1 DEF SendReply, Owner
    <3>3. \A c \in Clients : c # Owner(r) => got'[c] = got[c]
      BY <1>a, <3>2 DEF ClientsInv
    <3> QED
      BY <1>a, <1>1, <2>2, <3>3 DEF SendReply, Goto, slotVars, kernelVars, recvVars, poolVars, TypeOK
  <2>3. CASE ResetLength(w)
    BY <1>a, <1>1, <2>3 DEF ResetLength, Goto, kernelVars, recvVars, poolVars, clientVars, TypeOK
  <2>4. CASE ClearHeader(w)
    <3>1. /\ m_rcv_buf' = [m_rcv_buf EXCEPT ![r] = [@ EXCEPT ![0] = 0]]
          /\ running' = [running EXCEPT ![w] = None] /\ pending' = pending
          /\ wpc' = [wpc EXCEPT ![w] = "idle"]
      BY <1>1, <2>4 DEF ClearHeader, Goto, Pool!Finish
    <3>2. UNCHANGED <<m_fd, m_status, m_rcv_buf_len, file, pc, cur, chunk, loaded, header, wargs,
                      rx, got, sent, eof>>
      BY <2>4 DEF ClearHeader, kernelVars, recvVars, clientVars
    <3> QED
      BY <1>a, <3>1, <3>2 DEF TypeOK
  <2> QED
    BY <2>1, <2>2, <2>3, <2>4 DEF MyTask
<1>4. CASE s # r
  BY <1>0, <1>1, <1>3, <1>4, OtherTasks
<1>5. CASE s = r
  <2>0. /\ ~InHand(r)' /\ ~Queued(r)' /\ Owner(r)' = Owner(r)
        /\ \A v \in Workers : running'[v] = r => v = w
    BY <1>2, <1>3 DEF InHand, InRecv, Queued, Owner
  <2>a. ASSUME TaskData(r, w)', running'[w] = r PROVE OneSlotData(r)'
    BY <2>0, <2>a DEF OneSlotData, HasTask
  <2>1. CASE SendArguments(w)
    <3>1. wpc[w] = "args" /\ Whole(r)
      BY <1>2, <2>1 DEF SendArguments, TaskData
    <3>2. /\ wargs'[w] = <<m_fd[r], m_rcv_buf_len[r]>> /\ wpc'[w] = "send" /\ running' = running
          /\ UNCHANGED <<m_fd, file, m_rcv_buf, m_rcv_buf_len, rx, got, sent>>
      BY <1>a, <1>1, <2>1 DEF SendArguments, Goto, ReplyLength, slotVars, kernelVars, clientVars,
         poolVars, TypeOK
    <3>3. Whole(r)'
      <4>1. Same(r)
        BY <3>2 DEF Same
      <4> QED
        BY <3>1, <4>1, SameData
    <3>4. TaskData(r, w)'
      BY <3>2, <3>3 DEF TaskData
    <3> QED
      BY <1>1, <1>5, <2>a, <3>2, <3>4
  <2>2. CASE SendReply(w)
    <3>1. /\ wpc[w] = "send" /\ wpc'[w] = "reset" /\ running' = running
      BY <1>a, <2>2 DEF SendReply, Goto, poolVars, TypeOK
    <3>2. rx[Owner(r)] = <<>> /\ InFlight(Owner(r))
      BY <1>1, <3>1, ReplyIsPacket
    <3>3. ~eof[Owner(r)]
      BY <1>a, <1>2, <3>2 DEF ClientsInv
    <3>4. TaskData(r, w)'
      BY <1>3, <2>0, <3>1, <3>2, <3>3 DEF TaskData
    <3> QED
      BY <1>1, <1>5, <2>a, <3>1, <3>4
  <2>3. CASE ResetLength(w)
    <3>1. /\ wpc[w] = "reset" /\ wpc'[w] = "clear" /\ running' = running /\ m_rcv_buf_len'[r] = 0
      BY <1>a, <1>1, <2>3 DEF ResetLength, Goto, LengthAfter, poolVars, TypeOK
    <3>2. TaskData(r, w)'
      BY <1>2, <1>3, <2>0, <3>1 DEF TaskData
    <3> QED
      BY <1>1, <1>5, <2>a, <3>1, <3>2
  <2>4. CASE ClearHeader(w)
    <3>1. wpc[w] = "clear" /\ running'[w] = None /\ m_rcv_buf_len' = m_rcv_buf_len
      BY <1>a, <2>4 DEF ClearHeader, Pool!Finish, TypeOK
    <3>2. RestData(r)'
      BY <1>2, <1>3, <2>0, <3>1 DEF TaskData, RestData
    <3>3. \A v \in Workers : running'[v] # r
      BY <1>2, <2>0, <3>1
    <3> QED
      BY <1>5, <2>0, <3>2, <3>3 DEF OneSlotData
  <2> QED
    BY <2>1, <2>2, <2>3, <2>4 DEF MyTask
<1> QED
  BY <1>4, <1>5

(* A new packet starts in an empty slot. *)
LEMMA SlotDataSend ==
  ASSUME LoopInv, EchoInv, Habit = "patient", NEW c \in Clients, SendPacket(c)
  PROVE  SlotData'
<1> SUFFICES ASSUME pc' # "exited", NEW s \in Serving' PROVE OneSlotData(s)'
  BY DEF SlotData
<1>1. /\ Settled(c) /\ ~InFlight(c) /\ InFlight(c)'
      /\ Current(c)' \in Seq(Bytes) /\ Len(Current(c)') \in Nat /\ Len(Current(c)') >= 2
      /\ rx' = [rx EXCEPT ![c] = @ \o Current(c)']
      /\ \A d \in Clients : d # c => sent'[d] = sent[d] /\ rx'[d] = rx[d]
      /\ UNCHANGED <<m_fd, m_status, m_rcv_buf, m_rcv_buf_len, file, pc, cur, chunk, loaded, header,
                     pending, running, wpc, wargs, eof, got>>
  BY PacketSent DEF slotVars, kernelVars, recvVars, poolVars, workerVars
<1>2. s \in Serving /\ pc # "exited"
  BY <1>1 DEF Serving, Active
<1>3. Owner(s) \in Clients /\ OneSlotData(s)
  BY <1>2, ServingSlot DEF EchoInv, SlotData
<1>4. CASE Owner(s) # c
  <2>1. Same(s) /\ TaskSame(s) /\ HandSame(s)
    BY <1>1, <1>3, <1>4 DEF Same, TaskSame, HandSame, Queued
  <2> QED
    BY <1>3, <2>1, KeepSlot
<1>5. CASE Owner(s) = c
  <2>1. ~HasTask(s)
    BY <1>1, <1>2, <1>5, SettledSlot
  <2>2. InHand(s) => InArguments /\ RestData(s) /\ loaded = m_rcv_buf_len[s]
    BY <1>1, <1>3, <1>5 DEF OneSlotData, HandData, PartData, Partial
  <2>3. m_rcv_buf_len[s] = 0 /\ rx[c] = <<>>
    BY <1>1, <1>3, <1>5, <2>1, <2>2 DEF OneSlotData, RestData, Partial
  <2>4. Owner(s)' = c /\ m_rcv_buf_len'[s] = 0
    BY <1>1, <1>5, <2>3 DEF Owner
  <2>5. rx'[c] = SubSeq(Current(c)', 0 + 1, Len(Current(c)'))
    <3>1. rx'[c] = <<>> \o Current(c)'
      BY <1>1, <2>3 DEF LoopInv, LengthsFit
    <3>2. <<>> \o Current(c)' = Current(c)'
      BY <1>1, ConcatEmptySeq
    <3>3. SubSeq(Current(c)', 1, Len(Current(c)')) = Current(c)'
      BY <1>1, SubSeqFull
    <3> QED
      BY <3>1, <3>2, <3>3
  <2>6. Partial(s, 0)'
    <3>1. 0 <= Len(Current(c)') /\ 0..(0 - 1) = {}
      BY <1>1
    <3> QED
      BY <1>1, <2>4, <2>5, <3>1 DEF Partial
  <2>7. RestData(s)'
    <3>1. 0 < Len(Current(c)')
      BY <1>1
    <3> QED
      BY <2>4, <2>6, <3>1 DEF RestData
  <2>8. ~Queued(s)' /\ \A w \in Workers : running'[w] # s
    BY <1>1, <2>1 DEF HasTask, Queued
  <2>9. InHand(s)' => HandData(s)'
    BY <1>1, <2>2, <2>7 DEF InHand, InRecv, InArguments, HandData
  <2> QED
    BY <2>7, <2>8, <2>9 DEF OneSlotData
<1> QED
  BY <1>4, <1>5

-----------------------------------------------------------------------------
(* The data invariant *)

LEMMA EchoInvInit == Init => EchoInv
<1> SUFFICES ASSUME Init PROVE EchoInv
  OBVIOUS
<1>0. LoopInv /\ pending = <<>> /\ pc = "wait" /\ Active = {Listener}
  BY LoopInvInit, LoopSizes DEF Init, Pool!Init, Active
<1>a. TypeOK /\ DOMAIN pending = {} /\ Serving = {}
  BY <1>0 DEF LoopInv, Serving
<1>1. \A c \in Clients :
        Idle(c) /\ ~InFlight(c) /\ got[c] = <<>> /\ sent[c] = 0 /\ rx[c] = <<>> /\ ~eof[c]
  <2> SUFFICES ASSUME NEW c \in Clients
               PROVE  Idle(c) /\ ~InFlight(c) /\ got[c] = <<>> /\ sent[c] = 0 /\ rx[c] = <<>> /\ ~eof[c]
    OBVIOUS
  <2>1. got[c] = <<>> /\ sent[c] = 0 /\ rx[c] = <<>> /\ ~eof[c]
    BY DEF Init
  <2>2. 0 \in 0..Len(Script[c])
    BY ScriptTypes
  <2>3. SentBytes(c, 0) = <<>>
    BY <2>2, SentGrows
  <2> QED
    BY <2>1, <2>3 DEF Idle, InFlight
<1>2. ClientsInv
  <2>1. got \in [Clients -> Seq(Bytes)]
    BY EmptySeq DEF Init
  <2>2. \A c \in Clients : 0 <= Len(Script[c])
    BY ScriptTypes
  <2> QED
    BY <1>1, <2>1, <2>2 DEF ClientsInv
<1>3. \A w \in Workers : running[w] = None /\ wpc[w] = "idle"
  BY DEF Init, Pool!Init
<1>4. TasksOnce
  BY <1>a, <1>3 DEF TasksOnce
<1>5. TasksApart
  BY <1>a, <1>3, LoopSizes DEF TasksApart, HasTask, Queued
<1>6. PoolClosed
  BY <1>0 DEF PoolClosed
<1>7. SlotsClean
  <2>1. 1 \in 0..(BufSize - 1)
    BY LoopSizes
  <2> QED
    BY <1>0, <2>1 DEF Init, SlotsClean
<1>8. UnservedData
  BY <1>1 DEF UnservedData
<1>9. SlotData
  BY <1>a DEF SlotData
<1> QED
  BY <1>0, <1>2, <1>4, <1>5, <1>6, <1>7, <1>8, <1>9 DEF EchoInv, Defined

LEMMA SlotDataNext ==
  ASSUME LoopInv, EchoInv, Habit = "patient", PlainScript, [Next]_vars
  PROVE  SlotData'
<1>1. CASE Main
  <2>1. ASSUME NEW s \in Slots,
               AcceptFails(s) \/ AcceptDropped(s) \/ AcceptConnect(s) \/ ReadLength(s)
        PROVE  SlotData'
    BY <2>1, SlotDataStructure, SlotDataRead
  <2>2. CASE Recv \/ Overrun
    BY <2>2, SlotDataRecv, NoOverrun
  <2>3. CASE RecvEnds \/ (AddToPool /\ ~Pool!Submit(cur))
    <3>1. cur \in Slots /\ Drops(cur)
      BY <2>3 DEF Drops, LoopInv, TypeOK
    <3> QED
      BY <3>1, SlotDataStructure
  <2>4. CASE \/ LoadLength \/ StoreLength \/ ReadHeader \/ TestComplete
             \/ TestOverlong \/ (AddToPool /\ Pool!Submit(cur))
    BY <2>4, SlotDataHand
  <2> QED
    BY <1>1, <2>1, <2>2, <2>3, <2>4, SlotDataStructure, SlotDataRegister DEF Main
<1>2. ASSUME NEW w \in Workers, StartTask(w) \/ MyTask(w) PROVE SlotData'
  BY <1>2, SlotDataStart, SlotDataTask
<1>3. ASSUME NEW c \in Clients, Client(c) PROVE SlotData'
  BY <1>3, SlotDataStructure, SlotDataSend DEF Client
<1>4. CASE UNCHANGED vars
  BY <1>4, SlotDataStructure
<1> QED
  BY <1>1, <1>2, <1>3, <1>4 DEF Next

(* EchoInv is inductive over LoopInv: the bytes of the packet in flight are *)
(* either in the slot of their connection, in order, or still to be         *)
(* received, and no task and no callback ever share a slot.                 *)
THEOREM EchoInvariant ==
  ASSUME Habit = "patient", PlainScript
  PROVE  Spec => []EchoInv
<1>1. LoopInv /\ EchoInv /\ [Next]_vars => EchoInv'
  BY DefinedNext, ClientsInvNext, TasksOnceNext, TasksApartNext, PoolClosedNext, SlotsCleanNext,
     UnservedDataNext, SlotDataNext DEF EchoInv
<1> QED
  BY <1>1, EchoInvInit, LoopInvariant, PTL DEF Spec

(* recv can write beyond m_rcv_buf only when a client does not wait for the  *)
(* server to be done with its last packet, and then only after a worker has *)
(* reset the length that was read for the offset, before the size is        *)
(* computed from it: no packet is too long, and the two steps of += are      *)
(* harmless.  Of clients that wait the packets must have plain header bytes. *)
THEOREM BufferIsKept ==
  ASSUME Habit = "patient" => PlainScript
  PROVE  Spec => []BufferKept
<1>1. CASE Habit = "patient"
  <2>1. Spec => []EchoInv
    BY <1>1, EchoInvariant
  <2>2. EchoInv => BufferKept
    BY DEF EchoInv, Defined, BufferKept
  <2> QED
    BY <2>1, <2>2, PTL
<1>2. CASE Habit # "patient"
  <2>1. LoopInv => BufferKept
    BY <1>2 DEF LoopInv, LengthsFit, BufferKept
  <2> QED
    BY <2>1, LoopInvariant, PTL
<1> QED
  BY <1>1, <1>2

(* What a patient client receives is what it sent, in order, nothing else,  *)
(* for every number of clients, slots and workers, every buffer and every   *)
(* script of plain header bytes, whatever calls fail and whoever else is    *)
(* connected, refused or dropped in between.                                *)
THEOREM PatientEcho ==
  ASSUME Habit = "patient", PlainScript
  PROVE  Spec => []EchoCorrect
<1>1. LoopInv /\ EchoInv => EchoCorrect
  <2> SUFFICES ASSUME LoopInv, EchoInv, NEW c \in Clients
               PROVE  IsPrefix(got[c], SentBytes(c, sent[c]))
    BY DEF EchoCorrect
  <2>0. TypeOK /\ ClientsInv
    BY DEF LoopInv, EchoInv
  <2>1. got[c] \in Seq(Bytes) /\ Len(got[c]) \in Nat
    BY <2>0, CurrentPacket, LenProperties
  <2>2. CASE Idle(c)
    BY <2>1, <2>2 DEF Idle, IsPrefix
  <2>3. CASE InFlight(c)
    <3>1. /\ Current(c) \in Seq(Bytes) /\ Len(Current(c)) \in Nat
          /\ SentBytes(c, sent[c]) = got[c] \o Current(c)
          /\ Len(SentBytes(c, sent[c])) = Len(got[c]) + Len(Current(c))
      BY <2>0, <2>3, CurrentPacket DEF InFlight
    <3>2. Len(got[c]) <= Len(SentBytes(c, sent[c]))
      BY <2>1, <3>1
    <3>3. SubSeq(got[c] \o Current(c), 1, Len(got[c])) = SubSeq(got[c], 1, Len(got[c]))
      <4>1. CASE Len(got[c]) = 0
        <5>1. Len(got[c]) < 1 /\ 1 \in Int /\ Len(got[c]) \in Int
          BY <4>1
        <5> QED
          BY <5>1, SubSeqEmpty
      <4>2. CASE Len(got[c]) # 0
        <5>1. 1 \in 1..Len(got[c]) /\ Len(got[c]) \in 1..Len(got[c])
          BY <2>1, <4>2
        <5> QED
          BY <2>1, <3>1, <5>1, SubSeqOfConcat1
      <4> QED
        BY <4>1, <4>2
    <3> QED
      BY <3>1, <3>2, <3>3 DEF IsPrefix
  <2> QED
    BY <2>0, <2>2, <2>3 DEF ClientsInv
<1> QED
  BY <1>1, EchoInvariant, LoopInvariant, PTL

(* task.c calls DATA_ERROR wrong data: plain well-formed packets, each sent *)
(* after the answer to the one before, never get that verdict.              *)
THEOREM PlainDataAccepted ==
  ASSUME Habit = "patient", PlainScript
  PROVE  Spec => []ErrorMeansBadData
<1>1. LoopInv /\ EchoInv => ErrorMeansBadData
  BY HandVerdict DEF ErrorMeansBadData
<1> QED
  BY <1>1, EchoInvariant, LoopInvariant, PTL

(* When its packets fit in the buffer, a patient client is only dropped when *)
(* it has closed, when the pool's queue is full, at accept when every slot   *)
(* is in use, or when the server ends: never because of what it sent.        *)
THEOREM PatientDrops ==
  ASSUME Habit = "patient", PlainScript, "recv" \notin Faults, "fcntl" \notin Faults,
         \A c \in Clients : \A k \in DOMAIN Script[c] : Len(Script[c][k]) <= BufSize
  PROVE  Spec => DropsOnlyForCause
<1> DEFINE Cause(c) == \/ eof[c] \/ pc = "ended"
                       \/ pc = "add" /\ Len(pending) = QueueSize
                       \/ pc = "dispatch" /\ FreeSlots = {} /\ c = Head(backlog)
           Fair     == \A c \in Clients : conn[c] = "open" /\ conn'[c] = "closed" => Cause(c)
<1>1. LoopInv /\ EchoInv /\ [Next]_vars => [Fair]_vars
  <2> SUFFICES ASSUME LoopInv, EchoInv, [Next]_vars, NEW c \in Clients,
                      conn[c] = "open", conn'[c] = "closed"
               PROVE  Cause(c)
    OBVIOUS
  <2>a. TypeOK
    BY DEF LoopInv
  <2>1. CASE Exit
    BY <2>1 DEF Exit
  <2>2. ASSUME NEW s \in Slots, AcceptDropped(s) PROVE Cause(c)
    <3>1. /\ pc = "dispatch" /\ FreeSlots = {}
          /\ conn' = [conn EXCEPT ![Head(backlog)] = "closed"]
      BY <2>2 DEF AcceptDropped, Event
    <3>2. c = Head(backlog)
      BY <2>a, <3>1 DEF TypeOK
    <3> QED
      BY <3>1, <3>2
  <2>3. ASSUME NEW s \in Slots, Drops(s) PROVE Cause(c)
    <3>1. c = Owner(s)
      <4>1. conn' = [conn EXCEPT ![Owner(s)] = "closed"]
        BY <2>3, DropShape DEF Owner
      <4> QED
        BY <2>a, <4>1 DEF TypeOK
    <3>2. CASE s = cur /\ RecvEnds
      <4>1. /\ m_rcv_buf_len[s] = BufSize \/ (rx[c] = <<>> /\ eof[c])
            /\ RestData(s)
        <5>1. /\ InArguments /\ (Room = 0 \/ (rx[c] = <<>> /\ eof[c]))
          BY <3>1, <3>2 DEF RecvEnds, Input, Owner
        <5>2. /\ Room = BufSize - m_rcv_buf_len[s] /\ RestData(s)
              /\ m_rcv_buf_len[s] \in Nat /\ BufSize \in Nat
          BY <2>a, <3>2, <5>1, ArgumentSlot, LoopSizes DEF TypeOK
        <5> QED
          BY <5>1, <5>2
      <4>2. ASSUME Partial(s, m_rcv_buf_len[s]), m_rcv_buf_len[s] < Len(Current(c))
            PROVE  m_rcv_buf_len[s] < BufSize
        <5>1. sent[c] \in 1..Len(Script[c])
          BY <2>a, <3>1, <4>2, CurrentPacket DEF Partial, InFlight, EchoInv
        <5>2. Len(Current(c)) <= BufSize /\ Len(Current(c)) \in Nat /\ BufSize \in Nat
          <6>1. sent[c] \in DOMAIN Script[c]
            BY <5>1, ScriptTypes, LenProperties
          <6> QED
            BY <5>1, <6>1, ScriptTypes, LoopSizes DEF Current
        <5>3. m_rcv_buf_len[s] \in Nat
          BY <2>a DEF TypeOK
        <5> QED
          BY <4>2, <5>2, <5>3
      <4>3. m_rcv_buf_len[s] # BufSize
        <5>1. CASE m_rcv_buf_len[s] = 0
          BY <5>1, LoopSizes
        <5>2. CASE m_rcv_buf_len[s] < BufSize
          BY <2>a, <5>2 DEF TypeOK
        <5> QED
          BY <3>1, <4>1, <4>2, <5>1, <5>2 DEF RestData
      <4> QED
        BY <4>1, <4>3
    <3>3. CASE s = cur /\ TestOverlong /\ Verdict = "DATA_ERROR"
      BY <3>3, HandVerdict DEF TestOverlong
    <3>4. CASE s = cur /\ AddToPool /\ ~Pool!Submit(cur)
      BY <3>4 DEF AddToPool
    <3> QED
      BY <2>3, <3>2, <3>3, <3>4 DEF Drops
  <2>4. CASE \/ Wait \/ Register \/ Quiet
             \/ \E s \in Slots : AcceptConnect(s) \/ ReadLength(s)
    <3>1. conn' = conn
      BY <2>4 DEF Wait, Register, Quiet, StructVars, AcceptConnect, ReadLength, clientVars
    <3> QED
      BY <3>1
  <2>5. ASSUME NEW d \in Clients, Connect(d) PROVE Cause(c)
    BY <2>a, <2>5 DEF Connect, TypeOK
  <2> QED
    BY <2>1, <2>2, <2>3, <2>4, <2>5, StepKinds
<1>2. LoopInv /\ EchoInv /\ [Next]_vars =>
        [\A c \in Clients : conn[c] = "open" /\ conn'[c] = "closed" =>
           \/ eof[c] \/ pc = "ended"
           \/ pc = "add" /\ Len(pending) = QueueSize
           \/ pc = "dispatch" /\ FreeSlots = {} /\ c = Head(backlog)]_vars
  BY <1>1
<1> HIDE DEF Fair
<1> QED
  BY <1>2, EchoInvariant, LoopInvariant, PTL DEF Spec, DropsOnlyForCause

=============================================================================
