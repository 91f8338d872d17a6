---------------------------- MODULE SocketsProofs ----------------------------
(***************************************************************************)
(* No descriptor is lost, and a server keeps those it needs, for any number  *)
(* of processes, any limit of open files and any number of calls, faults and *)
(* kills.                                                                    *)
(***************************************************************************)
EXTENDS ServerStart, SequenceTheorems, TLAPS

Ops == {"socket", "setsockopt", "bind", "listen", "bind any", "connect", "sendto", "close"}

Slot == [kind : {"closed", "socket", "inherited", "epoll", "log"}, done : SUBSET Ops]

FdType ==
  /\ fds \in [Procs -> [0..MaxFd -> Slot]]
  /\ todo \in [Procs -> Seq(Ops)]
  /\ sock \in [Procs -> (0..MaxFd) \cup {-1}]
  /\ held \in [Procs -> SUBSET (0..MaxFd)]

(* socket comes first or not at all any more, and close last. *)
Ordered(steps, fresh) ==
  \A k \in 1..Len(steps) :
    /\ steps[k] = "socket" <=> k = 1 /\ fresh
    /\ steps[k] = "close" => k = Len(steps)

StepsInv == \A p \in Procs : Ordered(todo[p], sock[p] = -1)

HasSocket(p) == Busy(p) /\ sock[p] # -1

(* During a call there is one more descriptor than the process holds: the    *)
(* one its function works on.                                                *)
OpenInv ==
  \A p \in Procs :
    /\ ~HasSocket(p) => Open(fds[p]) = held[p]
    /\ HasSocket(p) => sock[p] \notin held[p] /\ Open(fds[p]) = held[p] \cup {sock[p]}

DescriptorInv == FdType /\ StepsInv /\ OpenInv

-----------------------------------------------------------------------------
(* The three functions call socket first and close last. *)
LEMMA SequencesOrdered ==
  ASSUME NEW udp \in BOOLEAN, NEW s \in {getSrvSocket(udp), getCliSocket(udp), sendtoUdpSrv}
  PROVE  s \in Seq(Ops) /\ Ordered(s, TRUE)
<1>1. /\ "socket" \in Ops /\ "setsockopt" \in Ops /\ "bind" \in Ops /\ "listen" \in Ops
      /\ "bind any" \in Ops /\ "connect" \in Ops /\ "sendto" \in Ops /\ "close" \in Ops
  BY DEF Ops
<1>2. \A w, x \in Ops : <<w, x>> \in Seq(Ops) /\ Len(<<w, x>>) = 2
  OBVIOUS
<1>3. \A w, x, y \in Ops : <<w, x, y>> \in Seq(Ops) /\ Len(<<w, x, y>>) = 3
  OBVIOUS
<1>4. \A w, x, y, z \in Ops : <<w, x, y, z>> \in Seq(Ops) /\ Len(<<w, x, y, z>>) = 4
  OBVIOUS
<1>5. CASE s = <<"socket", "connect">>
  <2>1. s \in Seq(Ops) /\ Len(s) = 2 /\ s[1] = "socket" /\ s[2] = "connect"
    BY <1>1, <1>2, <1>5
  <2>2. \A k \in 1..2 : k = 1 \/ k = 2
    OBVIOUS
  <2> QED
    BY <2>1, <2>2 DEF Ordered
<1>6. CASE s = <<"socket", "bind any", "connect">>
  <2>1. s \in Seq(Ops) /\ Len(s) = 3
    BY <1>1, <1>3, <1>6
  <2>2. s[1] = "socket" /\ s[2] = "bind any" /\ s[3] = "connect"
    BY <1>6
  <2>3. \A k \in 1..3 : k = 1 \/ k = 2 \/ k = 3
    OBVIOUS
  <2> QED
    BY <2>1, <2>2, <2>3 DEF Ordered
<1>7. CASE s = <<"socket", "setsockopt", "bind">>
  <2>1. s \in Seq(Ops) /\ Len(s) = 3
    BY <1>1, <1>3, <1>7
  <2>2. s[1] = "socket" /\ s[2] = "setsockopt" /\ s[3] = "bind"
    BY <1>7
  <2>3. \A k \in 1..3 : k = 1 \/ k = 2 \/ k = 3
    OBVIOUS
  <2> QED
    BY <2>1, <2>2, <2>3 DEF Ordered
<1>8. CASE s = <<"socket", "setsockopt", "bind", "listen">>
  <2>1. s \in Seq(Ops) /\ Len(s) = 4
    BY <1>1, <1>4, <1>8
  <2>2. s[1] = "socket" /\ s[2] = "setsockopt" /\ s[3] = "bind" /\ s[4] = "listen"
    BY <1>8
  <2>3. \A k \in 1..4 : k = 1 \/ k = 2 \/ k = 3 \/ k = 4
    OBVIOUS
  <2> QED
    BY <2>1, <2>2, <2>3 DEF Ordered
<1>9. CASE s = <<"socket", "bind any", "sendto", "close">>
  <2>1. s \in Seq(Ops) /\ Len(s) = 4
    BY <1>1, <1>4, <1>9
  <2>2. s[1] = "socket" /\ s[2] = "bind any" /\ s[3] = "sendto" /\ s[4] = "close"
    BY <1>9
  <2>3. \A k \in 1..4 : k = 1 \/ k = 2 \/ k = 3 \/ k = 4
    OBVIOUS
  <2> QED
    BY <2>1, <2>2, <2>3 DEF Ordered
<1> QED
  BY <1>5, <1>6, <1>7, <1>8, <1>9 DEF getSrvSocket, getCliSocket, sendtoUdpSrv

(* What is left of a sequence after its first call. *)
LEMMA TailOrdered ==
  ASSUME NEW s \in Seq(Ops), s # <<>>, NEW fresh \in BOOLEAN, Ordered(s, fresh)
  PROVE  /\ Head(s) \in Ops /\ Tail(s) \in Seq(Ops)
         /\ Head(s) = "socket" <=> fresh
         /\ Head(s) = "close" => Len(s) = 1
         /\ Ordered(Tail(s), FALSE)
         /\ Tail(s) = <<>> <=> Len(s) = 1
<1>1. Len(s) \in Nat /\ Len(s) >= 1 /\ 1 \in 1..Len(s) /\ Head(s) = s[1]
  OBVIOUS
<1>2. Len(Tail(s)) = Len(s) - 1 /\ Tail(s) \in Seq(Ops)
  OBVIOUS
<1>3. ASSUME NEW k \in 1..Len(Tail(s))
      PROVE  Tail(s)[k] # "socket" /\ (Tail(s)[k] = "close" => k = Len(Tail(s)))
  <2>1. Tail(s)[k] = s[k + 1]
    BY <1>1, <1>2
  <2>2. k \in Int /\ Len(s) \in Int /\ k + 1 \in 1..Len(s) /\ k + 1 # 1
    BY <1>1, <1>2
  <2>3. s[k + 1] # "socket"
    BY <2>2 DEF Ordered
  <2>4. s[k + 1] = "close" => k + 1 = Len(s)
    BY <2>2 DEF Ordered
  <2>5. \A j, n \in Int : j + 1 = n => j = n - 1
    OBVIOUS
  <2>6. k + 1 = Len(s) => k = Len(s) - 1
    BY <2>2, <2>5, Zenon
  <2> QED
    BY <1>2, <2>1, <2>3, <2>4, <2>6, Zenon
<1>4. Ordered(Tail(s), FALSE)
  BY <1>3 DEF Ordered
<1>5. Tail(s) = <<>> => Len(s) = 1
  BY <1>1, <1>2
<1>6. Len(s) = 1 => Tail(s) = <<>>
  <2>1. Len(s) = 1 => Len(Tail(s)) = 0
    BY <1>2
  <2>2. \A t \in Seq(Ops) : t # <<>> => Len(t) \in Nat \ {0}
    BY EmptySeq
  <2> QED
    BY <1>2, <2>1, <2>2
<1>7. /\ s[1] = "socket" <=> 1 = 1 /\ fresh
      /\ s[1] = "close" => 1 = Len(s)
  BY <1>1 DEF Ordered
<1>8. Head(s) \in Ops
  BY <1>1
<1>9. Head(s) = "socket" <=> fresh
  BY <1>1, <1>7
<1>10. Head(s) = "close" => Len(s) = 1
  BY <1>1, <1>7
<1> QED
  BY <1>2, <1>4, <1>5, <1>6, <1>8, <1>9, <1>10

LEMMA LowestFreeIsFree ==
  ASSUME NEW table, NEW n \in LowestFree(table)
  PROVE  n \in 0..MaxFd /\ n \notin Open(table)
BY DEF LowestFree

-----------------------------------------------------------------------------
LEMMA DescriptorInit == SocketsInit => DescriptorInv
<1> SUFFICES ASSUME SocketsInit PROVE DescriptorInv
  OBVIOUS
<1> USE DEF SocketsInit
<1>1. \A open : Table(open) \in [0..MaxFd -> Slot]
  BY DEF Table, Object, Closed, Slot
<1>2. FdType
  BY <1>1 DEF FdType
<1>3. \A p \in Procs : Open(fds[p]) = held[p]
  BY DEF Open, Table, Object, Closed
<1>4. StepsInv /\ \A p \in Procs : ~HasSocket(p)
  BY DEF StepsInv, Ordered, HasSocket, Busy
<1> QED
  BY <1>2, <1>3, <1>4 DEF DescriptorInv, OpenInv

LEMMA DescriptorBeginCall ==
  ASSUME DescriptorInv, NEW p \in Procs, NEW steps \in Seq(Ops), Ordered(steps, TRUE),
         BeginCall(p, steps), fds' = fds, held' = held
  PROVE  DescriptorInv'
<1>1. todo' = [todo EXCEPT ![p] = steps] /\ sock' = [sock EXCEPT ![p] = -1] /\ ~Busy(p)
  BY DEF BeginCall
<1>2. FdType'
  BY <1>1 DEF DescriptorInv, FdType
<1>3. StepsInv'
  BY <1>1 DEF DescriptorInv, FdType, StepsInv
<1>4. \A q \in Procs : q # p => (HasSocket(q)' <=> HasSocket(q)) /\ sock'[q] = sock[q]
  BY <1>1 DEF DescriptorInv, FdType, HasSocket, Busy
<1>5. ~HasSocket(p) /\ ~HasSocket(p)'
  BY <1>1 DEF DescriptorInv, FdType, HasSocket
<1>6. OpenInv'
  BY <1>1, <1>4, <1>5 DEF DescriptorInv, OpenInv
<1> QED
  BY <1>2, <1>3, <1>6 DEF DescriptorInv

LEMMA DescriptorAsk ==
  ASSUME DescriptorInv, NEW p \in Procs, Ask(p)
  PROVE  DescriptorInv'
<1>1. PICK steps \in Seq(Ops) : Ordered(steps, TRUE) /\ BeginCall(p, steps)
  BY SequencesOrdered DEF Ask
<1> QED
  BY <1>1, DescriptorBeginCall DEF Ask

(* A step that changes one entry of one table opens or closes that one only. *)
LEMMA OneEntry ==
  ASSUME FdType, NEW p \in Procs, NEW n \in 0..MaxFd, NEW slot \in Slot,
         fds' = [fds EXCEPT ![p][n] = slot]
  PROVE  /\ fds' \in [Procs -> [0..MaxFd -> Slot]]
         /\ \A q \in Procs : q # p => fds'[q] = fds[q]
         /\ slot.kind = "closed" => Open(fds'[p]) = Open(fds[p]) \ {n}
         /\ slot.kind # "closed" => Open(fds'[p]) = Open(fds[p]) \cup {n}
BY DEF FdType, Open

LEMMA DescriptorSystemCall ==
  ASSUME DescriptorInv, NEW p \in Procs, SystemCall(p)
  PROVE  DescriptorInv'
<1> DEFINE op == Head(todo[p])
<1>1. PICK s \in Target(p) :
        /\ sock' = [sock EXCEPT ![p] = s]
        /\ fds' = [fds EXCEPT ![p][s] = After(p, s)]
        /\ held' = [held EXCEPT ![p] = IF Delivers(p) THEN @ \cup {s} ELSE @]
  BY DEF SystemCall
<1>2. todo' = [todo EXCEPT ![p] = Tail(@)] /\ todo[p] # <<>> /\ todo[p] \in Seq(Ops)
  BY DEF SystemCall, Busy, DescriptorInv, FdType
<1>3. Ordered(todo[p], sock[p] = -1)
  BY DEF DescriptorInv, StepsInv
<1>4. /\ op \in Ops /\ Tail(todo[p]) \in Seq(Ops) /\ Ordered(Tail(todo[p]), FALSE)
      /\ op = "socket" <=> sock[p] = -1
      /\ op = "close" => Len(todo[p]) = 1
      /\ Tail(todo[p]) = <<>> <=> Len(todo[p]) = 1
  BY <1>2, <1>3, TailOrdered
<1>5. s \in 0..MaxFd /\ (op = "socket" => s \notin Open(fds[p])) /\ (op # "socket" => s = sock[p])
  BY <1>4, LowestFreeIsFree DEF Target, DescriptorInv, FdType
<1>6. /\ After(p, s) \in Slot
      /\ op = "close" <=> After(p, s).kind = "closed"
  <2>1. CASE op = "socket"
    BY <2>1 DEF After, Object, Slot
  <2>2. CASE op = "close"
    BY <2>2 DEF After, Closed, Slot
  <2>3. CASE op \notin {"socket", "close"}
    <3>1. s \in Open(fds[p])
      BY <1>2, <1>4, <1>5, <2>3 DEF DescriptorInv, OpenInv, HasSocket, Busy
    <3>2. fds[p][s] \in Slot /\ fds[p][s].kind # "closed"
      BY <1>5, <3>1 DEF DescriptorInv, FdType, Open
    <3>3. After(p, s) = [fds[p][s] EXCEPT !.done = @ \cup {op}]
      BY <2>3 DEF After
    <3> QED
      BY <1>4, <2>3, <3>2, <3>3 DEF Slot
  <2> QED
    BY <2>1, <2>2, <2>3
<1>7. /\ fds' \in [Procs -> [0..MaxFd -> Slot]]
      /\ \A q \in Procs : q # p => fds'[q] = fds[q]
      /\ op = "close" => Open(fds'[p]) = Open(fds[p]) \ {s}
      /\ op # "close" => Open(fds'[p]) = Open(fds[p]) \cup {s}
  BY <1>1, <1>5, <1>6, OneEntry DEF DescriptorInv
<1>8. FdType'
  BY <1>1, <1>2, <1>4, <1>5, <1>7 DEF DescriptorInv, FdType
<1>9. StepsInv'
  <2>1. todo'[p] = Tail(todo[p]) /\ sock'[p] # -1
    BY <1>1, <1>2, <1>5 DEF DescriptorInv, FdType
  <2>2. \A q \in Procs : q # p => todo'[q] = todo[q] /\ sock'[q] = sock[q]
    BY <1>1, <1>2 DEF DescriptorInv, FdType
  <2> QED
    BY <1>4, <2>1, <2>2 DEF DescriptorInv, StepsInv
<1>10. OpenInv'
  <2>1. ASSUME NEW q \in Procs, q # p
        PROVE  /\ fds'[q] = fds[q] /\ held'[q] = held[q] /\ sock'[q] = sock[q]
               /\ HasSocket(q)' <=> HasSocket(q)
    BY <1>1, <1>2, <1>7, <2>1 DEF DescriptorInv, FdType, HasSocket, Busy
  <2>2. Open(fds[p]) = held[p] \cup (IF op = "socket" THEN {} ELSE {s})
        /\ s \notin held[p]
    BY <1>2, <1>4, <1>5 DEF DescriptorInv, OpenInv, HasSocket, Busy
  <2>3. sock'[p] = s /\ held'[p] = IF Delivers(p) THEN held[p] \cup {s} ELSE held[p]
    BY <1>1 DEF DescriptorInv, FdType
  <2>4. HasSocket(p)' <=> Len(todo[p]) # 1
    BY <1>2, <1>4, <1>5, <2>3 DEF DescriptorInv, FdType, HasSocket, Busy
  <2>5. CASE op = "close"
    <3>1. Open(fds'[p]) = held[p] /\ held'[p] = held[p] /\ ~HasSocket(p)'
      BY <1>4, <1>7, <2>2, <2>3, <2>4, <2>5 DEF Delivers
    <3> QED
      BY <2>1, <3>1 DEF DescriptorInv, OpenInv
  <2>6. CASE op # "close" /\ Len(todo[p]) = 1
    <3>1. Open(fds'[p]) = held[p] \cup {s} /\ held'[p] = held[p] \cup {s} /\ ~HasSocket(p)'
      BY <1>7, <2>2, <2>3, <2>4, <2>6 DEF Delivers
    <3> QED
      BY <2>1, <3>1 DEF DescriptorInv, OpenInv
  <2>7. CASE op # "close" /\ Len(todo[p]) # 1
    <3>1. Open(fds'[p]) = held[p] \cup {s} /\ held'[p] = held[p] /\ HasSocket(p)'
      BY <1>7, <2>2, <2>3, <2>4, <2>7 DEF Delivers
    <3> QED
      BY <2>1, <2>2, <2>3, <3>1 DEF DescriptorInv, OpenInv
  <2> QED
    BY <2>5, <2>6, <2>7
<1> QED
  BY <1>8, <1>9, <1>10 DEF DescriptorInv

LEMMA DescriptorSystemCallFails ==
  ASSUME DescriptorInv, NEW p \in Procs, SystemCallFails(p)
  PROVE  DescriptorInv'
<1>1. /\ todo' = [todo EXCEPT ![p] = <<>>] /\ sock' = sock /\ held' = held /\ Busy(p)
      /\ fds' = IF Closes(p) THEN [fds EXCEPT ![p][sock[p]] = Closed] ELSE fds
  BY DEF SystemCallFails
<1>2. Closes(p) <=> HasSocket(p)
  <2>1. todo[p] \in Seq(Ops) /\ todo[p] # <<>> /\ Ordered(todo[p], sock[p] = -1)
    BY <1>1 DEF DescriptorInv, FdType, StepsInv, Busy
  <2>2. Head(todo[p]) = "socket" <=> sock[p] = -1
    BY <2>1, TailOrdered
  <2> QED
    BY <1>1, <2>2 DEF Closes, HasSocket
<1>3. Closed \in Slot /\ Closed.kind = "closed"
  BY DEF Closed, Slot
<1>4. StepsInv'
  BY <1>1 DEF DescriptorInv, FdType, StepsInv, Ordered
<1>5. /\ fds' \in [Procs -> [0..MaxFd -> Slot]]
      /\ \A q \in Procs : q # p => fds'[q] = fds[q]
      /\ Open(fds'[p]) = held[p]
  <2>1. CASE Closes(p)
    <3>1. sock[p] \in 0..MaxFd
      BY <1>2, <2>1 DEF HasSocket, DescriptorInv, FdType
    <3>2. fds' = [fds EXCEPT ![p][sock[p]] = Closed]
      BY <1>1, <2>1
    <3>3. /\ fds' \in [Procs -> [0..MaxFd -> Slot]]
          /\ \A q \in Procs : q # p => fds'[q] = fds[q]
          /\ Open(fds'[p]) = Open(fds[p]) \ {sock[p]}
      BY <1>3, <3>1, <3>2, OneEntry DEF DescriptorInv
    <3>4. sock[p] \notin held[p] /\ Open(fds[p]) = held[p] \cup {sock[p]}
      BY <1>2, <2>1 DEF DescriptorInv, OpenInv
    <3> QED
      BY <3>3, <3>4
  <2>2. CASE ~Closes(p)
    BY <1>1, <1>2, <2>2 DEF DescriptorInv, OpenInv, FdType
  <2> QED
    BY <2>1, <2>2
<1>6. FdType'
  BY <1>1, <1>5 DEF DescriptorInv, FdType
<1>7. ~HasSocket(p)' /\ \A q \in Procs : q # p => (HasSocket(q)' <=> HasSocket(q))
  BY <1>1 DEF DescriptorInv, FdType, HasSocket, Busy
<1>8. OpenInv'
  BY <1>1, <1>5, <1>7 DEF DescriptorInv, OpenInv
<1> QED
  BY <1>4, <1>6, <1>8 DEF DescriptorInv

LEMMA DescriptorCloseHeld ==
  ASSUME DescriptorInv, NEW p \in Procs, CloseHeld(p)
  PROVE  DescriptorInv'
<1>1. PICK n \in held[p] : /\ fds' = [fds EXCEPT ![p][n] = Closed]
                           /\ held' = [held EXCEPT ![p] = @ \ {n}]
  BY DEF CloseHeld
<1>2. todo' = todo /\ sock' = sock /\ ~HasSocket(p) /\ n \in 0..MaxFd
  BY <1>1 DEF CloseHeld, HasSocket, DescriptorInv, FdType
<1>3. Closed \in Slot /\ Closed.kind = "closed"
  BY DEF Closed, Slot
<1>4. /\ fds' \in [Procs -> [0..MaxFd -> Slot]]
      /\ \A q \in Procs : q # p => fds'[q] = fds[q]
      /\ Open(fds'[p]) = Open(fds[p]) \ {n}
  BY <1>1, <1>2, <1>3, OneEntry DEF DescriptorInv
<1>5. FdType' /\ StepsInv'
  BY <1>1, <1>2, <1>4 DEF DescriptorInv, FdType, StepsInv
<1>6. \A q \in Procs : (HasSocket(q)' <=> HasSocket(q)) /\ (q # p => held'[q] = held[q])
  BY <1>1, <1>2 DEF DescriptorInv, FdType, HasSocket, Busy
<1>7. Open(fds'[p]) = held'[p]
  BY <1>1, <1>2, <1>4 DEF DescriptorInv, FdType, OpenInv
<1>8. OpenInv'
  BY <1>2, <1>4, <1>6, <1>7 DEF DescriptorInv, OpenInv
<1> QED
  BY <1>5, <1>8 DEF DescriptorInv

LEMMA DescriptorNext == DescriptorInv /\ [SocketsNext]_socketVars => DescriptorInv'
<1> SUFFICES ASSUME DescriptorInv, [SocketsNext]_socketVars PROVE DescriptorInv'
  OBVIOUS
<1>1. CASE UNCHANGED socketVars
  BY <1>1 DEF socketVars, DescriptorInv, FdType, StepsInv, OpenInv, HasSocket, Busy
<1>2. ASSUME NEW p \in Procs, Ask(p) PROVE DescriptorInv'
  BY <1>2, DescriptorAsk
<1>3. ASSUME NEW p \in Procs, CallSteps(p) PROVE DescriptorInv'
  BY <1>3, DescriptorSystemCall, DescriptorSystemCallFails DEF CallSteps
<1>4. ASSUME NEW p \in Procs, CloseHeld(p) PROVE DescriptorInv'
  BY <1>4, DescriptorCloseHeld
<1> QED
  BY <1>1, <1>2, <1>3, <1>4 DEF SocketsNext

(* Between two calls a process has open what it holds and nothing else:      *)
(* getSrvSocket, getCliSocket and sendtoUdpSrv close what they opened on      *)
(* every path, whichever system call failed.                                 *)
THEOREM NothingLost == SocketsSpec => []NoDescriptorLost
<1>1. DescriptorInv => NoDescriptorLost
  BY DEF DescriptorInv, OpenInv, HasSocket, NoDescriptorLost
<1> QED
  BY <1>1, DescriptorInit, DescriptorNext, PTL DEF SocketsSpec
-----------------------------------------------------------------------------
(* The start of the server *)

Started == {"getInit", "epoll_create", "socket", "opened", "loop"}

ServerTypes ==
  /\ spc \in [Procs -> Started \cup {"down", "ended"}]
  /\ std \in [Procs -> SUBSET Std]
  /\ Ep_fd \in [Procs -> (0..MaxFd) \cup {-1}]
  /\ result \in [Procs -> (0..MaxFd) \cup {-1}]

(* A server is in getSrvSocket only where it opens its port. *)
BusyOpening == \A p \in Procs : Busy(p) => spc[p] = "opened"

(* The servers that the property is about. *)
Proper(p) == spc[p] \in Started /\ 2 \in std[p]

(* Descriptor 2 is never free, so that nothing else can get there. *)
LogOnTwo(p) ==
  /\ fds[p][2].kind \in {"inherited", "log"}
  /\ \A n \in 0..MaxFd : fds[p][n].kind = "log" => n = 2

EpollKept(p) ==
  spc[p] \in {"socket", "opened", "loop"} =>
    Ep_fd[p] \in 0..MaxFd /\ fds[p][Ep_fd[p]].kind = "epoll"

(* What is left of getSrvSocket ends with listen. *)
OpeningPort(p) ==
  Busy(p) => /\ todo[p][Len(todo[p])] = "listen"
             /\ sock[p] # -1 => fds[p][sock[p]].kind = "socket"

(* What getSrvSocket returned listens, and the loop begins with that. *)
PortOpened(p) ==
  spc[p] = "loop" \/ (spc[p] = "opened" /\ ~Busy(p) /\ ~Retries(p)) =>
    /\ sock[p] \in 0..MaxFd
    /\ fds[p][sock[p]].kind = "socket" /\ "listen" \in fds[p][sock[p]].done

KeepsDescriptors(p) == LogOnTwo(p) /\ EpollKept(p) /\ OpeningPort(p) /\ PortOpened(p)

ServerInv ==
  /\ DescriptorInv /\ ServerTypes /\ BusyOpening
  /\ \A p \in Procs : Proper(p) => KeepsDescriptors(p)

-----------------------------------------------------------------------------
(* The table of a process between two calls may change as a whole. *)
LEMMA TableReplaced ==
  ASSUME DescriptorInv, NEW p \in Procs,
         NEW table \in [0..MaxFd -> Slot], NEW h, h = Open(table),
         fds' = [fds EXCEPT ![p] = table], held' = [held EXCEPT ![p] = h],
         sock' = sock, (todo' = todo /\ ~Busy(p)) \/ todo' = [todo EXCEPT ![p] = <<>>]
  PROVE  DescriptorInv'
<1>1. h \in SUBSET (0..MaxFd)
  BY DEF Open
<1>2. FdType'
  <2>1. todo' \in [Procs -> Seq(Ops)]
    <3>1. CASE todo' = todo
      BY <3>1 DEF DescriptorInv, FdType
    <3>2. CASE todo' = [todo EXCEPT ![p] = <<>>]
      BY <3>2 DEF DescriptorInv, FdType
    <3> QED
      BY <3>1, <3>2
  <2> QED
    BY <1>1, <2>1 DEF DescriptorInv, FdType
<1>3. /\ todo'[p] = <<>>
      /\ \A q \in Procs : q # p => todo'[q] = todo[q] /\ fds'[q] = fds[q] /\ held'[q] = held[q]
      /\ fds'[p] = table /\ held'[p] = h
  BY DEF DescriptorInv, FdType, Busy
<1>4. StepsInv'
  BY <1>3 DEF DescriptorInv, StepsInv, Ordered
<1>5. ~HasSocket(p)' /\ \A q \in Procs : q # p => (HasSocket(q)' <=> HasSocket(q))
  BY <1>3 DEF HasSocket, Busy
<1>6. OpenInv'
  BY <1>3, <1>5 DEF DescriptorInv, OpenInv
<1> QED
  BY <1>2, <1>4, <1>6 DEF DescriptorInv

LEMMA Tables ==
  ASSUME NEW open \in SUBSET (0..MaxFd)
  PROVE  /\ Table(open) \in [0..MaxFd -> Slot] /\ Open(Table(open)) = open
         /\ \A n \in 0..MaxFd : Table(open)[n].kind \in {"inherited", "closed"}
         /\ \A n \in open : Table(open)[n].kind = "inherited"
BY DEF Table, Object, Closed, Slot, Open

(* A server that is between two calls has open what it holds. *)
LEMMA BetweenCalls ==
  ASSUME DescriptorInv, NEW p \in Procs, ~Busy(p)
  PROVE  held[p] = Open(fds[p]) /\ fds[p] \in [0..MaxFd -> Slot]
BY DEF DescriptorInv, FdType, OpenInv, HasSocket

(* The log goes to descriptor 2; the descriptor it was opened with is free   *)
(* again, and no other changes.                                              *)
LEMMA LogTables ==
  ASSUME NEW table \in [0..MaxFd -> Slot], NEW n \in LowestFree(table)
  PROVE  /\ LogTable(table, n) \in [0..MaxFd -> Slot]
         /\ Open(LogTable(table, n)) = IF n = 2 THEN Open(table) ELSE Open(table) \cup {2}
         /\ \A m \in Open(table) : m # 2 => LogTable(table, n)[m] = table[m]
         /\ 2 \in Open(table) => LogTable(table, n)[2].kind = "log"
         /\ \A m \in 0..MaxFd : LogTable(table, n)[m].kind = "log" => m = 2 \/ table[m].kind = "log"
<1>1. 2 \in 0..MaxFd
  BY SocketsAssumption DEF Std
<1>2. n \in 0..MaxFd /\ n \notin Open(table)
  BY LowestFreeIsFree
<1>3. Object("log") \in Slot /\ Object("log").kind = "log" /\ Closed \in Slot /\ Closed.kind = "closed"
  BY DEF Object, Closed, Slot
<1>4. CASE n = 2
  BY <1>1, <1>2, <1>4 DEF LogTable
<1>5. CASE n # 2
  <2>1. LogTable(table, n) = [table EXCEPT ![2] = Object("log"), ![n] = Closed]
    BY <1>5 DEF LogTable
  <2>2. /\ LogTable(table, n) \in [0..MaxFd -> Slot]
        /\ LogTable(table, n)[2] = Object("log") /\ LogTable(table, n)[n] = Closed
        /\ \A m \in 0..MaxFd : m # 2 /\ m # n => LogTable(table, n)[m] = table[m]
    BY <1>1, <1>2, <1>3, <1>5, <2>1
  <2>3. Open(LogTable(table, n)) = Open(table) \cup {2}
    BY <1>1, <1>2, <1>3, <1>5, <2>2 DEF Open
  <2> QED
    BY <1>1, <1>2, <1>3, <1>5, <2>2, <2>3 DEF Open
<1> QED
  BY <1>4, <1>5

(* Only server p has done something. *)
LEMMA OneServer ==
  ASSUME ServerInv, NEW p \in Procs, DescriptorInv', ServerTypes', std' = std,
         (Busy(p) => spc[p] = "opened")',
         (Proper(p) => KeepsDescriptors(p))',
         \A q \in Procs : q # p =>
           UNCHANGED <<spc[q], fds[q], todo[q], sock[q], result[q], Ep_fd[q]>>
  PROVE  ServerInv'
<1>1. ASSUME NEW q \in Procs, q # p
      PROVE  /\ Busy(q)' <=> Busy(q)
             /\ Proper(q)' <=> Proper(q)
             /\ LogOnTwo(q)' <=> LogOnTwo(q)
             /\ EpollKept(q)' <=> EpollKept(q)
             /\ OpeningPort(q)' <=> OpeningPort(q)
             /\ PortOpened(q)' <=> PortOpened(q)
  BY <1>1 DEF Busy, Proper, LogOnTwo, EpollKept, OpeningPort, PortOpened, Retries
<1>2. \A q \in Procs : (Proper(q) => KeepsDescriptors(q))'
  BY <1>1 DEF ServerInv, KeepsDescriptors
<1>3. BusyOpening'
  BY <1>1 DEF ServerInv, BusyOpening
<1> QED
  BY <1>2, <1>3 DEF ServerInv

-----------------------------------------------------------------------------
LEMMA ServerInitial == ServerInit => ServerInv
<1> SUFFICES ASSUME ServerInit PROVE ServerInv
  OBVIOUS
<1>1. DescriptorInv
  BY DescriptorInit DEF ServerInit
<1>2. /\ spc = [p \in Procs |-> "down"] /\ todo = [p \in Procs |-> <<>>]
      /\ Ep_fd = [p \in Procs |-> -1] /\ result = [p \in Procs |-> -1]
      /\ std \in [Procs -> SUBSET Std]
  BY DEF ServerInit, StartInit, SocketsInit
<1>3. ServerTypes
  BY <1>2 DEF ServerTypes
<1>4. \A p \in Procs : ~Busy(p) /\ ~Proper(p)
  BY <1>2 DEF Busy, Proper, Started
<1> QED
  BY <1>1, <1>3, <1>4 DEF ServerInv, BusyOpening

LEMMA ServerStartServer ==
  ASSUME ServerInv, NEW p \in Procs, StartServer(p)
  PROVE  ServerInv'
<1>1. /\ ~Busy(p)
      /\ fds' = [fds EXCEPT ![p] = Table(std[p])] /\ held' = [held EXCEPT ![p] = std[p]]
      /\ Ep_fd' = [Ep_fd EXCEPT ![p] = -1] /\ spc' = [spc EXCEPT ![p] = "getInit"]
      /\ UNCHANGED <<todo, sock, result, std>>
  BY DEF StartServer, At, Goto
<1>2. std[p] \in SUBSET (0..MaxFd)
  BY SocketsAssumption DEF ServerInv, ServerTypes
<1>3. DescriptorInv'
  <2>1. Table(std[p]) \in [0..MaxFd -> Slot] /\ std[p] = Open(Table(std[p]))
    BY <1>2, Tables
  <2> QED
    BY <1>1, <2>1, TableReplaced DEF ServerInv
<1>4. ServerTypes'
  BY <1>1 DEF ServerInv, ServerTypes, Started
<1>5. spc'[p] = "getInit" /\ fds'[p] = Table(std[p]) /\ ~Busy(p)'
  BY <1>1 DEF ServerInv, ServerTypes, DescriptorInv, FdType, Busy
<1>6. (Proper(p) => LogOnTwo(p))'
  BY <1>1, <1>2, <1>5, Tables DEF Proper, LogOnTwo
<1>7. (EpollKept(p) /\ OpeningPort(p) /\ PortOpened(p))'
  BY <1>5 DEF EpollKept, OpeningPort, PortOpened
<1> QED
  BY <1>1, <1>3, <1>4, <1>5, <1>6, <1>7, OneServer DEF KeepsDescriptors

(* A process that ends, by itself or killed, is no server any more. *)
LEMMA ServerEnds ==
  ASSUME ServerInv, NEW p \in Procs, NEW label \in {"down", "ended"}, Ends(p, label),
         UNCHANGED <<sock, result, std, Ep_fd>>
  PROVE  ServerInv'
<1>1. /\ fds' = [fds EXCEPT ![p] = Table({})] /\ held' = [held EXCEPT ![p] = {}]
      /\ todo' = [todo EXCEPT ![p] = <<>>] /\ spc' = [spc EXCEPT ![p] = label]
  BY DEF Ends, Goto
<1>2. DescriptorInv'
  <2>1. Table({}) \in [0..MaxFd -> Slot] /\ {} = Open(Table({}))
    BY Tables
  <2> QED
    BY <1>1, <2>1, TableReplaced DEF ServerInv
<1>3. ServerTypes'
  BY <1>1 DEF ServerInv, ServerTypes
<1>4. ~Busy(p)' /\ ~Proper(p)'
  BY <1>1 DEF ServerInv, ServerTypes, DescriptorInv, FdType, Busy, Proper, Started
<1>5. \A q \in Procs : q # p => UNCHANGED <<spc[q], fds[q], todo[q], sock[q], result[q], Ep_fd[q]>>
  BY <1>1 DEF ServerInv, ServerTypes, DescriptorInv, FdType
<1> QED
  BY <1>2, <1>3, <1>4, <1>5, OneServer

LEMMA LogIsOpened ==
  ASSUME ServerInv, NEW p \in Procs, ~Busy(p), OpensLog(p), UNCHANGED <<todo, sock>>
  PROVE  /\ DescriptorInv'
         /\ \A q \in Procs : q # p => fds'[q] = fds[q]
         /\ LogOnTwo(p) => LogOnTwo(p)'
         /\ \A m \in 0..MaxFd : fds[p][m].kind \in {"epoll", "socket"} /\ LogOnTwo(p) =>
              fds'[p][m] = fds[p][m]
<1>1. held[p] = Open(fds[p]) /\ fds[p] \in [0..MaxFd -> Slot] /\ fds \in [Procs -> [0..MaxFd -> Slot]]
  BY BetweenCalls DEF ServerInv, DescriptorInv, FdType
<1>2. PICK n \in LowestFree(fds[p]) :
        /\ fds' = [fds EXCEPT ![p] = LogTable(fds[p], n)]
        /\ held' = [held EXCEPT ![p] = IF n = 2 THEN held[p] ELSE held[p] \cup {2}]
  BY DEF OpensLog
<1> DEFINE table == LogTable(fds[p], n)
<1>3. /\ table \in [0..MaxFd -> Slot]
      /\ Open(table) = IF n = 2 THEN Open(fds[p]) ELSE Open(fds[p]) \cup {2}
      /\ \A m \in Open(fds[p]) : m # 2 => table[m] = fds[p][m]
      /\ 2 \in Open(fds[p]) => table[2].kind = "log"
      /\ \A m \in 0..MaxFd : table[m].kind = "log" => m = 2 \/ fds[p][m].kind = "log"
  BY <1>1, <1>2, LogTables
<1> HIDE DEF table
<1>4. fds' = [fds EXCEPT ![p] = table]
  BY <1>2 DEF table
<1>5. DescriptorInv'
  <2>1. held' = [held EXCEPT ![p] = Open(table)]
    BY <1>1, <1>2, <1>3
  <2>2. DescriptorInv /\ todo' = todo /\ sock' = sock
    BY DEF ServerInv
  <2> QED
    BY <1>3, <1>4, <2>1, <2>2, TableReplaced
<1>6. fds'[p] = table /\ \A q \in Procs : q # p => fds'[q] = fds[q]
  BY <1>1, <1>4
<1>7. ASSUME LogOnTwo(p) PROVE LogOnTwo(p)'
  <2>1. 2 \in Open(fds[p])
    BY <1>7, SocketsAssumption DEF LogOnTwo, Open, Std
  <2> QED
    BY <1>3, <1>6, <1>7, <2>1 DEF LogOnTwo
<1>8. ASSUME NEW m \in 0..MaxFd, fds[p][m].kind \in {"epoll", "socket"}, LogOnTwo(p)
      PROVE  fds'[p][m] = fds[p][m]
  <2>1. m \in Open(fds[p]) /\ m # 2
    BY <1>8 DEF Open, LogOnTwo
  <2> QED
    BY <1>3, <1>6, <2>1
<1> QED
  BY <1>5, <1>6, <1>7, <1>8

LEMMA ServerGetInit ==
  ASSUME ServerInv, NEW p \in Procs, GetInit(p)
  PROVE  ServerInv'
<1>1. /\ ~Busy(p) /\ spc[p] = "getInit" /\ spc' = [spc EXCEPT ![p] = "epoll_create"]
      /\ UNCHANGED <<todo, sock, result, std, Ep_fd>>
      /\ OpensLog(p) \/ UNCHANGED <<fds, held>>
  BY DEF GetInit, At, Goto
<1>2. /\ DescriptorInv' /\ (LogOnTwo(p) => LogOnTwo(p)')
      /\ \A q \in Procs : q # p => fds'[q] = fds[q]
  <2>1. CASE OpensLog(p)
    BY <1>1, <2>1, LogIsOpened
  <2>2. CASE UNCHANGED <<fds, held>>
    BY <1>1, <2>2 DEF ServerInv, DescriptorInv, FdType, StepsInv, OpenInv, HasSocket, Busy, LogOnTwo
  <2> QED
    BY <1>1, <2>1, <2>2
<1>3. ServerTypes' /\ spc'[p] = "epoll_create"
  BY <1>1 DEF ServerInv, ServerTypes, Started
<1>4. ~Busy(p)' /\ (EpollKept(p) /\ OpeningPort(p) /\ PortOpened(p))'
  BY <1>1, <1>3 DEF Busy, EpollKept, OpeningPort, PortOpened
<1>5. Proper(p)' => LogOnTwo(p)'
  BY <1>1, <1>2 DEF ServerInv, Proper, Started, KeepsDescriptors
<1>6. \A q \in Procs : q # p => UNCHANGED <<spc[q], fds[q], todo[q], sock[q], result[q], Ep_fd[q]>>
  BY <1>1, <1>2 DEF ServerInv, ServerTypes
<1> QED
  BY <1>1, <1>2, <1>3, <1>4, <1>5, <1>6, OneServer DEF KeepsDescriptors

LEMMA ServerNewLogName ==
  ASSUME ServerInv, NEW p \in Procs, NewLogName(p)
  PROVE  ServerInv'
<1>1. /\ ~Busy(p) /\ spc[p] = "loop" /\ OpensLog(p)
      /\ UNCHANGED <<todo, sock, result, spc, std, Ep_fd>>
  BY DEF NewLogName, At, startVars
<1>2. /\ DescriptorInv' /\ (LogOnTwo(p) => LogOnTwo(p)')
      /\ \A q \in Procs : q # p => fds'[q] = fds[q]
      /\ \A m \in 0..MaxFd : fds[p][m].kind \in {"epoll", "socket"} /\ LogOnTwo(p) =>
           fds'[p][m] = fds[p][m]
  BY <1>1, LogIsOpened
<1>3. ServerTypes'
  BY <1>1 DEF ServerInv, ServerTypes
<1>4. ~Busy(p)' /\ spc'[p] = "loop"
  BY <1>1 DEF Busy
<1>5. ASSUME Proper(p)' PROVE KeepsDescriptors(p)'
  <2>1. LogOnTwo(p) /\ EpollKept(p) /\ PortOpened(p)
    BY <1>1, <1>5 DEF ServerInv, Proper, KeepsDescriptors
  <2>2. EpollKept(p)'
    BY <1>1, <1>2, <2>1 DEF EpollKept
  <2>3. PortOpened(p)'
    BY <1>1, <1>2, <2>1 DEF PortOpened
  <2>4. OpeningPort(p)'
    BY <1>4 DEF OpeningPort
  <2> QED
    BY <1>2, <2>1, <2>2, <2>3, <2>4 DEF KeepsDescriptors
<1> QED
  BY <1>1, <1>2, <1>3, <1>4, <1>5, OneServer

LEMMA ServerEpollCreate ==
  ASSUME ServerInv, NEW p \in Procs, EpollCreate(p)
  PROVE  ServerInv'
<1>1. PICK n \in LowestFree(fds[p]) :
        /\ fds' = [fds EXCEPT ![p][n] = Object("epoll")]
        /\ held' = [held EXCEPT ![p] = held[p] \cup {n}]
        /\ Ep_fd' = [Ep_fd EXCEPT ![p] = n]
  BY DEF EpollCreate
<1>2. /\ ~Busy(p) /\ spc[p] = "epoll_create" /\ spc' = [spc EXCEPT ![p] = "socket"]
      /\ UNCHANGED <<todo, sock, result, std>>
  BY DEF EpollCreate, At, Goto
<1>3. n \in 0..MaxFd /\ n \notin Open(fds[p])
  BY LowestFreeIsFree
<1>4. /\ held[p] = Open(fds[p]) /\ FdType /\ fds[p] \in [0..MaxFd -> Slot]
  BY <1>2, BetweenCalls DEF ServerInv, DescriptorInv
<1> DEFINE table == [fds[p] EXCEPT ![n] = Object("epoll")]
<1>5. /\ table \in [0..MaxFd -> Slot] /\ table[n].kind = "epoll"
      /\ \A m \in 0..MaxFd : m # n => table[m] = fds[p][m]
  BY <1>3, <1>4 DEF Object, Slot
<1>6. fds' = [fds EXCEPT ![p] = table]
  BY <1>1
<1> HIDE DEF table
<1>7. Open(table) = Open(fds[p]) \cup {n}
  BY <1>3, <1>5 DEF Open
<1>8. DescriptorInv'
  <2>1. held' = [held EXCEPT ![p] = Open(table)]
    BY <1>1, <1>4, <1>7
  <2>2. DescriptorInv /\ todo' = todo /\ sock' = sock
    BY <1>2 DEF ServerInv
  <2> QED
    BY <1>2, <1>5, <1>6, <2>1, <2>2, TableReplaced
<1>9. ServerTypes'
  BY <1>1, <1>2, <1>3 DEF ServerInv, ServerTypes, Started
<1>10. fds'[p] = table /\ Ep_fd'[p] = n /\ spc'[p] = "socket" /\ ~Busy(p)'
  BY <1>1, <1>2, <1>4, <1>6 DEF ServerInv, ServerTypes, FdType, Busy
<1>11. ASSUME Proper(p)' PROVE KeepsDescriptors(p)'
  <2>1. LogOnTwo(p)
    BY <1>2, <1>11 DEF ServerInv, Proper, Started, KeepsDescriptors
  <2>2. 2 \in Open(fds[p])
    BY <2>1, SocketsAssumption DEF LogOnTwo, Open, Std
  <2>3. LogOnTwo(p)'
    BY <1>3, <1>5, <1>10, <2>1, <2>2 DEF LogOnTwo, Open
  <2>4. EpollKept(p)'
    BY <1>3, <1>5, <1>10 DEF EpollKept
  <2> QED
    BY <1>10, <2>3, <2>4 DEF KeepsDescriptors, OpeningPort, PortOpened
<1>12. \A q \in Procs : q # p => UNCHANGED <<spc[q], fds[q], todo[q], sock[q], result[q], Ep_fd[q]>>
  BY <1>1, <1>2, <1>4, <1>6 DEF ServerInv, ServerTypes, FdType
<1> QED
  BY <1>2, <1>8, <1>9, <1>10, <1>11, <1>12, OneServer

LEMMA ServerCallGetSrvSocket ==
  ASSUME ServerInv, NEW p \in Procs, CallGetSrvSocket(p)
  PROVE  ServerInv'
<1> DEFINE steps == getSrvSocket(FALSE)
<1>1. /\ ~Busy(p) /\ spc[p] = "socket" /\ spc' = [spc EXCEPT ![p] = "opened"]
      /\ BeginCall(p, steps) /\ UNCHANGED <<fds, result, held, std, Ep_fd>>
  BY DEF CallGetSrvSocket, At, Goto
<1>2. steps \in Seq(Ops) /\ Ordered(steps, TRUE)
  BY SequencesOrdered
<1>3. steps[Len(steps)] = "listen" /\ steps # <<>>
  BY DEF getSrvSocket
<1> HIDE DEF steps
<1>4. todo' = [todo EXCEPT ![p] = steps] /\ sock' = [sock EXCEPT ![p] = -1]
  BY <1>1 DEF BeginCall
<1>5. DescriptorInv'
  BY <1>1, <1>2, DescriptorBeginCall DEF ServerInv
<1>6. ServerTypes'
  BY <1>1 DEF ServerInv, ServerTypes, Started
<1>7. spc'[p] = "opened" /\ todo'[p] = steps /\ sock'[p] = -1 /\ Busy(p)'
  BY <1>1, <1>3, <1>4 DEF ServerInv, ServerTypes, DescriptorInv, FdType, Busy
<1>8. ASSUME Proper(p)' PROVE KeepsDescriptors(p)'
  <2>1. LogOnTwo(p) /\ EpollKept(p)
    BY <1>1, <1>8 DEF ServerInv, Proper, Started, KeepsDescriptors
  <2>2. LogOnTwo(p)' /\ EpollKept(p)'
    BY <1>1, <2>1 DEF LogOnTwo, EpollKept
  <2>3. OpeningPort(p)' /\ PortOpened(p)'
    BY <1>3, <1>7 DEF OpeningPort, PortOpened
  <2> QED
    BY <2>2, <2>3 DEF KeepsDescriptors
<1>9. \A q \in Procs : q # p => UNCHANGED <<spc[q], fds[q], todo[q], sock[q], result[q], Ep_fd[q]>>
  BY <1>1, <1>4 DEF ServerInv, ServerTypes, DescriptorInv, FdType
<1> QED
  BY <1>1, <1>5, <1>6, <1>7, <1>8, <1>9, OneServer

LEMMA ServerJudge ==
  ASSUME ServerInv, NEW p \in Procs, Judge(p)
  PROVE  ServerInv'
<1>1. /\ ~Busy(p) /\ spc[p] = "opened"
      /\ spc' = [spc EXCEPT ![p] = IF Retries(p) THEN "socket" ELSE "loop"]
      /\ UNCHANGED <<fds, todo, sock, result, held, std, Ep_fd>>
  BY DEF Judge, At, Goto, socketVars
<1>2. DescriptorInv'
  BY <1>1 DEF ServerInv, DescriptorInv, FdType, StepsInv, OpenInv, HasSocket, Busy
<1>3. ServerTypes' /\ spc'[p] = (IF Retries(p) THEN "socket" ELSE "loop") /\ ~Busy(p)'
  BY <1>1 DEF ServerInv, ServerTypes, Started, Busy
<1>4. ASSUME Proper(p)' PROVE KeepsDescriptors(p)'
  <2>1. LogOnTwo(p) /\ EpollKept(p) /\ PortOpened(p)
    BY <1>1, <1>4 DEF ServerInv, Proper, Started, KeepsDescriptors
  <2>2. LogOnTwo(p)' /\ EpollKept(p)' /\ OpeningPort(p)'
    BY <1>1, <1>3, <2>1 DEF LogOnTwo, EpollKept, OpeningPort
  <2>3. PortOpened(p)'
    BY <1>1, <1>3, <2>1 DEF PortOpened
  <2> QED
    BY <2>2, <2>3 DEF KeepsDescriptors
<1>5. \A q \in Procs : q # p => UNCHANGED <<spc[q], fds[q], todo[q], sock[q], result[q], Ep_fd[q]>>
  BY <1>1 DEF ServerInv, ServerTypes
<1> QED
  BY <1>1, <1>2, <1>3, <1>4, <1>5, OneServer

(* The descriptor that socket returns is new, and the other calls work on it *)
(* alone; the last of them is listen.                                        *)
LEMMA ServerSystemCall ==
  ASSUME ServerInv, NEW p \in Procs, SystemCall(p), UNCHANGED startVars
  PROVE  ServerInv'
<1> DEFINE op == Head(todo[p])
<1>1. PICK s \in Target(p) :
        /\ sock' = [sock EXCEPT ![p] = s]
        /\ fds' = [fds EXCEPT ![p][s] = After(p, s)]
        /\ result' = [result EXCEPT ![p] = IF Delivers(p) THEN s ELSE -1]
  BY DEF SystemCall
<1>2. /\ todo' = [todo EXCEPT ![p] = Tail(todo[p])] /\ Busy(p) /\ todo[p] # <<>>
      /\ UNCHANGED <<spc, std, Ep_fd>>
  BY DEF SystemCall, Busy, startVars
<1>3. FdType /\ todo[p] \in Seq(Ops) /\ Ordered(todo[p], sock[p] = -1)
  BY DEF ServerInv, DescriptorInv, FdType, StepsInv
<1>4. /\ op = "socket" <=> sock[p] = -1
      /\ op = "close" => Len(todo[p]) = 1
      /\ Tail(todo[p]) = <<>> <=> Len(todo[p]) = 1
  BY <1>2, <1>3, TailOrdered
<1>5. s \in 0..MaxFd /\ (op = "socket" => s \notin Open(fds[p])) /\ (op # "socket" => s = sock[p])
  BY <1>3, <1>4, LowestFreeIsFree DEF Target, FdType
<1>6. DescriptorInv'
  BY DescriptorSystemCall DEF ServerInv
<1>7. ServerTypes'
  BY <1>1, <1>2, <1>5 DEF ServerInv, ServerTypes
<1>8. /\ spc[p] = "opened" /\ spc'[p] = "opened"
      /\ sock'[p] = s /\ fds'[p][s] = After(p, s) /\ todo'[p] = Tail(todo[p])
      /\ \A m \in 0..MaxFd : m # s => fds'[p][m] = fds[p][m]
  BY <1>1, <1>2, <1>3, <1>5 DEF ServerInv, BusyOpening, FdType
<1>9. ASSUME Proper(p)' PROVE KeepsDescriptors(p)'
  <2>1. LogOnTwo(p) /\ EpollKept(p) /\ OpeningPort(p)
    BY <1>2, <1>9 DEF ServerInv, Proper, KeepsDescriptors
  <2>2. todo[p][Len(todo[p])] = "listen" /\ Len(todo[p]) \in Nat \ {0} /\ op = todo[p][1]
    BY <1>2, <1>3, <2>1, EmptySeq DEF OpeningPort
  <2>3. op # "close"
    BY <1>4, <2>2
  <2>4. After(p, s).kind = "socket"
    <3>1. CASE op = "socket"
      BY <3>1 DEF After, Object
    <3>2. CASE op # "socket"
      <4>1. fds[p][s].kind = "socket" /\ fds[p][s] \in Slot
        BY <1>2, <1>3, <1>4, <1>5, <2>1, <3>2 DEF OpeningPort, FdType
      <4>2. After(p, s) = [fds[p][s] EXCEPT !.done = @ \cup {op}]
        BY <2>3, <3>2 DEF After
      <4> QED
        BY <4>1, <4>2 DEF Slot
    <3> QED
      BY <3>1, <3>2
  <2>5. /\ fds[p][s].kind \notin {"inherited", "log", "epoll"}
        /\ s # 2
    <3>1. CASE op = "socket"
      <4>1. fds[p][s].kind = "closed"
        BY <1>5, <3>1 DEF Open
      <4> QED
        BY <2>1, <4>1 DEF LogOnTwo
    <3>2. CASE op # "socket"
      <4>1. fds[p][s].kind = "socket"
        BY <1>2, <1>4, <1>5, <2>1, <3>2 DEF OpeningPort
      <4> QED
        BY <2>1, <4>1 DEF LogOnTwo
    <3> QED
      BY <3>1, <3>2
  <2>6. LogOnTwo(p)'
    BY <1>8, <2>1, <2>4, <2>5, SocketsAssumption DEF LogOnTwo, Std
  <2>7. EpollKept(p)'
    BY <1>2, <1>8, <2>1, <2>5 DEF EpollKept
  <2>8. OpeningPort(p)'
    <3>1. CASE Len(todo[p]) = 1
      BY <1>4, <1>8, <3>1 DEF OpeningPort, Busy
    <3>2. CASE Len(todo[p]) # 1
      <4>1. /\ Len(Tail(todo[p])) = Len(todo[p]) - 1
            /\ Tail(todo[p])[Len(todo[p]) - 1] = todo[p][Len(todo[p])]
        <5>1. /\ Len(Tail(todo[p])) = Len(todo[p]) - 1
              /\ \A i \in 1..(Len(todo[p]) - 1) : Tail(todo[p])[i] = todo[p][i + 1]
          BY <1>2, <1>3, HeadTailProperties
        <5>2. Len(todo[p]) - 1 \in 1..(Len(todo[p]) - 1) /\ (Len(todo[p]) - 1) + 1 = Len(todo[p])
          <6>1. \A l \in Nat \ {0} : l # 1 => l - 1 \in 1..(l - 1) /\ (l - 1) + 1 = l
            OBVIOUS
          <6> QED
            BY <2>2, <3>2, <6>1, Zenon
        <5>3. Tail(todo[p])[Len(todo[p]) - 1] = todo[p][(Len(todo[p]) - 1) + 1]
          BY <5>1, <5>2, Zenon
        <5> QED
          BY <5>1, <5>2, <5>3, Zenon
      <4> QED
        BY <1>8, <2>2, <2>4, <4>1 DEF OpeningPort
    <3> QED
      BY <3>1, <3>2
  <2>9. PortOpened(p)'
    <3>1. CASE Len(todo[p]) = 1
      <4>1. op = "listen"
        BY <2>2, <3>1
      <4>2. fds[p][s] \in Slot /\ After(p, s) = [fds[p][s] EXCEPT !.done = @ \cup {op}]
        BY <1>3, <1>5, <4>1 DEF After, FdType
      <4>3. "listen" \in After(p, s).done
        BY <4>1, <4>2 DEF Slot
      <4> QED
        BY <1>5, <1>8, <2>4, <4>3 DEF PortOpened
    <3>2. CASE Len(todo[p]) # 1
      BY <1>4, <1>8, <3>2 DEF PortOpened, Busy
    <3> QED
      BY <3>1, <3>2
  <2> QED
    BY <2>6, <2>7, <2>8, <2>9 DEF KeepsDescriptors
<1>10. \A q \in Procs : q # p => UNCHANGED <<spc[q], fds[q], todo[q], sock[q], result[q], Ep_fd[q]>>
  BY <1>1, <1>2, <1>3 DEF ServerInv, ServerTypes, FdType
<1> QED
  BY <1>2, <1>6, <1>7, <1>8, <1>9, <1>10, OneServer

(* A call that fails closes the descriptor of getSrvSocket and no other. *)
LEMMA ServerSystemCallFails ==
  ASSUME ServerInv, NEW p \in Procs, SystemCallFails(p), UNCHANGED startVars
  PROVE  ServerInv'
<1>1. /\ todo' = [todo EXCEPT ![p] = <<>>] /\ result' = [result EXCEPT ![p] = -1]
      /\ sock' = sock /\ Busy(p) /\ UNCHANGED <<spc, std, Ep_fd>>
      /\ fds' = IF Closes(p) THEN [fds EXCEPT ![p][sock[p]] = Closed] ELSE fds
  BY DEF SystemCallFails, startVars
<1>2. FdType /\ todo[p] \in Seq(Ops) /\ todo[p] # <<>> /\ Ordered(todo[p], sock[p] = -1)
  BY <1>1 DEF ServerInv, DescriptorInv, FdType, StepsInv, Busy
<1>3. Closes(p) <=> sock[p] # -1
  BY <1>2, TailOrdered DEF Closes
<1>4. DescriptorInv'
  BY DescriptorSystemCallFails DEF ServerInv
<1>5. ServerTypes'
  BY <1>1 DEF ServerInv, ServerTypes
<1>6. spc'[p] = "opened" /\ ~Busy(p)' /\ result'[p] = -1
  BY <1>1, <1>2 DEF ServerInv, ServerTypes, BusyOpening, FdType, Busy
<1>7. /\ \A q \in Procs : q # p => fds'[q] = fds[q]
      /\ fds'[p] = IF sock[p] # -1 THEN [fds[p] EXCEPT ![sock[p]] = Closed] ELSE fds[p]
  BY <1>1, <1>2, <1>3 DEF FdType
<1>8. ASSUME Proper(p)' PROVE KeepsDescriptors(p)'
  <2>1. LogOnTwo(p) /\ EpollKept(p) /\ OpeningPort(p)
    BY <1>1, <1>8 DEF ServerInv, Proper, KeepsDescriptors
  <2>2. CASE sock[p] = -1
    BY <1>1, <1>6, <1>7, <2>1, <2>2 DEF KeepsDescriptors, LogOnTwo, EpollKept, OpeningPort, PortOpened, Retries
  <2>3. CASE sock[p] # -1
    <3>1. fds[p][sock[p]].kind = "socket" /\ sock[p] \in 0..MaxFd /\ fds[p] \in [0..MaxFd -> Slot]
      BY <1>1, <1>2, <2>1, <2>3 DEF OpeningPort, FdType
    <3>2. /\ fds'[p][sock[p]] = Closed /\ Closed.kind = "closed"
          /\ \A m \in 0..MaxFd : m # sock[p] => fds'[p][m] = fds[p][m]
      BY <1>7, <2>3, <3>1 DEF Closed
    <3>3. sock[p] # 2
      BY <2>1, <3>1 DEF LogOnTwo
    <3>4. LogOnTwo(p)'
      BY <2>1, <3>2, <3>3, SocketsAssumption DEF LogOnTwo, Std
    <3>5. EpollKept(p)'
      BY <1>1, <2>1, <3>1, <3>2 DEF EpollKept
    <3> QED
      BY <1>6, <3>4, <3>5 DEF KeepsDescriptors, OpeningPort, PortOpened, Retries
  <2> QED
    BY <2>2, <2>3
<1>9. \A q \in Procs : q # p => UNCHANGED <<spc[q], fds[q], todo[q], sock[q], result[q], Ep_fd[q]>>
  BY <1>1, <1>2, <1>7 DEF ServerInv, ServerTypes, FdType
<1> QED
  BY <1>1, <1>4, <1>5, <1>6, <1>8, <1>9, OneServer

LEMMA ServerNextInv == ServerInv /\ [ServerNext]_serverVars => ServerInv'
<1> SUFFICES ASSUME ServerInv, [ServerNext]_serverVars PROVE ServerInv'
  OBVIOUS
<1>1. CASE UNCHANGED serverVars
  <2>1. UNCHANGED <<fds, todo, sock, result, held, spc, std, Ep_fd>>
    BY <1>1 DEF serverVars, socketVars, startVars
  <2>2. DescriptorInv' /\ ServerTypes'
    BY <2>1 DEF ServerInv, DescriptorInv, FdType, StepsInv, OpenInv, HasSocket, Busy, ServerTypes
  <2>3. BusyOpening' /\ \A p \in Procs : (Proper(p) => KeepsDescriptors(p))'
    BY <2>1 DEF ServerInv, BusyOpening, Busy, Proper, KeepsDescriptors, LogOnTwo, EpollKept,
                OpeningPort, PortOpened, Retries
  <2> QED
    BY <2>2, <2>3 DEF ServerInv
<1>2. ASSUME NEW p \in Procs, StartFails(p) \/ LoopEnds(p) \/ Kill(p) PROVE ServerInv'
  <2>1. \E label \in {"down", "ended"} : Ends(p, label)
    BY <1>2 DEF StartFails, LoopEnds, Kill
  <2>2. UNCHANGED <<sock, result, std, Ep_fd>>
    BY <1>2 DEF StartFails, LoopEnds, Kill
  <2> QED
    BY <2>1, <2>2, ServerEnds
<1>3. ASSUME NEW p \in Procs, CallSteps(p), UNCHANGED startVars PROVE ServerInv'
  BY <1>3, ServerSystemCall, ServerSystemCallFails DEF CallSteps
<1>4. ASSUME NEW p \in Procs, ServerStep(p) \/ NewLogName(p) \/ Kill(p) PROVE ServerInv'
  BY <1>2, <1>3, <1>4, ServerStartServer, ServerGetInit, ServerEpollCreate, ServerCallGetSrvSocket,
     ServerJudge, ServerNewLogName DEF ServerStep
<1> QED
  BY <1>1, <1>4 DEF ServerNext

(* A server that was started with descriptor 2 open keeps what it needs: the *)
(* epoll and the listening descriptor are those that it has created, and its *)
(* log, opened anew or not, is on descriptor 2 and on no other.              *)
THEOREM ServerKeepsDescriptors == ServerSpec => []DescriptorsStay
<1>1. ServerInv => DescriptorsStay
  BY DEF ServerInv, Proper, Started, KeepsDescriptors, LogOnTwo, EpollKept, PortOpened, DescriptorsStay
<1> QED
  BY <1>1, ServerInitial, ServerNextInv, PTL DEF ServerSpec

(* Nor does the server lose a descriptor: at every attempt to open its port, *)
(* however many fail before one succeeds, it closes what the attempt opened. *)
THEOREM ServerLosesNothing == ServerSpec => []NoDescriptorLost
<1>1. ServerInv => NoDescriptorLost
  BY DEF ServerInv, DescriptorInv, OpenInv, HasSocket, NoDescriptorLost
<1> QED
  BY <1>1, ServerInitial, ServerNextInv, PTL DEF ServerSpec
=============================================================================
