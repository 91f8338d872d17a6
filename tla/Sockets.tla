------------------------------- MODULE Sockets -------------------------------
(***************************************************************************)
(* getSrvSocket.c, getCliSocket.c and sendtoUdpSrv.c: each function is a    *)
(* sequence of system calls on one new descriptor; the first that fails     *)
(* ends it, and the descriptor is closed.  Processes have descriptor        *)
(* tables; the servers among them all want the same port.                   *)
(***************************************************************************)
EXTENDS Integers, Sequences, SequencesExt

CONSTANTS
  Procs,      \* the processes
  MaxFd,      \* descriptors are 0..MaxFd, the limit of open files
  MaxFaults,  \* bound: system calls that fail for a reason of their own
  MaxAsked    \* bound: calls of the three functions by a process

Std == 0..2

ASSUME SocketsAssumption ==
  MaxFd \in Nat /\ Std \subseteq 0..MaxFd /\ MaxFaults \in Nat /\ MaxAsked \in Nat

Closed       == [kind |-> "closed", done |-> {}]
Object(kind) == [kind |-> kind, done |-> {}]

(* The system calls of each function in their order. *)
getSrvSocket(udp) ==
  IF udp THEN <<"socket", "setsockopt", "bind">> ELSE <<"socket", "setsockopt", "bind", "listen">>

getCliSocket(udp) ==
  IF udp THEN <<"socket", "bind any", "connect">> ELSE <<"socket", "connect">>

sendtoUdpSrv == <<"socket", "bind any", "sendto", "close">>

VARIABLES
  fds,     \* the descriptor table of each process
  todo,    \* the system calls its function has still to make
  sock,    \* the descriptor its function works on, or -1
  result,  \* what its last function returned: a descriptor, or -1
  held,    \* history: the descriptors it was given and has not closed
  asked,   \* calls of a function so far
  faults   \* system calls that have failed for a reason of their own

socketVars == <<fds, todo, sock, result, held, asked, faults>>

Busy(p) == todo[p] # <<>>

Open(table) == {n \in 0..MaxFd : table[n].kind # "closed"}

(* The descriptor that the kernel gives next; none when the table is full. *)
LowestFree(table) ==
  LET free == (0..MaxFd) \ Open(table) IN {n \in free : \A m \in free : n <= m}

Listening(p) == \E n \in 0..MaxFd : "listen" \in fds[p][n].done

(* SO_REUSEADDR lets several sockets have the port as long as none listens. *)
PortFree == \A p \in Procs : ~Listening(p)

(* What the next system call works on. *)
Target(p) == IF Head(todo[p]) = "socket" THEN LowestFree(fds[p]) ELSE {sock[p]}

(* The kernel refuses a port that somebody listens on, and a descriptor when *)
(* the table is full.                                                        *)
Refused(p) ==
  \/ Target(p) = {}
  \/ Head(todo[p]) \in {"bind", "listen"} /\ "listen" \in Range(todo[p]) /\ ~PortFree

-----------------------------------------------------------------------------
BeginCall(p, steps) ==
  /\ ~Busy(p)
  /\ todo' = [todo EXCEPT ![p] = steps]
  /\ sock' = [sock EXCEPT ![p] = -1]

(* Descriptor s after a system call that worked. *)
After(p, s) ==
  CASE Head(todo[p]) = "socket" -> Object("socket")
    [] Head(todo[p]) = "close"  -> Closed
    [] OTHER -> [fds[p][s] EXCEPT !.done = @ \cup {Head(todo[p])}]

(* The last call returns the descriptor, unless it has closed it. *)
Delivers(p) == Len(todo[p]) = 1 /\ Head(todo[p]) # "close"

SystemCall(p) ==
  /\ Busy(p) /\ ~Refused(p)
  /\ \E s \in Target(p) :
       /\ sock' = [sock EXCEPT ![p] = s]
       /\ fds' = [fds EXCEPT ![p][s] = After(p, s)]
       /\ result' = [result EXCEPT ![p] = IF Delivers(p) THEN s ELSE -1]
       /\ held' = [held EXCEPT ![p] = IF Delivers(p) THEN @ \cup {s} ELSE @]
  /\ todo' = [todo EXCEPT ![p] = Tail(@)]
  /\ UNCHANGED <<asked, faults>>

(* Definitions named Bug... are deliberate mistakes that nothing uses: they *)
(* check that the properties would notice them.  Here: a path that returns  *)
(* without close.                                                           *)
BugCloses(p) == Head(todo[p]) \notin {"socket", "bind"}

(* Whether the path out of the failed call closes the descriptor. *)
Closes(p) == Head(todo[p]) # "socket"

SystemCallFails(p) ==
  /\ Busy(p) /\ Head(todo[p]) # "close"
  /\ \/ Refused(p) /\ UNCHANGED faults
     \/ faults < MaxFaults /\ faults' = faults + 1
  /\ fds' = IF Closes(p) THEN [fds EXCEPT ![p][sock[p]] = Closed] ELSE fds
  /\ todo' = [todo EXCEPT ![p] = <<>>]
  /\ result' = [result EXCEPT ![p] = -1]
  /\ UNCHANGED <<sock, held, asked>>

CallSteps(p) == SystemCall(p) \/ SystemCallFails(p)

-----------------------------------------------------------------------------
(* Programs that use the three functions and close what they were given. *)

Ask(p) ==
  /\ asked < MaxAsked /\ asked' = asked + 1
  /\ \E udp \in BOOLEAN : \E steps \in {getSrvSocket(udp), getCliSocket(udp), sendtoUdpSrv} :
       BeginCall(p, steps)
  /\ UNCHANGED <<fds, result, held, faults>>

CloseHeld(p) ==
  /\ ~Busy(p)
  /\ \E n \in held[p] \ Std :
       /\ fds' = [fds EXCEPT ![p][n] = Closed]
       /\ held' = [held EXCEPT ![p] = @ \ {n}]
  /\ UNCHANGED <<todo, sock, result, asked, faults>>

(* The descriptors that are open when a process starts. *)
Table(open) == [n \in 0..MaxFd |-> IF n \in open THEN Object("inherited") ELSE Closed]

SocketsInit ==
  /\ held \in [Procs -> SUBSET (0..MaxFd)]
  /\ fds = [p \in Procs |-> Table(held[p])]
  /\ todo = [p \in Procs |-> <<>>]
  /\ sock = [p \in Procs |-> -1]
  /\ result = [p \in Procs |-> -1]
  /\ asked = 0 /\ faults = 0

SocketsNext ==
  \E p \in Procs : Ask(p) \/ CallSteps(p) \/ CloseHeld(p)

SocketsSpec == SocketsInit /\ [][SocketsNext]_socketVars

(* Between two calls a process has open exactly the descriptors that it was  *)
(* given and has not closed: whichever system call failed, at the first or   *)
(* at the tenth attempt, nothing is lost and nothing of the caller is closed. *)
NoDescriptorLost ==
  \A p \in Procs : ~Busy(p) => Open(fds[p]) = held[p]
=============================================================================
