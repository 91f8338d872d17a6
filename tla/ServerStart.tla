---------------------------- MODULE ServerStart ----------------------------
(***************************************************************************)
(* netepoll.c and getInit.c up to the epoll loop, and initlistensocket      *)
(* (sock.c): the server reads its settings, opens the log on descriptor 2,  *)
(* forks, creates the pool and the epoll descriptor, and tries to open its  *)
(* port until it succeeds.  Several servers are started for the same port,  *)
(* and may be killed and started again.                                     *)
(***************************************************************************)
EXTENDS Sockets

CONSTANT MaxKills  \* bound: servers killed

ASSUME ServerStartAssumption == MaxKills \in Nat

VARIABLES
  spc,    \* where each server is
  std,    \* which of the descriptors 0 to 2 are open when it is started
  Debug,  \* whether its settings ask for a log
  Ep_fd,  \* its epoll descriptor, or -1
  kills   \* servers killed so far

startVars  == <<spc, std, Debug, Ep_fd, kills>>
serverVars == <<socketVars, startVars>>

StartInit ==
  /\ std \in [Procs -> SUBSET Std]
  /\ Debug \in [Procs -> BOOLEAN]
  /\ spc = [p \in Procs |-> "down"]
  /\ Ep_fd = [p \in Procs |-> -1]
  /\ kills = 0

ServerInit == SocketsInit /\ held = [p \in Procs |-> {}] /\ StartInit

At(p, label)   == spc[p] = label /\ ~Busy(p)
Goto(p, label) == spc' = [spc EXCEPT ![p] = label]

Fault == faults < MaxFaults /\ faults' = faults + 1

-----------------------------------------------------------------------------
StartServer(p) ==
  /\ At(p, "down")
  /\ fds' = [fds EXCEPT ![p] = Table(std[p])]
  /\ held' = [held EXCEPT ![p] = std[p]]
  /\ Ep_fd' = [Ep_fd EXCEPT ![p] = -1]
  /\ Goto(p, "getInit")
  /\ UNCHANGED <<todo, sock, result, asked, faults, std, Debug, kills>>

(* A process that ends closes everything it has open. *)
Ends(p, label) ==
  /\ fds' = [fds EXCEPT ![p] = Table({})]
  /\ held' = [held EXCEPT ![p] = {}]
  /\ todo' = [todo EXCEPT ![p] = <<>>]
  /\ Goto(p, label)

(* Mistake: after dup2 descriptor 2 is closed, and not the one it was made of. *)
BugLogTable(table, n) == [table EXCEPT ![n] = Object("log"), ![2] = Closed]

(* openLogFile: fopen gives descriptor n, dup2 puts it on 2, fclose closes   *)
(* it; if n is 2 itself, dup2 does nothing.                                  *)
LogTable(table, n) ==
  IF n = 2 THEN table ELSE [table EXCEPT ![2] = Object("log"), ![n] = Closed]

OpensLog(p) ==
  \E n \in LowestFree(fds[p]) :
    /\ fds' = [fds EXCEPT ![p] = LogTable(@, n)]
    /\ held' = [held EXCEPT ![p] = IF n = 2 THEN @ ELSE @ \cup {2}]

(* getInit, whose fopen and fclose of the settings cancel out, as the child *)
(* of its fork goes on with them.  Whether the log was opened is ignored.   *)
GetInit(p) ==
  /\ At(p, "getInit")
  /\ \/ Debug[p] /\ OpensLog(p) /\ UNCHANGED faults
     \/ ~Debug[p] /\ UNCHANGED <<fds, held, faults>>
     \/ Debug[p] /\ Fault /\ UNCHANGED <<fds, held>>
  /\ Goto(p, "epoll_create")
  /\ UNCHANGED <<todo, sock, result, asked, std, Debug, Ep_fd, kills>>

(* The settings cannot be read, fork, threadpool_create or epoll_create     *)
(* fails, or the epoll descriptor is 0, which main takes for a failure.     *)
StartFails(p) ==
  /\ spc[p] \in {"getInit", "epoll_create"} /\ ~Busy(p)
  /\ \/ Fault
     \/ spc[p] = "epoll_create" /\ LowestFree(fds[p]) \in {{}, {0}} /\ UNCHANGED faults
  /\ Ends(p, "ended")
  /\ UNCHANGED <<sock, result, asked, std, Debug, Ep_fd, kills>>

EpollCreate(p) ==
  /\ At(p, "epoll_create")
  /\ \E n \in LowestFree(fds[p]) :
       /\ n > 0
       /\ fds' = [fds EXCEPT ![p][n] = Object("epoll")]
       /\ held' = [held EXCEPT ![p] = @ \cup {n}]
       /\ Ep_fd' = [Ep_fd EXCEPT ![p] = n]
  /\ Goto(p, "socket")
  /\ UNCHANGED <<todo, sock, result, asked, faults, std, Debug, kills>>

(* initlistensocket: getSrvSocket, again and again ... *)
CallGetSrvSocket(p) ==
  /\ At(p, "socket")
  /\ BeginCall(p, getSrvSocket(FALSE))
  /\ Goto(p, "opened")
  /\ UNCHANGED <<fds, result, held, asked, faults, std, Debug, Ep_fd, kills>>

(* Mistake: the error codes of getSrvSocket are not negative. *)
BugRetries(p) == FALSE

Retries(p) == result[p] < 0

(* ... after a sleep whenever it fails; then eventadd and the loop of main. *)
Judge(p) ==
  /\ At(p, "opened")
  /\ Goto(p, IF Retries(p) THEN "socket" ELSE "loop")
  /\ UNCHANGED <<socketVars, std, Debug, Ep_fd, kills>>

(* lprintf opens the log anew when its name has changed. *)
NewLogName(p) ==
  /\ At(p, "loop") /\ Debug[p]
  /\ OpensLog(p)
  /\ UNCHANGED <<todo, sock, result, asked, faults, startVars>>

(* epoll_wait fails when its descriptor is no epoll descriptor any more. *)
LoopEnds(p) ==
  /\ At(p, "loop") /\ fds[p][Ep_fd[p]].kind # "epoll"
  /\ Ends(p, "ended")
  /\ UNCHANGED <<sock, result, asked, faults, std, Debug, Ep_fd, kills>>

Kill(p) ==
  /\ spc[p] \notin {"down", "ended"}
  /\ kills < MaxKills /\ kills' = kills + 1
  /\ Ends(p, "down")
  /\ UNCHANGED <<sock, result, asked, faults, std, Debug, Ep_fd>>

ServerStep(p) ==
  \/ StartServer(p) \/ GetInit(p) \/ StartFails(p) \/ EpollCreate(p)
  \/ CallGetSrvSocket(p) \/ Judge(p) \/ LoopEnds(p)
  \/ CallSteps(p) /\ UNCHANGED startVars

ServerNext == \E p \in Procs : ServerStep(p) \/ NewLogName(p) \/ Kill(p)

ServerSpec == ServerInit /\ [][ServerNext]_serverVars

(* A server that can go on does, sleep returns; nobody needs to be killed. *)
ServerFairness == \A p \in Procs : WF_serverVars(ServerStep(p))

-----------------------------------------------------------------------------
(* A server that was started with descriptor 2 open keeps what it needs: the *)
(* epoll and the listening descriptor are the ones it has created, and its   *)
(* log, opened anew or not, is on descriptor 2 and on no other.  (Started     *)
(* with 2 closed it loses its epoll descriptor to the log.)                  *)
DescriptorsStay ==
  \A p \in Procs : spc[p] = "loop" /\ 2 \in std[p] =>
    /\ fds[p][Ep_fd[p]].kind = "epoll"
    /\ sock[p] \in Nat /\ "listen" \in fds[p][sock[p]].done
    /\ \A n \in 0..MaxFd : fds[p][n].kind = "log" => n = 2

(* A server that tries to open its port is not alone in vain: in the end the *)
(* port is served, by it or by another one, also when the first ones are     *)
(* killed and when all of them try at the same time; unless it ends itself.  *)
PortServed ==
  \A p \in Procs : spc[p] \in {"socket", "opened"} ~>
    (spc[p] \in {"down", "ended"} \/ \E q \in Procs : spc[q] = "loop" /\ Listening(q))
=============================================================================
