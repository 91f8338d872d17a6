------------------------------- MODULE MCCalls -------------------------------
(***************************************************************************)
(* The library's calls to the kernel: timed reads (TimedIO), socket calls   *)
(* (Sockets) and the server's start that is made of them (ServerStart), and *)
(* message queues (MsgQueue).  A behaviour exercises one of them; the other *)
(* variables keep their initial values.                                     *)
(***************************************************************************)
EXTENDS MCTimedIO, ServerStart, MsgQueue

CONSTANTS p1, p2, waiter, looker, sender, other

TwoServers  == {p1, p2}
OneWaiter   == {waiter}
OneLooker   == {looker}
OneSender   == {sender}
OneOther    == {other}
TwoTypes    == {1, 2}

VARIABLE subject  \* the module this behaviour exercises

NoProcess     == [p \in Procs |-> {}]
StandardStart == std = NoProcess /\ Debug = [p \in Procs |-> FALSE]

(* The first program has little room, the second one was started without 0; *)
(* the first server has 0, 1 and 2 open when it is started.                  *)
Programs == held[p1] = 0..3 /\ held[p2] \in {Std, Std \ {0}}
Servers  == held = NoProcess /\ std[p1] = Std

CallsInit ==
  /\ subject \in {"TimedIO", "Sockets", "ServerStart", "MsgQueue"}
  /\ Init /\ (subject = "TimedIO" \/ ~listening)
  /\ SocketsInit /\ StartInit
  /\ CASE subject = "Sockets" -> Programs /\ StandardStart
       [] subject = "ServerStart" -> Servers
       [] OTHER -> held = NoProcess /\ StandardStart
  /\ QueueInit

CallsNext ==
  /\ \/ /\ subject = "TimedIO" /\ Next
        /\ UNCHANGED <<serverVars, queueVars>>
     \/ /\ subject = "Sockets" /\ SocketsNext
        /\ UNCHANGED <<vars, startVars, queueVars>>
     \/ /\ subject = "ServerStart" /\ ServerNext
        /\ UNCHANGED <<vars, queueVars>>
     \/ /\ subject = "MsgQueue" /\ QueueNext
        /\ UNCHANGED <<vars, serverVars>>
  /\ UNCHANGED subject

(* The fairness of the modules; a step that is enabled in behaviours that    *)
(* exercise another module counts in those of its own only.                  *)
CallsFairness ==
  /\ Fairness
  /\ \A p \in Procs : WF_serverVars(subject = "ServerStart" /\ ServerStep(p))
  /\ \A u \in Users : WF_queueVars(QueueStep(u))
  /\ \A u \in Waiters : SF_queueVars(subject = "MsgQueue" /\ WaitForAny(u))

CallsSpec ==
  CallsInit /\ [][CallsNext]_<<vars, serverVars, queueVars, subject>> /\ CallsFairness
=============================================================================
