---------------------------- MODULE MCEventLoop ----------------------------
(***************************************************************************)
(* Small instances of EventLoop for TLC: what each client sends.           *)
(***************************************************************************)
EXTENDS EventLoop, TLC

CONSTANTS c1, c2, c3, w1, w2

TwoClients   == {c1, c2}
ThreeClients == {c1, c2, c3}
OneWorker    == {w1}
TwoWorkers   == {w1, w2}
NoFaults     == {}
CallFaults   == {"accept", "fcntl", "epoll_ctl", "recv", "send", "epoll_wait"}

(* Packets of one payload byte, which tells them apart; the third client    *)
(* only connects and may find no slot.                                     *)
ScriptOne  == (c1 :> <<<<0, 1, 11>>, <<0, 1, 12>>>>) @@ (c2 :> <<<<0, 1, 21>>>>)
                @@ (c3 :> <<>>)
(* The second client sends a packet that does not fit into the buffer. *)
ScriptLong == (c1 :> <<<<0, 1, 11>>, <<0, 0>>>>) @@ (c2 :> <<<<0, 2, 21, 22>>>>)
=============================================================================
