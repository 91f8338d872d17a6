------------------------------ MODULE MCLogFile ------------------------------
(***************************************************************************)
(* Small instances of LogFile for TLC.                                     *)
(***************************************************************************)
EXTENDS LogFile

CONSTANTS main, worker

TwoThreads == {main, worker}
NoFaults   == {}
OpenFaults == {"stat", "popen", "mkdir", "open", "dup2"}
=============================================================================
