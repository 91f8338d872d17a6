---------------------------- MODULE MCThreadPool ----------------------------
(***************************************************************************)
(* Small instances of ThreadPool for TLC.  The configurations choose who   *)
(* calls destroy and which library calls fail.                             *)
(***************************************************************************)
EXTENDS ThreadPool, TLC

CONSTANTS main, other, t1, t2, t3

Main         == {main}
MainAndOther == {main, other}
TwoTasks     == {t1, t2}
ThreeTasks   == {t1, t2, t3}
NoFaults     == {}
AllFaults    == FallibleCalls

(* Tasks are interchangeable; only the runs without liveness may use it. *)
TaskSymmetry == Permutations(Tasks)
=============================================================================
