------------------------------ MODULE MCTimedIO ------------------------------
(***************************************************************************)
(* Small instances of TimedIO for TLC.                                     *)
(***************************************************************************)
EXTENDS TimedIO

CONSTANT t1

OneThread  == {t1}

EveryFn    == {"read_t", "read_t_r", "tread", "accept_t", "accept_t_r"}
ReadSignal == {"read_t"}
=============================================================================
