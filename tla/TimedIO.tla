------------------------------ MODULE TimedIO ------------------------------
(***************************************************************************)
(* tcptool.c: the calls that read from, or accept on, one descriptor under *)
(* a time limit.  read_t and accept_t set an alarm and let SIGALRM break   *)
(* the blocking call; read_t_r, tread and accept_t_r ask select first.     *)
(*                                                                         *)
(* Time is abstract: an alarm set may go off, and select may give up, at   *)
(* any moment.  Bytes of the stream, and connections of a listening        *)
(* socket, are numbered in the order they arrive.                          *)
(***************************************************************************)
EXTENDS Integers

CONSTANTS
  Threads,     \* the threads that call these functions
  Fns,         \* the functions they call
  Read_len,    \* Read_len of every read
  MaxArrived,  \* bound: bytes, or connections, that arrive
  MaxCalls,    \* bound: calls in a run
  MaxSignals,  \* bound: other signals whose handler does not restart calls
  None         \* nothing written, nothing returned

Reads   == {"read_t", "read_t_r", "tread"}
Accepts == {"accept_t", "accept_t_r"}

ASSUME TimedIOAssumption ==
  /\ Fns \subseteq Reads \cup Accepts
  /\ Read_len \in Nat \ {0}
  /\ MaxArrived \in Nat /\ MaxCalls \in Nat /\ MaxSignals \in Nat
  /\ None \notin Threads \cup Nat \cup {"ok", "closed", "timeout", "error"}

VARIABLES
  _Exp_flag,  \* the static flag that the SIGALRM handler sets
  pending,    \* the thread that set the alarm of the process, while it runs
  arrived,    \* units that reached the descriptor
  taken,      \* units the process has taken from it
  listening,  \* the descriptor is a listening socket, not a stream
  peer,       \* the other end: "open", "closed" or "reset"
  pc,         \* where each thread is in its call
  call,       \* the call: function and whether its Timeout is positive
  read_len,   \* read_len of the call
  Buf,        \* Buf of the call, by position
  errno,      \* why the blocking call of each thread failed
  ret,        \* what each thread's last call returned
  fired,      \* history: whose alarms went off during the call
  aligned,    \* history: every call so far read a whole record
  calls,      \* calls begun
  signals     \* other signals so far

deviceVars  == <<arrived, taken, listening, peer>>
callVars    == <<call, errno>>
dataVars    == <<read_len, Buf>>
historyVars == <<fired, aligned, calls, signals>>
vars == <<_Exp_flag, pending, deviceVars, pc, callVars, dataVars, ret, historyVars>>

Fn(t)    == call[t].fn
Timed(t) == call[t].timed

UsesAlarm(t) == Timed(t) /\ Fn(t) \in {"read_t", "accept_t"}

(* accept_t_r calls select also when its Timeout is not positive. *)
UsesSelect(t) ==
  Fn(t) = "accept_t_r" \/ (Timed(t) /\ Fn(t) \in {"read_t_r", "tread"})

(* What can be called on a listening socket, and on a stream. *)
FnsFor(accepting) == Fns \cap (IF accepting THEN Accepts ELSE Reads)

Wanted(t) == IF Fn(t) \in Accepts THEN 1 ELSE Read_len

(* Definitions named Bug... are deliberate mistakes that no action uses:   *)
(* they check that the properties would notice them.  Here: the request is *)
(* not reduced by what is already in Buf.                                  *)
BugRequest(t) == Wanted(t)

(* The length passed to read: Read_len - read_len. *)
Request(t) == Wanted(t) - read_len[t]

(* Mistake: select is called once, before the loop. *)
BugNextChunk(t) == "read"

(* Mistake: every portion goes to the start of Buf. *)
BugFilled(t, n) ==
  [j \in 1..Read_len |-> IF j \in 1..n THEN taken + j ELSE Buf[t][j]]

(* The buffer after the next n units went to Buf + read_len. *)
Filled(t, n) ==
  [j \in 1..Read_len |->
     IF j - read_len[t] \in 1..n THEN taken + j - read_len[t] ELSE Buf[t][j]]

(* The loop of read_t_r calls select again before every read. *)
NextChunk(t) == IF UsesSelect(t) THEN "select" ELSE "read"

(* Mistake: the return after a failed call forgets alarm(0). *)
BugDisarms(t) == UsesAlarm(t) /\ pc[t] # "failed"

(* Whether the way out the thread is on calls alarm(0). *)
Disarms(t) == UsesAlarm(t)

Ready == arrived > taken \/ peer # "open"

Init ==
  /\ _Exp_flag = FALSE
  /\ pending = None
  /\ arrived = 0 /\ taken = 0 /\ peer = "open"
  /\ listening \in {accepting \in BOOLEAN : FnsFor(accepting) # {}}
  /\ pc = [t \in Threads |-> "idle"]
  /\ call \in [Threads -> [fn : {CHOOSE fn \in Fns : TRUE}, timed : {FALSE}]]
  /\ read_len = [t \in Threads |-> 0]
  /\ Buf = [t \in Threads |-> [j \in 1..Read_len |-> None]]
  /\ errno = [t \in Threads |-> None]
  /\ ret = [t \in Threads |-> None]
  /\ fired = [t \in Threads |-> {}]
  /\ aligned = TRUE /\ calls = 0 /\ signals = 0

-----------------------------------------------------------------------------
(* The other end. *)

Arrive ==
  /\ peer = "open" /\ arrived < MaxArrived
  /\ arrived' = arrived + 1
  /\ UNCHANGED <<_Exp_flag, pending, taken, listening, peer, pc, callVars, dataVars,
                 ret, historyVars>>

PeerEnds ==
  /\ peer = "open" /\ ~listening
  /\ peer' \in {"closed", "reset"}
  /\ UNCHANGED <<_Exp_flag, pending, arrived, taken, listening, pc, callVars,
                 dataVars, ret, historyVars>>

-----------------------------------------------------------------------------
(* The caller. *)

Begin(t) ==
  /\ pc[t] = "idle" /\ calls < MaxCalls
  /\ \E fn \in FnsFor(listening), timed \in BOOLEAN :
       /\ call' = [call EXCEPT ![t] = [fn |-> fn, timed |-> timed]]
       /\ pc' = [pc EXCEPT ![t] =
                   IF timed /\ fn \in {"read_t", "accept_t"} THEN "alarm"
                   ELSE IF fn = "accept_t_r" \/ (timed /\ fn \in Reads)
                   THEN "select" ELSE "read"]
  /\ read_len' = [read_len EXCEPT ![t] = 0]
  /\ Buf' = [Buf EXCEPT ![t] = [j \in 1..Read_len |-> None]]
  /\ errno' = [errno EXCEPT ![t] = None]
  /\ ret' = [ret EXCEPT ![t] = None]
  /\ fired' = [fired EXCEPT ![t] = {}]
  /\ calls' = calls + 1
  /\ UNCHANGED <<_Exp_flag, pending, deviceVars, aligned, signals>>

Return(t, r) ==
  /\ pc' = [pc EXCEPT ![t] = "idle"]
  /\ ret' = [ret EXCEPT ![t] = r]
  /\ aligned' = (aligned /\ r = "ok" /\ Fn(t) \in {"read_t", "read_t_r"})

(* alarm(Timeout), after sigaction has installed the handler.  The process   *)
(* has one alarm: a running one of another thread is replaced.               *)
SetAlarm(t) ==
  /\ pc[t] = "alarm"
  /\ pending' = t
  /\ pc' = [pc EXCEPT ![t] = "clear"]
  /\ UNCHANGED <<_Exp_flag, deviceVars, callVars, dataVars, ret, historyVars>>

(* Mistake: _Exp_flag keeps its old value. *)
BugClearFlag(t) ==
  /\ pc[t] = "clear"
  /\ pc' = [pc EXCEPT ![t] = "read"]
  /\ UNCHANGED <<_Exp_flag, pending, deviceVars, callVars, dataVars, ret,
                 historyVars>>

(* _Exp_flag = 0, with the alarm already running. *)
ClearFlag(t) ==
  /\ pc[t] = "clear"
  /\ _Exp_flag' = FALSE
  /\ pc' = [pc EXCEPT ![t] = "read"]
  /\ UNCHANGED <<pending, deviceVars, callVars, dataVars, ret, historyVars>>

SelectReady(t) ==
  /\ pc[t] = "select" /\ Ready
  /\ pc' = [pc EXCEPT ![t] = "read"]
  /\ UNCHANGED <<_Exp_flag, pending, deviceVars, callVars, dataVars, ret,
                 historyVars>>

SelectTimesOut(t) ==
  /\ pc[t] = "select" /\ ~Ready
  /\ Return(t, "timeout")
  /\ UNCHANGED <<_Exp_flag, pending, deviceVars, callVars, dataVars, fired, calls,
                 signals>>

(* The thread enters read or accept and finds nothing there. *)
Block(t) ==
  /\ pc[t] = "read" /\ ~Ready
  /\ pc' = [pc EXCEPT ![t] = "blocked"]
  /\ UNCHANGED <<_Exp_flag, pending, deviceVars, callVars, dataVars, ret,
                 historyVars>>

(* read or accept takes what has arrived, in any portion up to the request. *)
Transfer(t) ==
  /\ pc[t] \in {"read", "blocked"} /\ arrived > taken
  /\ \E n \in 1..Request(t) :
       /\ n <= arrived - taken
       /\ Buf' = [Buf EXCEPT ![t] = Filled(t, n)]
       /\ taken' = taken + n
       /\ read_len' = [read_len EXCEPT ![t] = read_len[t] + n]
       /\ pc' = [pc EXCEPT ![t] =
                   IF read_len[t] + n < Wanted(t) /\ Fn(t) # "tread"
                   THEN NextChunk(t) ELSE "done"]
  /\ UNCHANGED <<_Exp_flag, pending, arrived, listening, peer, callVars, ret,
                 historyVars>>

(* read finds the end of the stream: 0 after a close, ECONNRESET once after *)
(* a reset.                                                                *)
StreamEnded(t) ==
  /\ pc[t] \in {"read", "blocked"} /\ arrived = taken /\ peer # "open"
  /\ IF peer = "closed"
     THEN /\ pc' = [pc EXCEPT ![t] = "eof"]
          /\ UNCHANGED <<errno, peer>>
     ELSE /\ pc' = [pc EXCEPT ![t] = "failed"]
          /\ errno' = [errno EXCEPT ![t] = "ECONNRESET"]
          /\ peer' = "closed"
  /\ UNCHANGED <<_Exp_flag, pending, arrived, taken, listening, call, dataVars, ret,
                 historyVars>>

(* After a failed read or accept: alarm(0), before the flag is read. *)
CancelAlarm(t) ==
  /\ pc[t] = "failed"
  /\ pending' = (IF Disarms(t) THEN None ELSE pending)
  /\ pc' = [pc EXCEPT ![t] = "judge"]
  /\ UNCHANGED <<_Exp_flag, deviceVars, callVars, dataVars, ret, historyVars>>

FailureCode(t) ==
  CASE Fn(t) \in {"read_t", "accept_t"} /\ _Exp_flag -> "timeout"
    [] Fn(t) = "read_t" /\ ~_Exp_flag /\ errno[t] = "ECONNRESET" -> "closed"
    [] Fn(t) = "read_t_r" /\ errno[t] = "ECONNRESET" -> "closed"
    [] OTHER -> "error"

ReturnFailure(t) ==
  /\ pc[t] = "judge"
  /\ Return(t, FailureCode(t))
  /\ UNCHANGED <<_Exp_flag, pending, deviceVars, callVars, dataVars, fired, calls,
                 signals>>

(* The whole length, or the end of the stream, has been read: alarm(0) and  *)
(* return.  tread hands on the 0 of read.                                  *)
ReturnRead(t) ==
  /\ pc[t] \in {"done", "eof"}
  /\ pending' = (IF Disarms(t) THEN None ELSE pending)
  /\ Return(t, IF pc[t] = "eof" /\ Fn(t) # "tread" THEN "closed" ELSE "ok")
  /\ UNCHANGED <<_Exp_flag, deviceVars, callVars, dataVars, fired, calls, signals>>

-----------------------------------------------------------------------------
(* Signals: a thread inside the kernel is interrupted, one that is not      *)
(* carries on after the handler.                                            *)

Interrupted(t) ==
  IF pc[t] = "blocked"
  THEN /\ pc' = [pc EXCEPT ![t] = "failed"]
       /\ errno' = [errno EXCEPT ![t] = "EINTR"]
       /\ UNCHANGED <<ret, aligned>>
  ELSE UNCHANGED <<pc, errno, ret, aligned>>

(* select fails with EINTR: accept_t_r tries again, the others give up. *)
SelectInterrupted(t) ==
  /\ pc[t] = "select" /\ Fn(t) # "accept_t_r"
  /\ Return(t, "error")
  /\ UNCHANGED errno

(* The alarm goes off; _timeout_proc runs in some thread. *)
AlarmFires ==
  /\ pending # None
  /\ pending' = None
  /\ _Exp_flag' = TRUE
  /\ fired' = [t \in Threads |-> fired[t] \cup {pending}]
  /\ \E t \in Threads : Interrupted(t) \/ SelectInterrupted(t)
  /\ UNCHANGED <<deviceVars, call, dataVars, calls, signals>>

OtherSignal(t) ==
  /\ signals < MaxSignals
  /\ signals' = signals + 1
  /\ Interrupted(t) \/ SelectInterrupted(t)
  /\ UNCHANGED <<_Exp_flag, pending, deviceVars, call, dataVars, fired, calls>>

-----------------------------------------------------------------------------
Step(t) ==
  \/ SetAlarm(t) \/ ClearFlag(t)
  \/ SelectReady(t) \/ SelectTimesOut(t)
  \/ Block(t) \/ Transfer(t) \/ StreamEnded(t)
  \/ CancelAlarm(t) \/ ReturnFailure(t) \/ ReturnRead(t)

Next ==
  \/ Arrive \/ PeerEnds \/ AlarmFires
  \/ \E t \in Threads : Begin(t) \/ Step(t) \/ OtherSignal(t)

(* A thread that can run does, an alarm goes off in the end, and select     *)
(* gives up in the end.  Nothing obliges the other end.                     *)
Fairness ==
  /\ \A t \in Threads : WF_vars(Step(t))
  /\ WF_vars(AlarmFires)

Spec == Init /\ [][Next]_vars /\ Fairness

-----------------------------------------------------------------------------
Pcs == {"idle", "alarm", "clear", "select", "read", "blocked", "failed",
        "judge", "done", "eof"}

TypeOK ==
  /\ _Exp_flag \in BOOLEAN /\ pending \in Threads \cup {None} /\ aligned \in BOOLEAN
  /\ arrived \in 0..MaxArrived /\ taken \in 0..arrived
  /\ peer \in {"open", "closed", "reset"} /\ listening \in BOOLEAN
  /\ pc \in [Threads -> Pcs]
  /\ call \in [Threads -> [fn : Fns, timed : BOOLEAN]]
  /\ read_len \in [Threads -> 0..Read_len]
  /\ Buf \in [Threads -> [1..Read_len -> 1..MaxArrived \cup {None}]]
  /\ errno \in [Threads -> {None, "EINTR", "ECONNRESET"}]
  /\ ret \in [Threads -> {None, "ok", "closed", "timeout", "error"}]
  /\ fired \in [Threads -> SUBSET Threads]
  /\ calls \in 0..MaxCalls /\ signals \in 0..MaxSignals

(* No alarm outlives the call that set it: whichever way a call ends, a      *)
(* SIGALRM of its time limit cannot break into what the thread does next.   *)
NoStrayAlarm ==
  (\A t \in Threads : pc[t] = "idle") => pending = None

(* A call with an alarm says "timeout" only when its own limit ran out, as   *)
(* long as no alarm of another thread went off while it lasted: the static   *)
(* flag of an earlier call does not show through, although it is never reset *)
(* on the way out.  An alarm of another thread does show through, since the  *)
(* process has one flag and one alarm.                                       *)
TimeoutIsOwn ==
  \A t \in Threads :
    pc[t] = "idle" /\ ret[t] = "timeout" /\ UsesAlarm(t) /\ fired[t] \subseteq {t}
      => t \in fired[t]

(* As long as read_t and read_t_r return whole records, they cut the stream  *)
(* into consecutive ones: what the k-th call left in Buf are the bytes after *)
(* the (k-1)-th record, in order, however the bytes came in, and nothing     *)
(* beyond them has been taken from the stream.                               *)
RecordsStayAligned ==
  \A t \in Threads :
    pc[t] = "idle" /\ ret[t] = "ok" /\ aligned =>
      /\ taken = Read_len * calls
      /\ Buf[t] = [j \in 1..Read_len |-> Read_len * (calls - 1) + j]

(* A call with a time limit that asks select first returns, also when the    *)
(* bytes trickle in and stop, as long as no other thread takes what select   *)
(* has seen.                                                                 *)
SelectCallsReturn ==
  \A t \in Threads :
    (pc[t] # "idle" /\ Timed(t) /\ UsesSelect(t)) ~> pc[t] = "idle"

(* Every call with a time limit returns, as the comments of tcptool.c say.   *)
TimedCallsReturn ==
  \A t \in Threads :
    (pc[t] # "idle" /\ Timed(t)) ~> pc[t] = "idle"

-----------------------------------------------------------------------------
(* The inductive invariant of TimedIOProofs.                               *)

(* What is set up before the blocking call is what the call is limited by. *)
LimitedBy ==
  \A t \in Threads :
    /\ pc[t] \in {"alarm", "clear"} => UsesAlarm(t)
    /\ pc[t] = "select" => UsesSelect(t)

(* The alarm belongs to a call that will still cancel it. *)
AlarmOwned ==
  pending # None =>
    /\ UsesAlarm(pending)
    /\ pc[pending] \in {"clear", "read", "blocked", "failed", "done", "eof"}

(* Once a call has cleared the flag, only an alarm can set it again. *)
FlagIsOwn ==
  \A t \in Threads :
    UsesAlarm(t) /\ _Exp_flag /\ pc[t] \in {"read", "blocked", "failed", "judge", "done", "eof"}
      => fired[t] # {}

(* A call that is done has all it wanted, one that is idle lies behind. *)
RecordSoFar ==
  \A t \in Threads :
    /\ pc[t] = "done" /\ Fn(t) \in {"read_t", "read_t_r"} => read_len[t] = Read_len
    /\ aligned /\ pc[t] = "idle" => taken = Read_len * calls
    /\ aligned /\ pc[t] # "idle" =>
         /\ calls > 0 /\ taken = Read_len * (calls - 1) + read_len[t]
         /\ \A j \in 1..read_len[t] : Buf[t][j] = Read_len * (calls - 1) + j

TimedInv == TypeOK /\ LimitedBy /\ AlarmOwned /\ FlagIsOwn /\ TimeoutIsOwn
=============================================================================
