------------------------------ MODULE LogFile ------------------------------
(***************************************************************************)
(* openLogFile.c: the log file whose name carries the date.  openLogFile    *)
(* opens the file of the current name and puts it on descriptor 2, and     *)
(* every lprintf first checks whether descriptor 2 is still that file: the *)
(* name may have changed at midnight, the file may have been deleted, and  *)
(* another process may have created it anew.                               *)
(*                                                                         *)
(* The threads of one process share descriptor 2 and the environment; each *)
(* system call and each access to the environment is a step.  A name is    *)
(* the day it was expanded on (the configured name has the date in it), a  *)
(* file is a number (its inode).                                           *)
(***************************************************************************)
EXTENDS Integers

CONSTANTS
  Threads,   \* the threads that write log lines
  Starter,   \* the thread that calls openLogFile when the program starts
  MaxDay,    \* bound: days
  MaxCalls,  \* bound: calls of lprintf
  MaxMoves,  \* bound: what others do to the clock and the files
  Faults,    \* the calls that may fail
  None       \* no file, no name, nothing returned

ASSUME LogFileAssumption ==
  /\ Starter \in Threads
  /\ MaxDay \in Nat \ {0} /\ MaxCalls \in Nat /\ MaxMoves \in Nat
  /\ Faults \subseteq {"stat", "popen", "mkdir", "open", "dup2"}
  /\ None \notin Nat

Days     == 1..MaxDay
Terminal == 0  \* what descriptor 2 is before a log file is opened

VARIABLES
  day,       \* the clock
  dir,       \* the file that each name leads to, or None
  place,     \* the directory of the log files exists
  files,     \* files created so far; they are numbered from 1
  stderr,    \* the file behind descriptor 2
  now,       \* the environment variable __LOGFILE_NOW
  ready,     \* the program has started: other threads exist
  pc,        \* where each thread is in lprintf or openLogFile
  exp,       \* exp_filename, or log_filename, of each thread
  linked,    \* whether st_nlink was not 0
  logfp,     \* the file each thread has opened
  ret,       \* what each thread's last openLogFile returned
  disturbed, \* history: during the call something else moved, or failed
  torn,      \* history: a call failed, or two names were being opened at once
  calls,     \* calls of lprintf begun
  moves      \* what others did so far

worldVars  == <<day, dir, place, files>>
threadVars == <<exp, linked, logfp, ret>>
historyVars == <<disturbed, torn, calls, moves>>
vars == <<worldVars, stderr, now, ready, pc, threadVars, historyVars>>

Linked(f) == f = Terminal \/ \E n \in Days : dir[n] = f

Init ==
  /\ day = 1
  /\ dir = [n \in Days |-> None]
  /\ place \in BOOLEAN
  /\ files = 0
  /\ stderr = Terminal
  /\ now = None
  /\ ready = FALSE
  /\ pc = [t \in Threads |-> IF t = Starter THEN "expand" ELSE "idle"]
  /\ exp = [t \in Threads |-> None]
  /\ linked = [t \in Threads |-> FALSE]
  /\ logfp = [t \in Threads |-> None]
  /\ ret = [t \in Threads |-> None]
  /\ disturbed = [t \in Threads |-> FALSE]
  /\ torn = FALSE /\ calls = 0 /\ moves = 0

Goto(t, label) == pc' = [pc EXCEPT ![t] = label]

(* The calls of other threads did not run alone. *)
DisturbOthers(t) == disturbed' = [u \in Threads |-> disturbed[u] \/ u # t]

-----------------------------------------------------------------------------
(* The clock, and other processes with the same log file. *)

Move ==
  /\ moves < MaxMoves
  /\ moves' = moves + 1
  /\ disturbed' = [t \in Threads |-> TRUE]
  /\ UNCHANGED <<stderr, now, ready, pc, threadVars, torn, calls>>

Midnight ==
  /\ Move
  /\ day < MaxDay
  /\ day' = day + 1
  /\ UNCHANGED <<dir, place, files>>

Delete ==
  /\ Move
  /\ \E n \in Days :
       /\ dir[n] # None
       /\ dir' = [dir EXCEPT ![n] = None]
  /\ UNCHANGED <<day, place, files>>

DeletePlace ==
  /\ Move
  /\ place
  /\ place' = FALSE
  /\ dir' = [n \in Days |-> None]
  /\ UNCHANGED <<day, files>>

(* Another process writes its first line after midnight, or after a delete. *)
OtherCreates ==
  /\ Move
  /\ dir[day] = None
  /\ place' = TRUE
  /\ files' = files + 1
  /\ dir' = [dir EXCEPT ![day] = files + 1]
  /\ UNCHANGED day

-----------------------------------------------------------------------------
(* lprintf: the checks before a line is written. *)

(* Without __LOGFILE_NOW there is nothing to check. *)
BeginLine(t) ==
  /\ pc[t] = "idle" /\ ready /\ calls < MaxCalls
  /\ calls' = calls + 1
  /\ IF now = None
     THEN Goto(t, "write") /\ UNCHANGED exp
     ELSE Goto(t, "compare") /\ exp' = [exp EXCEPT ![t] = day]
  /\ ret' = [ret EXCEPT ![t] = None]
  /\ disturbed' = [disturbed EXCEPT ![t] = \E u \in Threads : pc[u] # "idle"]
  /\ UNCHANGED <<worldVars, stderr, now, ready, linked, logfp, torn, moves>>

CompareName(t) ==
  /\ pc[t] = "compare"
  /\ Goto(t, IF exp[t] # now THEN "expand" ELSE "fstat")
  /\ UNCHANGED <<worldVars, stderr, now, ready, threadVars, historyVars>>

Fstat(t) ==
  /\ pc[t] = "fstat"
  /\ linked' = [linked EXCEPT ![t] = Linked(stderr)]
  /\ Goto(t, "access")
  /\ UNCHANGED <<worldVars, stderr, now, ready, exp, logfp, ret, historyVars>>

(* Definitions named Bug... are deliberate mistakes that no action uses:   *)
(* they check that the properties would notice them.  Here: a file that is *)
(* there under the name is taken for the open one.                         *)
BugMustReopen(t) == dir[exp[t]] = None

MustReopen(t) == dir[exp[t]] = None \/ ~linked[t]

Access(t) ==
  /\ pc[t] = "access"
  /\ Goto(t, IF MustReopen(t) THEN "expand" ELSE "write")
  /\ UNCHANGED <<worldVars, stderr, now, ready, threadVars, historyVars>>

(* The line goes to whatever descriptor 2 is by now. *)
WriteLine(t) ==
  /\ pc[t] = "write"
  /\ Goto(t, "idle")
  /\ UNCHANGED <<worldVars, stderr, now, ready, threadVars, historyVars>>

-----------------------------------------------------------------------------
(* openLogFile. *)

(* The threads that will set __LOGFILE_NOW or descriptor 2. *)
Switching == {t \in Threads : pc[t] \in {"setenv", "place", "fopen", "dup2"}}

(* Mistake: lprintf passes the name of the file it wants to leave. *)
BugCurrentName == IF now = None THEN day ELSE now

(* The configured name is expanded anew. *)
CurrentName == day

ExpandName(t) ==
  /\ pc[t] = "expand"
  /\ exp' = [exp EXCEPT ![t] = CurrentName]
  /\ torn' = (torn \/ \E u \in Switching : exp[u] # CurrentName)
  /\ Goto(t, "setenv")
  /\ UNCHANGED <<worldVars, stderr, now, ready, linked, logfp, ret, disturbed,
                 calls, moves>>

(* Mistake: __LOGFILE_NOW gets the name of the day after. *)
BugSetNow(t) ==
  /\ pc[t] = "setenv"
  /\ now' = day + 1
  /\ Goto(t, "place")
  /\ DisturbOthers(t)
  /\ UNCHANGED <<worldVars, stderr, ready, threadVars, torn, calls, moves>>

(* __LOGFILE_NOW has the new name before the file is open. *)
SetNow(t) ==
  /\ pc[t] = "setenv"
  /\ now' = exp[t]
  /\ Goto(t, "place")
  /\ DisturbOthers(t)
  /\ UNCHANGED <<worldVars, stderr, ready, threadVars, torn, calls, moves>>

(* Back to lprintf, or to the program that starts. *)
ReturnFrom(t, r) ==
  /\ ret' = [ret EXCEPT ![t] = r]
  /\ Goto(t, IF ready THEN "write" ELSE "idle")
  /\ ready' = TRUE

(* A call that fails: openLogFile says so on stdout and returns r. *)
Fails(t, call, r) ==
  /\ call \in Faults
  /\ ReturnFrom(t, r)
  /\ disturbed' = [disturbed EXCEPT ![t] = TRUE]
  /\ torn' = TRUE
  /\ UNCHANGED <<worldVars, stderr, now, exp, linked, logfp, calls, moves>>

(* The directory is there: stat succeeds. *)
PlaceFound(t) ==
  /\ pc[t] = "place" /\ place
  /\ Goto(t, "fopen")
  /\ UNCHANGED <<worldVars, stderr, now, ready, threadVars, historyVars>>

(* mkdir -p by a child process, whose success nobody looks at. *)
MakePlace(t) ==
  /\ pc[t] = "place" /\ ~place
  /\ place' = TRUE \/ ("mkdir" \in Faults /\ place' = FALSE)
  /\ Goto(t, "fopen")
  /\ disturbed' = [u \in Threads |-> disturbed[u] \/ u # t \/ ~place']
  /\ UNCHANGED <<day, dir, files, stderr, now, ready, threadVars, torn, calls,
                 moves>>

PlaceFails(t) ==
  /\ pc[t] = "place"
  /\ Fails(t, "stat", 0) \/ (~place /\ Fails(t, "popen", 0))

(* fopen with "a+": the file of that name, or a new one. *)
Fopen(t) ==
  /\ pc[t] = "fopen" /\ place
  /\ IF dir[exp[t]] # None
     THEN /\ logfp' = [logfp EXCEPT ![t] = dir[exp[t]]]
          /\ UNCHANGED <<dir, files, disturbed>>
     ELSE /\ logfp' = [logfp EXCEPT ![t] = files + 1]
          /\ dir' = [dir EXCEPT ![exp[t]] = files + 1]
          /\ files' = files + 1
          /\ DisturbOthers(t)
  /\ Goto(t, "dup2")
  /\ UNCHANGED <<day, place, stderr, now, ready, exp, linked, ret, torn, calls,
                 moves>>

(* The directory went away again, or the limit of open files is reached. *)
FopenFails(t) ==
  /\ pc[t] = "fopen"
  /\ \/ Fails(t, "open", 0)
     \/ /\ ~place
        /\ ReturnFrom(t, 0)
        /\ disturbed' = [disturbed EXCEPT ![t] = TRUE]
        /\ UNCHANGED <<worldVars, stderr, now, exp, linked, logfp, torn, calls,
                       moves>>

(* dup2 onto descriptor 2, then fclose. *)
Dup2(t) ==
  /\ pc[t] = "dup2"
  /\ stderr' = logfp[t]
  /\ ReturnFrom(t, 0)
  /\ DisturbOthers(t)
  /\ UNCHANGED <<worldVars, now, exp, linked, logfp, torn, calls, moves>>

Dup2Fails(t) ==
  /\ pc[t] = "dup2"
  /\ Fails(t, "dup2", -1)

-----------------------------------------------------------------------------
Step(t) ==
  \/ BeginLine(t) \/ CompareName(t) \/ Fstat(t) \/ Access(t) \/ WriteLine(t)
  \/ ExpandName(t) \/ SetNow(t) \/ PlaceFound(t) \/ MakePlace(t) \/ PlaceFails(t)
  \/ Fopen(t) \/ FopenFails(t) \/ Dup2(t) \/ Dup2Fails(t)

Next ==
  \/ Midnight \/ Delete \/ DeletePlace \/ OtherCreates
  \/ \E t \in Threads : Step(t)

Spec == Init /\ [][Next]_vars

-----------------------------------------------------------------------------
Pcs == {"idle", "compare", "fstat", "access", "write", "expand", "setenv",
        "place", "fopen", "dup2"}

TypeOK ==
  /\ day \in Days
  /\ dir \in [Days -> 1..files \cup {None}]
  /\ place \in BOOLEAN /\ ready \in BOOLEAN
  /\ files \in Nat
  /\ stderr \in 0..files
  /\ now \in Days \cup {None}
  /\ pc \in [Threads -> Pcs]
  /\ exp \in [Threads -> Days \cup {None}]
  /\ linked \in [Threads -> BOOLEAN]
  /\ logfp \in [Threads -> 1..files \cup {None}]
  /\ ret \in [Threads -> {None, 0, -1}]
  /\ disturbed \in [Threads -> BOOLEAN] /\ torn \in BOOLEAN
  /\ calls \in 0..MaxCalls /\ moves \in 0..MaxMoves

(* Once a log file is open, a line goes to the file that the current name   *)
(* leads to, unless something moved or failed while lprintf was at work:    *)
(* whatever happened before the call (midnight, a deleted file or           *)
(* directory, a new file of the same name, in any order), its checks notice *)
(* and openLogFile repairs it.                                              *)
LineInCurrentFile ==
  \A t \in Threads :
    pc[t] = "write" /\ stderr # Terminal /\ ~disturbed[t] => stderr = dir[day]

(* The same as long as no library call of openLogFile has failed and no two *)
(* threads have been opening files of different names at once; two threads  *)
(* that open the same name do no harm.                                      *)
LineInCurrentFileUnlessTorn == torn \/ LineInCurrentFile

(* When lprintf had to call openLogFile and nothing disturbed that, the line *)
(* goes to the current file, whatever failed or raced before: a descriptor  *)
(* that was left behind is repaired by the next reopening at the latest.     *)
ReopenRepairs ==
  \A t \in Threads :
    pc[t] = "write" /\ ret[t] = 0 /\ ~disturbed[t] => stderr = dir[day]

-----------------------------------------------------------------------------
(* The inductive invariant of LogFileProofs.                               *)

(* The threads that have set __LOGFILE_NOW and not yet descriptor 2. *)
Opening == {t \in Threads : pc[t] \in {"place", "fopen", "dup2"}}

(* A file has one name, and none when the directory is gone. *)
OneNameEach ==
  /\ \A m, n \in Days : dir[m] = dir[n] /\ dir[m] # None => m = n
  /\ ~place => \A n \in Days : dir[n] = None

(* A thread in openLogFile has its name, and the file it opened has no other. *)
OpenedByName ==
  /\ \A t \in Switching : exp[t] \in Days
  /\ \A t \in Opening : now # None
  /\ \A t \in Threads : pc[t] = "dup2" =>
       logfp[t] # None /\ \A n \in Days : dir[n] = logfp[t] => n = exp[t]
  /\ now = None => stderr = Terminal

(* Unless it has been torn, all who open a file open that of __LOGFILE_NOW. *)
OneNameAtOnce ==
  ~torn => /\ \A t, u \in Switching : exp[t] = exp[u]
           /\ \A t \in Opening : exp[t] = now

(* Descriptor 2 is never left on a file that has another name than          *)
(* __LOGFILE_NOW says: the checks of lprintf would not notice that.         *)
NotLeftBehind ==
  ~torn /\ Opening = {} /\ stderr # Terminal =>
    \A n \in Days : dir[n] = stderr => n = now

(* What the checks and openLogFile have found still holds undisturbed. *)
ChecksHold ==
  \A t \in Threads : ~disturbed[t] =>
    /\ Opening \subseteq {t}
    /\ pc[t] \in {"compare", "fstat", "access"} \cup {"setenv", "place", "fopen", "dup2"}
         => exp[t] = day
    /\ pc[t] \in {"fstat", "access"} => now = day
    /\ pc[t] = "access" /\ linked[t] => Linked(stderr)
    /\ pc[t] = "dup2" => logfp[t] = dir[day]
    /\ pc[t] \in {"compare", "fstat", "access"} => ret[t] = None

LogInv ==
  /\ TypeOK
  /\ OneNameEach
  /\ OpenedByName
  /\ OneNameAtOnce
  /\ NotLeftBehind
  /\ ChecksHold
  /\ LineInCurrentFileUnlessTorn
  /\ ReopenRepairs
=============================================================================
