------------------------------ MODULE TaskQueue ------------------------------
(***************************************************************************)
(* What the thread pool of threadpool.h promises its callers, without      *)
(* threads, locks or a ring buffer: a bounded FIFO of tasks, each taken by *)
(* one worker and run once, and a shutdown that either drops what is still *)
(* queued (immediate) or runs it first (graceful).                         *)
(***************************************************************************)
EXTENDS Naturals, Sequences

CONSTANTS
  Workers,   \* the threads that run tasks
  Tasks,     \* what a caller may submit: the (function, argument) pairs
  Capacity,  \* queue_size
  None       \* "no task"

VARIABLES
  pending,   \* the accepted tasks no worker has taken, oldest first
  running,   \* the task each worker runs, or None
  phase      \* "no" while the pool is open, else the kind of shutdown

vars == <<pending, running, phase>>

Shutdowns == {"immediate", "graceful"}

Init ==
  /\ pending = <<>>
  /\ running = [w \in Workers |-> None]
  /\ phase = "no"

(* A task is accepted while the pool is open and has room. *)
Submit(t) ==
  /\ phase = "no"
  /\ Len(pending) < Capacity
  /\ pending' = Append(pending, t)
  /\ UNCHANGED <<running, phase>>

(* A free worker takes the oldest task; after an immediate shutdown none is *)
(* taken any more.                                                          *)
Take(w) ==
  /\ phase # "immediate"
  /\ running[w] = None
  /\ pending # <<>>
  /\ running' = [running EXCEPT ![w] = Head(pending)]
  /\ pending' = Tail(pending)
  /\ UNCHANGED phase

Finish(w) ==
  /\ running[w] # None
  /\ running' = [running EXCEPT ![w] = None]
  /\ UNCHANGED <<pending, phase>>

(* The pool is shut down at most once and never reopens. *)
Close(mode) ==
  /\ phase = "no"
  /\ phase' = mode
  /\ UNCHANGED <<pending, running>>

Next ==
  \/ \E t \in Tasks : Submit(t)
  \/ \E w \in Workers : Take(w) \/ Finish(w)
  \/ \E mode \in Shutdowns : Close(mode)

Spec == Init /\ [][Next]_vars

(* Some free worker takes a pending task, and every task ends. *)
Fairness ==
  /\ WF_vars(\E w \in Workers : Take(w))
  /\ \A w \in Workers : WF_vars(Finish(w))

FairSpec == Spec /\ Fairness
==============================================================================
