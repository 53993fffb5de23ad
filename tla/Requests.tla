------------------------------ MODULE Requests ------------------------------
(***************************************************************************)
(* The request threads of the backend, for the components that keep their  *)
(* rows in the SQLite database (src/backend/app.py, conn()).               *)
(*                                                                         *)
(* Python's sqlite3 opens a transaction at the first statement that        *)
(* writes, not at the first that reads.  A request is therefore a sequence *)
(* of atomic steps: every SELECT before that statement is a step of its    *)
(* own, the statements from there to the commit are one step, and other    *)
(* requests run in between.  A request that raises, waits longer than the  *)
(* busy timeout for the write lock, or dies with the process ends between  *)
(* two steps; what it committed stays.                                     *)
(***************************************************************************)
EXTENDS Naturals, Sequences, FiniteSetsExt, Lists

CONSTANTS
  Threads,      \* request threads
  Users,        \* authenticated users
  None          \* SQL NULL

ASSUME NoneAssumption == None \notin Users

VARIABLE
  calls         \* what each thread is doing: where it is and what it has read

Idle == [at |-> "idle"]

InitCalls == calls = [t \in Threads |-> Idle]

IsIdle(t) == calls[t].at = "idle"

At(t, step) == calls[t].at = step

Goto(t, call) == calls' = [calls EXCEPT ![t] = call]

\* The call of thread t as it is, at its next step.
Continue(t, step) == Goto(t, [calls[t] EXCEPT !.at = step])

\* The request is over, answered or refused, with nothing left to say of it.
Finish(t) == Goto(t, Idle)

\* The calls that have come to a step.
Answered(step) == {calls[t] : t \in {u \in Threads : At(u, step)}}

\* The client has the answer, or the request ended without one.
Leave(t) ==
  /\ ~IsIdle(t)
  /\ Finish(t)
=============================================================================
