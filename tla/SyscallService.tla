--------------------------- MODULE SyscallService ---------------------------
(***************************************************************************)
(* What make_syscall promises to the thread that calls it, with the policy *)
(* hook, the handler table and the grates hidden.                          *)
(*                                                                         *)
(* A call is issued, its outcome is decided exactly once, and that outcome *)
(* reaches the caller unchanged however many grates it unwinds through.    *)
(* The outcome "ok" stands for "rawposix ran"; that no other step decides  *)
(* it is up to what the implementation maps to it.  A call whose outcome   *)
(* is decided is not decided again: it is not refused after the leaf, and  *)
(* does not reach the leaf twice.                                          *)
(* The whole process may abort at any time and then nothing happens again. *)
(***************************************************************************)

CONSTANTS
  Thread,     \* the threads that issue system calls
  Errno       \* the error codes a call can be refused with

VARIABLES
  phase,      \* phase[t]: "idle", "pending", or the decided outcome
  answer,     \* answer[t]: what t's last finished call returned
  down        \* the process has aborted

vars == <<phase, answer, down>>

Outcome == {"ok"} \cup Errno

Init ==
  /\ phase = [t \in Thread |-> "idle"]
  /\ answer = [t \in Thread |-> "none"]
  /\ down = FALSE

\* t issues a system call.
Begin(t) ==
  /\ ~down
  /\ phase[t] = "idle"
  /\ phase' = [phase EXCEPT ![t] = "pending"]
  /\ UNCHANGED <<answer, down>>

\* The call is served by rawposix ("ok") or refused on the way there.
Decide(t, o) ==
  /\ ~down
  /\ phase[t] = "pending"
  /\ phase' = [phase EXCEPT ![t] = o]
  /\ UNCHANGED <<answer, down>>

\* The decided outcome becomes the call's return value.
Answer(t) ==
  /\ ~down
  /\ phase[t] \in Outcome
  /\ answer' = [answer EXCEPT ![t] = phase[t]]
  /\ phase' = [phase EXCEPT ![t] = "idle"]
  /\ UNCHANGED down

\* A panic below make_syscall, which cannot unwind, ends the process.
Crash ==
  /\ ~down
  /\ down' = TRUE
  /\ UNCHANGED <<phase, answer>>

Next ==
  \/ \E t \in Thread : Begin(t) \/ Answer(t) \/ \E o \in Outcome : Decide(t, o)
  \/ Crash

Spec == Init /\ [][Next]_vars
=============================================================================
