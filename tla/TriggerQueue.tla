---------------------------- MODULE TriggerQueue ----------------------------
(***************************************************************************)
(* What the orchestrator's triggerer promises its callers, whatever the    *)
(* goroutines, tmux commands and failures behind it do.                    *)
(*                                                                         *)
(* A trigger request is queued at most once.  While its caller has no      *)
(* answer it is "waiting" and may still be withdrawn with an error; once   *)
(* the caller was told that all is well it is "accepted" and can only      *)
(* leave the queue by being launched.  Requests are launched one at a time *)
(* and in the order in which they were queued, and none is launched after  *)
(* Close returned to its caller.                                           *)
(***************************************************************************)
EXTENDS Naturals, Sequences

CONSTANTS Requests,   \* one element per call of Trigger
          MaxQueued   \* maxQueuedReasons, 256 in the code

VARIABLES pending,    \* the queued requests, oldest first
          launched,   \* the requests whose harness run was started, in order
          status,     \* what the caller of each request knows
          stopped     \* Close returned

vars == <<pending, launched, status, stopped>>

Statuses == {"new", "waiting", "accepted", "refused"}

Init ==
  /\ pending = <<>>
  /\ launched = <<>>
  /\ status = [r \in Requests |-> "new"]
  /\ stopped = FALSE

\* A request enters the queue; its caller may get its answer at once.
Enqueue(r) ==
  /\ status[r] = "new"
  /\ Len(pending) < MaxQueued
  /\ pending' = Append(pending, r)
  /\ \E s \in {"waiting", "accepted"} : status' = [status EXCEPT ![r] = s]
  /\ UNCHANGED <<launched, stopped>>

Refuse(r) ==
  /\ status[r] = "new"
  /\ status' = [status EXCEPT ![r] = "refused"]
  /\ UNCHANGED <<pending, launched, stopped>>

Accept(r) ==
  /\ status[r] = "waiting"
  /\ status' = [status EXCEPT ![r] = "accepted"]
  /\ UNCHANGED <<pending, launched, stopped>>

\* Only the request whose caller gets the error leaves the queue.
Withdraw(r) ==
  /\ status[r] = "waiting"
  /\ \E i \in 1..Len(pending) :
       /\ pending[i] = r
       /\ pending' = SubSeq(pending, 1, i - 1) \o SubSeq(pending, i + 1, Len(pending))
  /\ status' = [status EXCEPT ![r] = "refused"]
  /\ UNCHANGED <<launched, stopped>>

Launch ==
  /\ ~stopped
  /\ pending # <<>>
  /\ launched' = Append(launched, Head(pending))
  /\ pending' = Tail(pending)
  /\ UNCHANGED <<status, stopped>>

Stop ==
  /\ ~stopped
  /\ stopped' = TRUE
  /\ UNCHANGED <<pending, launched, status>>

Next ==
  \/ \E r \in Requests : Enqueue(r) \/ Refuse(r) \/ Accept(r) \/ Withdraw(r)
  \/ Launch
  \/ Stop

Spec == Init /\ [][Next]_vars
=============================================================================
