----------------------------- MODULE EventQueue -----------------------------
(***************************************************************************)
(* internal/event/queue.go: events of a worker, handed by concurrent       *)
(* callers of Enqueue to one Run loop, which applies them to the ledger one*)
(* at a time.                                                              *)
(*                                                                         *)
(* Everybody waits on one condition variable, sync.Cond over q.mu: callers *)
(* for room, Run for events, and a watcher goroutine per call wakes all of *)
(* them when the call's context is canceled.  A step is what a goroutine   *)
(* does from acquiring q.mu to Wait or to releasing it; Signal may wake    *)
(* any goroutine that waits.                                               *)
(***************************************************************************)
EXTENDS Naturals, Sequences, FiniteSets

CONSTANTS Callers,    \* calls of Enqueue, each with an event of one worker, for one task
          Splits,     \* the callers whose event is a split_request, retries included;
                      \* the others report completed or blocked
          Run,        \* the goroutine in Run
          Buffers,    \* buffer sizes NewQueue may be given
          MaxCancels  \* bound on canceled contexts

ASSUME CallersAssumption == Run \notin Callers /\ Splits \subseteq Callers
ASSUME BuffersAssumption == Buffers \subseteq Nat /\ MaxCancels \in Nat

Threads == Callers \cup {Run}

VARIABLES
  buffer,     \* q.buffer
  events,     \* q.events
  closed,     \* q.closed
  waiting,    \* q.waiting
  pc,         \* where each goroutine is; "waiting" is in cond.Wait, "woken" on its way out
  result,     \* what each Enqueue returned
  canceled,   \* goroutines whose context is canceled
  watched,    \* goroutines whose watcher has not broadcast yet
  current,    \* the event that Run processes
  processed,  \* history: the events that Run is done with
  status,     \* the status of the worker's task in the ledger
  owner,      \* whom the ledger has the task assigned to
  children,   \* split_requests whose children are in the ledger
  abandoned   \* history: split_requests whose children could not be taken back

queue == <<buffer, events, closed>>
ledger == <<status, owner, children, abandoned>>
vars == <<queue, waiting, pc, result, canceled, watched, current, processed, ledger>>

Init ==
  /\ buffer \in Buffers
  /\ events = <<>>
  /\ closed = FALSE
  /\ waiting = 0
  /\ pc = [t \in Threads |-> "new"]
  /\ result = [p \in Callers |-> "none"]
  /\ canceled = {}
  /\ watched = Threads
  /\ current = Run
  /\ processed = {}
  /\ status = "in_progress" /\ owner = "worker"
  /\ children = {} /\ abandoned = {}

-----------------------------------------------------------------------------
(* sync.Cond.  Each operator gives the new pc of all goroutines; f is pc, already      *)
(* changed for the goroutine that calls.                                               *)

Woken(f, S) == [t \in Threads |-> IF t \in S THEN "woken" ELSE f[t]]
Waiters(f) == {t \in Threads : f[t] = "waiting"}
Broadcast(f) == pc' = Woken(f, Waiters(f))
Signal(f) ==
  IF Waiters(f) = {} THEN pc' = f ELSE \E t \in Waiters(f) : pc' = Woken(f, {t})

-----------------------------------------------------------------------------
(* Enqueue *)

AcceptOneMore == Len(events) <= buffer                          \* mutant: off by one
\* mutant: accepts though Run does not wait
AcceptUnseen == IF buffer = 0 THEN events = <<>> ELSE Len(events) < buffer
CanAccept ==
  IF buffer = 0 THEN waiting > 0 /\ events = <<>> ELSE Len(events) < buffer

NoSignal(f) == pc' = f                                          \* mutant: Run is not told
SignalAccepted(f) == Signal(f)

Entering(t) == pc[t] \in {"new", "woken"}

\* One turn of the loop in Enqueue.
Enqueue(p) ==
  /\ p \in Callers /\ Entering(p)
  /\ \/ /\ closed \/ p \in canceled
        /\ result' = [result EXCEPT ![p] = IF closed THEN "closed" ELSE "canceled"]
        /\ pc' = [pc EXCEPT ![p] = "returned"]
        /\ UNCHANGED events
     \/ /\ ~closed /\ p \notin canceled /\ CanAccept
        /\ events' = Append(events, p)
        /\ result' = [result EXCEPT ![p] = "ok"]
        /\ SignalAccepted([pc EXCEPT ![p] = "returned"])
     \/ /\ ~closed /\ p \notin canceled /\ ~CanAccept
        /\ pc' = [pc EXCEPT ![p] = "waiting"]
        /\ UNCHANGED <<events, result>>
  /\ UNCHANGED <<buffer, closed, waiting, canceled, watched, current, processed, ledger>>

-----------------------------------------------------------------------------
(* Close *)

SignalOne(f) == Signal(f)                                       \* mutant: wakes one
WakeEverybody(f) == Broadcast(f)

CloseQueue ==
  /\ ~closed /\ closed' = TRUE
  /\ WakeEverybody(pc)
  /\ UNCHANGED <<buffer, events, waiting, result, canceled, watched, current, processed,
                 ledger>>

-----------------------------------------------------------------------------
(* Contexts *)

Cancel(t) ==
  /\ t \notin canceled /\ pc[t] \notin {"returned", "stopped"}
  /\ Cardinality(canceled) < MaxCancels
  /\ canceled' = canceled \cup {t}
  /\ UNCHANGED <<queue, waiting, pc, result, watched, current, processed, ledger>>

SignalOnly(f) == Signal(f)                                      \* mutant: wakes one
WakeAll(f) == Broadcast(f)

\* wakeOnCancel; select may as well take the done channel of a call that returned.
Watch(t) ==
  /\ t \in watched /\ t \in canceled
  /\ watched' = watched \ {t}
  /\ \/ WakeAll(pc)
     \/ pc[t] \notin {"waiting", "woken"} /\ UNCHANGED pc
  /\ UNCHANGED <<queue, waiting, result, canceled, current, processed, ledger>>

-----------------------------------------------------------------------------
(* Run *)

ClosedNow == closed                            \* mutant: queued events are dropped
Exhausted == events = <<>> /\ closed

\* The callers that wait are woken before Run itself waits.
NotAnnounced(t) == pc' = [pc EXCEPT ![t] = "waiting"]      \* mutant: no broadcast
Announce(t) == pc' = [Woken(pc, Waiters(pc)) EXCEPT ![t] = "waiting"]

\* One turn of the loop in next, and the return from it.
Take(t) ==
  /\ t = Run /\ Entering(t)
  /\ LET still == IF pc[t] = "woken" THEN waiting - 1 ELSE waiting IN
     \/ /\ t \in canceled \/ Exhausted
        /\ pc' = [pc EXCEPT ![t] = "stopped"]
        /\ waiting' = still
        /\ UNCHANGED <<events, current>>
     \/ /\ t \notin canceled /\ ~Exhausted /\ events = <<>>
        /\ waiting' = still + 1
        /\ Announce(t)
        /\ UNCHANGED <<events, current>>
     \/ /\ t \notin canceled /\ ~Exhausted /\ events # <<>>
        /\ waiting' = still
        /\ current' = Head(events)
        /\ events' = Tail(events)
        /\ Signal([pc EXCEPT ![t] = "process"])
  /\ UNCHANGED <<buffer, closed, result, canceled, watched, processed, ledger>>

\* Process: an event of a worker that does not have its task any more is refused, and the
\* ledger may fail to load or save.  The error is logged and Run goes on.
Finish == pc' = [pc EXCEPT ![Run] = "new"] /\ processed' = processed \cup {current}

Applies == status \in {"in_progress", "blocked"} /\ owner = "worker"

Settle(s) == status' = s /\ owner' = "none"

ProcessSingle ==
  /\ pc[Run] = "process" /\ current \notin Splits
  /\ \/ Applies /\ Settle("completed")
     \/ Applies /\ status' = "blocked" /\ UNCHANGED owner
     \/ UNCHANGED <<status, owner>>
  /\ Finish
  /\ UNCHANGED <<queue, waiting, result, canceled, watched, current, children, abandoned>>

\* processSplitRequest: AddAllNew, then the parent, else the children are taken back.
AddChildren ==
  /\ pc[Run] = "process" /\ current \in Splits
  /\ \/ Finish /\ UNCHANGED children
     \/ /\ Run \notin canceled
        /\ children' = children \cup {current}
        /\ pc' = [pc EXCEPT ![Run] = "parent"]
        /\ UNCHANGED processed
  /\ UNCHANGED <<queue, waiting, result, canceled, watched, current, status, owner, abandoned>>

SplitParent ==
  /\ pc[Run] = "parent"
  /\ \/ Run \notin canceled /\ Applies /\ Settle("split") /\ Finish
     \/ /\ pc' = [pc EXCEPT ![Run] = "rollback"]
        /\ UNCHANGED <<status, owner, processed>>
  /\ UNCHANGED <<queue, waiting, result, canceled, watched, current, children, abandoned>>

KeepChildren == UNCHANGED <<children, abandoned>>          \* mutant: children stay behind
TakeChildrenBack == children' = children \ {current} /\ UNCHANGED abandoned

\* DeleteTasks may fail; nobody tries again.
DeleteChildren ==
  /\ pc[Run] = "rollback"
  /\ \/ TakeChildrenBack
     \/ abandoned' = abandoned \cup {current} /\ UNCHANGED children
  /\ Finish
  /\ UNCHANGED <<queue, waiting, result, canceled, watched, current, status, owner>>

Process == ProcessSingle \/ AddChildren \/ SplitParent \/ DeleteChildren

\* The orchestrator takes the worker off the task, and may put another one on it: it has
\* the same id, which is computed from the task.
Reassign ==
  /\ \/ Applies /\ status' = "unstarted" /\ owner' = "none"
     \/ status = "unstarted" /\ status' = "in_progress" /\ owner' = "worker"
  /\ UNCHANGED <<queue, waiting, pc, result, canceled, watched, current, processed, children,
                 abandoned>>

-----------------------------------------------------------------------------
Next ==
  \/ \E p \in Callers : Enqueue(p)
  \/ \E t \in Threads : Cancel(t) \/ Watch(t) \/ Take(t)
  \/ Process
  \/ CloseQueue \/ Reassign

Spec == Init /\ [][Next]_vars

\* Goroutines that were woken go on, Run is called and never stalls in Process, and the
\* watcher of a canceled context is scheduled.  Nobody has to enqueue, cancel or close.
Fairness ==
  /\ \A p \in Callers : WF_vars(pc[p] = "woken" /\ Enqueue(p))
  /\ WF_vars(Take(Run)) /\ WF_vars(Process)
  /\ \A t \in Threads : WF_vars(Watch(t))

FairSpec == Spec /\ Fairness

-----------------------------------------------------------------------------
(* Correctness *)

\* Every variable has its type, and the queue holds no more than its buffer; with no
\* buffer, one event on its way from hand to hand.
TypeOK ==
  /\ buffer \in Buffers
  /\ events \in Seq(Callers) /\ (Len(events) <= buffer \/ (buffer = 0 /\ Len(events) = 1))
  /\ closed \in BOOLEAN
  /\ waiting \in {0, 1}
  /\ pc \in [Threads -> {"new", "waiting", "woken", "returned", "stopped",
                         "process", "parent", "rollback"}]
  /\ result \in [Callers -> {"none", "ok", "closed", "canceled"}]
  /\ canceled \subseteq Threads /\ watched \subseteq Threads
  /\ current \in Threads
  /\ processed \subseteq Callers /\ children \subseteq Callers /\ abandoned \subseteq Callers
  /\ status \in {"unstarted", "in_progress", "blocked", "completed", "split"}
  /\ owner \in {"worker", "none"}

\* No lost wakeup: Run does not sleep on a queue that has events or is closed, though a
\* Signal may have gone to a caller that waits for room.
RunIsAwake == pc[Run] = "waiting" => events = <<>> /\ ~closed

\* An unbuffered queue accepts an event only from hand to hand: Run waits for one, or
\* was woken and has not looked yet.
HandToHand == buffer = 0 /\ events # <<>> => pc[Run] \in {"woken", "stopped"}

\* A split_request takes effect as a whole and once, however often the worker repeats
\* it and whatever the orchestrator does to the task meanwhile: between two events, the
\* ledger has the children of exactly one request if the task is split, else of none, but
\* for those of a request that could not be taken back.
SplitIsWhole ==
  pc[Run] \in {"new", "waiting", "woken", "stopped"} =>
    Cardinality(children \ abandoned) = IF status = "split" THEN 1 ELSE 0

\* Whoever was told that the event is queued sees it processed, also when the queue is
\* closed meanwhile, unless Run's context is canceled.
AcceptedIsProcessed ==
  \A p \in Callers : result[p] = "ok" ~> (p \in processed \/ Run \in canceled)

\* Nobody waits for room forever while Run runs, although a caller whose context is
\* canceled may swallow the wakeup meant for another one.
EnqueueReturns ==
  \A p \in Callers : pc[p] = "waiting" ~> (pc[p] = "returned" \/ Run \in canceled)

\* A canceled call returns, even when nothing else moves the queue.
CancelIsAnswered ==
  \A t \in Threads :
    (t \in canceled /\ pc[t] = "waiting") ~> pc[t] \in {"returned", "stopped"}

\* After Close everybody leaves.
CloseReleasesAll ==
  closed ~> /\ pc[Run] = "stopped"
            /\ \A p \in Callers : pc[p] \notin {"waiting", "woken"}
=============================================================================
