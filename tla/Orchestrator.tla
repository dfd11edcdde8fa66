---------------------------- MODULE Orchestrator ----------------------------
(***************************************************************************)
(* internal/orchestrator/orchestrator.go: the triggerer that starts one    *)
(* orchestrator harness run at a time in a project's tmux window.          *)
(*                                                                         *)
(* Trigger is called by concurrent MCP and HTTP handlers and by the        *)
(* scheduler; a background drain goroutine starts what is still queued;    *)
(* Close runs while any of them is in flight.  A step is what one goroutine*)
(* does between two acquisitions of o.mu or two tmux commands.  There is   *)
(* no lock around tryStartNext: the draining flag has to work as one, and  *)
(* the boolean starting, which Close waits for, is sound only if it does.  *)
(***************************************************************************)
EXTENDS Naturals, Sequences, SequencesExt

CONSTANTS Requests,   \* calls of Trigger, one goroutine each
          Drains,     \* slots for drain goroutines
          Reasons,    \* normalized reason strings
          Kinds,      \* harness kinds configured: "codex" and/or "claude"
          MaxQueued,  \* maxQueuedReasons
          MaxFails,   \* bound on failing tmux commands and lost windows
          NoEntry     \* no queue entry read, no run in the window

Entries == [req : Requests, reason : Reasons]

ASSUME MaxQueuedAssumption == MaxQueued \in Nat \ {0}
ASSUME MaxFailsAssumption == MaxFails \in Nat
ASSUME KindsAssumption == Kinds \subseteq {"codex", "claude"}
ASSUME NoEntryAssumption == NoEntry \notin Requests \cup Entries
ASSUME ThreadsAssumption == Requests \cap Drains = {}

VARIABLES
  queued,     \* o.queued, each entry tagged with the request it belongs to
  draining,   \* o.draining
  closed,     \* o.closed
  doneClosed, \* o.done is closed
  starting,   \* o.starting
  runStart,   \* o.runStart: "zero", "set", or "expired" once the timeout elapsed
  win,        \* the window: "none", "shell", "launching" (still looks like a shell), "busy"
  harness,    \* the configured orchestrator harness
  reason,     \* the reason each caller passes
  pc, ret, idx, entry, active,  \* control and locals of each goroutine
  closer,     \* progress of Close
  result,     \* what each Trigger returned
  launched,   \* history: requests whose run was started
  run,        \* history: the request whose run occupies the window
  fails

shared == <<queued, draining, closed, doneClosed, starting>>
window == <<runStart, win, harness>>
locals == <<reason, ret, idx, entry, active>>
history == <<launched, run>>
vars == <<shared, window, pc, locals, closer, result, history, fails>>

Threads == Requests \cup Drains

\* Control points of tryStartNext.  From "killrun" to "pop" the goroutine has claimed
\* the start; at "cleanup" it still has to kill the window of a failed launch.
ClaimedPCs == {"killrun", "prep", "reset", "create", "send", "prompt",
               "cleanup", "pop", "release"}
TryPCs == {"peek", "probe", "check", "claim"} \cup ClaimedPCs
PCs == {"new", "returned", "off", "tick", "done"} \cup TryPCs

Init ==
  /\ queued = <<>>
  /\ draining = FALSE /\ closed = FALSE /\ doneClosed = FALSE /\ starting = FALSE
  /\ runStart = "zero"
  /\ win \in {"none", "shell", "busy"}   \* windows outlive the server process
  /\ harness \in Kinds
  /\ reason \in [Requests -> Reasons]
  /\ pc = [t \in Threads |-> IF t \in Requests THEN "new" ELSE "off"]
  /\ ret = [t \in Threads |-> "none"]
  /\ idx = [t \in Threads |-> 0]
  /\ entry = [t \in Threads |-> NoEntry]
  /\ active = [t \in Threads |-> FALSE]
  /\ closer = "open"
  /\ result = [r \in Requests |-> "none"]
  /\ launched = <<>>
  /\ run = NoEntry
  /\ fails = 0

Goto(t, l) == pc' = [pc EXCEPT ![t] = l]
\* tryStartNext returns; a goroutine that claimed the start releases it on the way.
Return(t, v) ==
  /\ ret' = [ret EXCEPT ![t] = v]
  /\ Goto(t, IF pc[t] \in ClaimedPCs THEN "release" ELSE "done")
\* A tmux command, a file operation or the caller's context fails.
Fail == fails < MaxFails /\ fails' = fails + 1

-----------------------------------------------------------------------------
(* Trigger *)

QueueFull == Len(queued) >= MaxQueued

\* Canceled context, closed, or a full queue: nothing is queued.
TriggerRefused(r) ==
  /\ pc[r] = "new"
  /\ \/ Fail
     \/ (closed \/ QueueFull) /\ UNCHANGED fails
  /\ result' = [result EXCEPT ![r] = "error"]
  /\ Goto(r, "returned")
  /\ UNCHANGED <<shared, window, locals, closer, history>>

NeverBusy == FALSE                          \* mutant: no one looks at draining
SomeoneDrains == draining

\* The first locked section: the reason is appended; a caller that finds
\* another goroutine at work leaves it there.
TriggerQueued(r) ==
  /\ pc[r] = "new"
  /\ ~closed /\ ~QueueFull
  /\ queued' = Append(queued, [req |-> r, reason |-> reason[r]])
  /\ idx' = [idx EXCEPT ![r] = Len(queued) + 1]
  /\ IF SomeoneDrains
     THEN /\ Goto(r, "returned")
          /\ result' = [result EXCEPT ![r] = "ok"]
          /\ UNCHANGED draining
     ELSE /\ Goto(r, "peek")
          /\ draining' = TRUE
          /\ UNCHANGED result
  /\ UNCHANGED <<closed, doneClosed, starting, window, reason, ret, entry, active,
                 closer, history, fails>>

LastPosition(q, i, why) == Len(q)           \* mutant: drops the newest entry

\* removeQueuedAtLocked: the entry at position i if it carries the reason, else
\* the first one after i that does, else the first one before it.
PositionOf(q, i, why) ==
  LET Same == {j \in DOMAIN q : q[j].reason = why}
      After == {j \in Same : j >= i}
  IN  IF After # {} THEN Min(After) ELSE IF Same # {} THEN Min(Same) ELSE 0

WithoutEntry(q, i, why) ==
  LET p == PositionOf(q, i, why) IN IF p = 0 THEN q ELSE RemoveAt(q, p)

HandOverForgetsRest(q, r) ==                \* mutant: nobody takes over the rest
  draining' = FALSE /\ pc' = [pc EXCEPT ![r] = "returned"]

\* hasRemaining: the flag stays set and a new drain goroutine takes it over.
HandOver(q, r) ==
  IF q = <<>>
  THEN draining' = FALSE /\ pc' = [pc EXCEPT ![r] = "returned"]
  ELSE /\ draining' = TRUE
       /\ \E d \in Drains :
            /\ pc[d] = "off"
            /\ pc' = [pc EXCEPT ![r] = "returned", ![d] = "tick"]

\* The last locked section of Trigger.
TriggerReturns(r) ==
  /\ r \in Requests /\ pc[r] = "done"
  /\ IF ret[r] = "err"
     THEN /\ queued' = WithoutEntry(queued, idx[r], reason[r])
          /\ result' = [result EXCEPT ![r] = "error"]
     ELSE /\ result' = [result EXCEPT ![r] = "ok"]
          /\ UNCHANGED queued
  /\ HandOver(queued', r)
  /\ ret' = [ret EXCEPT ![r] = "none"]
  /\ idx' = [idx EXCEPT ![r] = 0]
  /\ entry' = [entry EXCEPT ![r] = NoEntry]
  /\ active' = [active EXCEPT ![r] = FALSE]
  /\ UNCHANGED <<closed, doneClosed, starting, window, reason, closer, history, fails>>

-----------------------------------------------------------------------------
(* tryStartNext, by a caller of Trigger or by a drain goroutine *)

Peek(t) ==
  /\ pc[t] = "peek"
  /\ \/ Fail /\ Return(t, "err") /\ UNCHANGED entry
     \/ closed /\ Return(t, "err") /\ UNCHANGED <<entry, fails>>
     \/ ~closed /\ queued = <<>> /\ Return(t, "empty") /\ UNCHANGED <<entry, fails>>
     \/ /\ ~closed /\ queued # <<>>
        /\ entry' = [entry EXCEPT ![t] = Head(queued)]
        /\ Goto(t, "probe") /\ UNCHANGED <<ret, fails>>
  /\ UNCHANGED <<shared, window, reason, idx, active, closer, result, history>>

LooksIdle == win \in {"none", "shell", "launching"}

\* isActive: a missing or idle window forgets the run, a busy one is observed.
Probe(t) ==
  /\ pc[t] = "probe"
  /\ \/ Fail /\ Return(t, "err") /\ UNCHANGED <<runStart, active>>
     \/ /\ active' = [active EXCEPT ![t] = ~LooksIdle]
        /\ runStart' = CASE LooksIdle -> "zero"
                         [] ~LooksIdle /\ runStart = "zero" -> "set"
                         [] OTHER -> runStart
        /\ Goto(t, "check") /\ UNCHANGED <<ret, fails>>
  /\ UNCHANGED <<shared, win, harness, reason, idx, entry, closer, result, history>>

TimedOut == runStart = "expired"

Check(t) ==
  /\ pc[t] = "check"
  /\ \/ Fail /\ Return(t, "err")
     \/ closed /\ Return(t, "err") /\ UNCHANGED fails
     \/ ~closed /\ active[t] /\ ~TimedOut /\ Return(t, "handled") /\ UNCHANGED fails
     \/ ~closed /\ (active[t] => TimedOut) /\ Goto(t, "claim") /\ UNCHANGED <<ret, fails>>
  /\ UNCHANGED <<shared, window, reason, idx, entry, active, closer, result, history>>

\* claimStart: the last look at closed before tmux is changed.
ClaimNeverRefused == FALSE                  \* mutant: no second look at closed
ClaimRefused == closed

ClaimStart(t) ==
  /\ pc[t] = "claim"
  /\ \/ ClaimRefused /\ Return(t, "err") /\ UNCHANGED starting
     \/ /\ ~ClaimRefused
        /\ starting' = TRUE
        /\ Goto(t, IF active[t] THEN "killrun" ELSE "prep") /\ UNCHANGED ret
  /\ UNCHANGED <<queued, draining, closed, doneClosed, window, reason, idx, entry, active,
                 closer, result, history, fails>>

\* kill-window fails on a window that is gone.
KillWindow == win # "none" /\ win' = "none" /\ run' = NoEntry

KillTimedOutRun(t) ==
  /\ pc[t] = "killrun"
  /\ \/ Fail /\ Return(t, "err") /\ UNCHANGED <<runStart, win, run>>
     \/ win = "none" /\ Return(t, "err") /\ UNCHANGED <<runStart, win, run, fails>>
     \/ KillWindow /\ runStart' = "zero" /\ Goto(t, "prep") /\ UNCHANGED <<ret, fails>>
  /\ UNCHANGED <<shared, harness, reason, idx, entry, active, closer, result, launched>>

-----------------------------------------------------------------------------
(* start *)

\* Context, configuration, ledger snapshot, session; then the window is looked at again.
Prepare(t) ==
  /\ pc[t] = "prep"
  /\ \/ Fail /\ Return(t, "err")
     \/ ~LooksIdle /\ Return(t, "handled") /\ UNCHANGED fails
     \/ LooksIdle /\ win # "none" /\ Goto(t, "reset") /\ UNCHANGED <<ret, fails>>
     \/ win = "none" /\ Goto(t, "create") /\ UNCHANGED <<ret, fails>>
  /\ UNCHANGED <<shared, window, reason, idx, entry, active, closer, result, history>>

ResetIdleWindow(t) ==
  /\ pc[t] = "reset"
  /\ \/ Fail /\ Return(t, "err") /\ UNCHANGED <<win, run>>
     \/ win = "none" /\ Return(t, "err") /\ UNCHANGED <<win, run, fails>>
     \/ KillWindow /\ Goto(t, "create") /\ UNCHANGED <<ret, fails>>
  /\ UNCHANGED <<shared, runStart, harness, reason, idx, entry, active, closer, result, launched>>

\* A canceled command may have reached tmux before it was reported as failed.
CreateWindow(t) ==
  /\ pc[t] = "create"
  /\ \/ Fail /\ Return(t, "err") /\ win' \in {win, "shell"}
     \/ win' = "shell" /\ Goto(t, "send") /\ UNCHANGED <<ret, fails>>
  /\ UNCHANGED <<shared, runStart, harness, reason, idx, entry, active, closer, result, history>>

\* markRunStarted and the successful return of start.  A harness that already exited
\* is counted as started too; no run is in the window then.
MarkRunStarted(t) ==
  /\ runStart' = "set"
  /\ launched' = Append(launched, entry[t].req)
  /\ run' = IF win' \in {"launching", "busy"} THEN entry[t].req ELSE NoEntry
  /\ Goto(t, "pop")

\* The secret and prompt files, then the launch command; codex gets its prompt later.
SendCommand(t) ==
  /\ pc[t] = "send"
  /\ \/ Fail /\ Goto(t, "cleanup") /\ win' \in {win, "launching"} /\ win' # "none"
        /\ UNCHANGED <<runStart, history>>
     \/ win = "none" /\ Goto(t, "cleanup") /\ UNCHANGED <<win, runStart, history, fails>>
     \/ /\ win # "none" /\ win' = "launching"
        /\ IF harness = "codex"
           THEN Goto(t, "prompt") /\ UNCHANGED <<runStart, history>>
           ELSE MarkRunStarted(t)
        /\ UNCHANGED fails
  /\ UNCHANGED <<shared, harness, locals, closer, result>>

\* promptDelay is taken to outlast the shell's start of the harness.
SendPrompt(t) ==
  /\ pc[t] = "prompt"
  /\ UNCHANGED <<shared, win, harness, locals, closer, result>>
  /\ \/ Fail /\ Goto(t, "cleanup") /\ UNCHANGED <<runStart, history>>
     \/ win = "none" /\ Goto(t, "cleanup") /\ UNCHANGED <<runStart, history, fails>>
     \/ win \notin {"none", "launching"} /\ MarkRunStarted(t) /\ UNCHANGED fails

\* cleanupStartedWindow, whose own error is only logged.
CleanupStartedWindow(t) ==
  /\ pc[t] = "cleanup"
  /\ \/ Fail /\ UNCHANGED <<win, run>>
     \/ win = "none" /\ UNCHANGED <<win, run, fails>>
     \/ KillWindow /\ UNCHANGED fails
  /\ Return(t, "err")
  /\ UNCHANGED <<shared, runStart, harness, reason, idx, entry, active, closer, result, launched>>

\* The queue's head is dropped, whichever it is by now.
PopStarted(t) ==
  /\ pc[t] = "pop"
  /\ queued' = IF queued = <<>> THEN <<>> ELSE Tail(queued)
  /\ Return(t, "handled")
  /\ UNCHANGED <<draining, closed, doneClosed, starting, window, reason, idx, entry, active,
                 closer, result, history, fails>>

ReleaseStart(t) ==
  /\ pc[t] = "release"
  /\ starting' = FALSE
  /\ Goto(t, "done")
  /\ UNCHANGED <<queued, draining, closed, doneClosed, window, locals, closer,
                 result, history, fails>>

TryStartNext(t) ==
  \/ Peek(t) \/ Probe(t) \/ Check(t) \/ ClaimStart(t) \/ KillTimedOutRun(t)
  \/ Prepare(t) \/ ResetIdleWindow(t) \/ CreateWindow(t) \/ SendCommand(t)
  \/ SendPrompt(t) \/ CleanupStartedWindow(t) \/ PopStarted(t) \/ ReleaseStart(t)

-----------------------------------------------------------------------------
(* drain *)

DrainTick(d) ==
  /\ d \in Drains /\ pc[d] = "tick"
  /\ \/ Goto(d, "peek") /\ UNCHANGED draining
     \/ doneClosed /\ draining' = FALSE /\ Goto(d, "off")
  /\ UNCHANGED <<queued, closed, doneClosed, starting, window, locals, closer,
                 result, history, fails>>

DrainGivesUp(d) == ret[d] \in {"err", "empty"}             \* mutant: no retry
DrainIgnoresClose(d) == ret[d] = "empty" /\ queued = <<>>  \* mutant

\* An error is retried at the next tick unless the orchestrator was closed; the
\* goroutine stops when it finds the queue empty, under the lock.
DrainStops(d) ==
  \/ ret[d] = "err" /\ closed
  \/ ret[d] = "empty" /\ queued = <<>>

DrainContinues(d) ==
  /\ d \in Drains /\ pc[d] = "done"
  /\ IF DrainStops(d)
     THEN draining' = FALSE /\ Goto(d, "off")
     ELSE Goto(d, "tick") /\ UNCHANGED draining
  /\ ret' = [ret EXCEPT ![d] = "none"]
  /\ entry' = [entry EXCEPT ![d] = NoEntry]
  /\ active' = [active EXCEPT ![d] = FALSE]
  /\ UNCHANGED <<queued, closed, doneClosed, starting, window, reason, idx, closer, result,
                 history, fails>>

-----------------------------------------------------------------------------
(* Close *)

CloseMarks ==
  /\ closer = "open"
  /\ closer' = "marked" /\ closed' = TRUE
  /\ UNCHANGED <<queued, draining, doneClosed, starting, window, pc, locals, result,
                 history, fails>>

CloseSignals ==
  /\ closer = "marked"
  /\ closer' = "waiting" /\ doneClosed' = TRUE
  /\ UNCHANGED <<queued, draining, closed, starting, window, pc, locals, result,
                 history, fails>>

\* for o.starting { o.cond.Wait() }
CloseReturns ==
  /\ closer = "waiting" /\ ~starting
  /\ closer' = "returned"
  /\ UNCHANGED <<shared, window, pc, locals, result, history, fails>>

-----------------------------------------------------------------------------
(* The window and the clock *)

\* exec puts the harness in the place of the shell; a command that cannot be executed
\* leaves the shell there.
HarnessAppears ==
  /\ win = "launching"
  /\ \/ win' = "busy" /\ UNCHANGED run
     \/ win' = "shell" /\ run' = NoEntry
  /\ UNCHANGED <<shared, runStart, harness, pc, locals, closer, result, launched, fails>>

\* The harness was the pane's process: tmux closes the window when it exits.  A codex that
\* exits before it has its prompt makes the start fail.
HarnessExits ==
  /\ win = "busy" /\ win' = "none" /\ run' = NoEntry
  /\ IF \E t \in Threads : pc[t] = "prompt" THEN Fail ELSE UNCHANGED fails
  /\ UNCHANGED <<shared, runStart, harness, pc, locals, closer, result, launched>>

\* Somebody closes the window from outside.
WindowLost ==
  /\ KillWindow /\ Fail
  /\ UNCHANGED <<shared, runStart, harness, pc, locals, closer, result, launched>>

TimeoutElapses ==
  /\ runStart = "set" /\ runStart' = "expired"
  /\ UNCHANGED <<shared, win, harness, pc, locals, closer, result, history, fails>>

-----------------------------------------------------------------------------
Goroutine(t) ==
  \/ TryStartNext(t) \/ TriggerReturns(t) \/ DrainTick(t) \/ DrainContinues(t)

CloseStep == CloseMarks \/ CloseSignals \/ CloseReturns

Environment == HarnessAppears \/ HarnessExits \/ WindowLost \/ TimeoutElapses

Next ==
  \/ \E r \in Requests : TriggerRefused(r) \/ TriggerQueued(r)
  \/ \E t \in Threads : Goroutine(t)
  \/ CloseStep
  \/ Environment

Spec == Init /\ [][Next]_vars

\* Goroutines that can run do run, Close once called goes on, time passes and a
\* shell executes the command it was sent.  Nobody has to call Trigger or Close, and
\* a harness may run forever.
Fairness ==
  /\ \A t \in Threads : WF_vars(Goroutine(t))
  /\ WF_vars(CloseSignals) /\ WF_vars(CloseReturns)
  /\ WF_vars(TimeoutElapses) /\ WF_vars(HarnessAppears)

FairSpec == Spec /\ Fairness

-----------------------------------------------------------------------------
(* Correctness *)

\* Every variable has its type, and the queue never outgrows maxQueuedReasons.
TypeOK ==
  /\ queued \in Seq(Entries) /\ Len(queued) <= MaxQueued
  /\ draining \in BOOLEAN /\ closed \in BOOLEAN
  /\ doneClosed \in BOOLEAN /\ starting \in BOOLEAN
  /\ runStart \in {"zero", "set", "expired"}
  /\ win \in {"none", "shell", "launching", "busy"}
  /\ harness \in Kinds
  /\ reason \in [Requests -> Reasons]
  /\ pc \in [Threads -> PCs]
  /\ ret \in [Threads -> {"none", "handled", "empty", "err"}]
  /\ idx \in [Threads -> Nat]
  /\ entry \in [Threads -> Entries \cup {NoEntry}]
  /\ active \in [Threads -> BOOLEAN]
  /\ closer \in {"open", "marked", "waiting", "returned"}
  /\ result \in [Requests -> {"none", "ok", "error"}]
  /\ launched \in Seq(Requests)
  /\ run \in Requests \cup {NoEntry}
  /\ fails \in Nat

\* The goroutines that own the draining flag: inside tryStartNext or on their way
\* back from it, or a drain goroutine waiting for its tick.
Owner(t) == pc[t] \in TryPCs \cup {"tick", "done"}

\* draining works as a lock: at most one goroutine works on the window, and the
\* flag is set while one does, so a later Trigger leaves its reason to it.
OneOwner ==
  \A t, u \in Threads : Owner(t) /\ Owner(u) => t = u /\ draining

\* A request somebody was told is safe is never left in a queue that no goroutine
\* is going to look at, unless the orchestrator is closed.
NothingStranded ==
  ~closed /\ (\A t \in Threads : ~Owner(t)) => queued = <<>>

\* After Close returned no goroutine is between claiming a start and having
\* finished with the window: the next orchestrator of the project has it to itself.
QuietAfterClose ==
  closer = "returned" => \A t \in Threads : pc[t] \notin ClaimedPCs

\* The reset of an idle window never kills a run that was launched and has not
\* ended: one run per project at a time, the next one after its completion.
NoRunCutShort ==
  [][\A t \in Threads : pc[t] = "reset" /\ win' # win => run = NoEntry]_vars

\* What the callers know of the queue: its head counts as launched from the moment
\* start returned, before it is popped.
ReqsOf(q) == [i \in DOMAIN q |-> q[i].req]
Popping == \E t \in Threads : pc[t] = "pop"
Pending == ReqsOf(IF Popping THEN Tail(queued) ELSE queued)

\* What the caller of a request knows of it.
Known == [r \in Requests |->
  CASE result[r] = "ok" -> "accepted"
    [] result[r] = "error" -> "refused"
    [] result[r] = "none" /\ pc[r] = "new" -> "new"
    [] OTHER -> "waiting"]

\* What the triggerer promises.
Promise == INSTANCE TriggerQueue WITH
  pending <- Pending, launched <- launched, status <- Known, stopped <- closer = "returned"

KeepsPromise == Promise!Spec

\* Whoever was told that the trigger is accepted sees it launched, even behind a
\* harness that never exits, unless the orchestrator is closed first.
AcceptedIsLaunched ==
  \A r \in Requests : result[r] = "ok" ~> (r \in ToSet(launched) \/ closed)

\* Close is not stuck behind a start in flight, and no drain goroutine survives it.
CloseTerminates ==
  closed ~> (closer = "returned" /\ \A d \in Drains : pc[d] = "off")
=============================================================================
