# A TLA+ model of ccx

ccx runs coding agents: an *orchestrator* agent plans tasks and starts *worker* agents,
each in a tmux window and a git worktree of its own. One Go server keeps the ledger of
tasks (a Markdown file), answers the MCP calls of the agents and the HTTP calls of a
dashboard, and drives tmux and git. The dashboard, a React application, lists projects and
tmux windows and shows terminals. This directory models the parts of the server and of the
dashboard where the order of steps decides on correctness, checks them with TLC and proves
what matters most with TLAPS.

    tlc -config Orchestrator.cfg Orchestrator
    tlapm OrchestratorProofs.tla

## The system

Go paths are under `src/server/internal/`, the others under `src/web/src/`.

| Part | State | Operations | Hard because |
|---|---|---|---|
| orchestrator triggerer, `orchestrator/` | queue of reasons; flags `draining`, `closed`, `starting`; start of the run | `Trigger`, `drain`, `tryStartNext`, `start`, `Close` | the lock is let go around every tmux command; a flag stands for a lock |
| MCP tool handlers, `mcp/handlers.go` | none of their own | `create_task`, `spawn_worker`, `stop_worker`, `split_task`, `archive_task`, `notify` | each is a sequence of ledger updates and commands with no lock across it; commands fail; worker ids repeat |
| ledger, `ledger/` | tasks in one file, archived tasks in one file each | updates under a check of the status, add, archive, ids, delete markers | two files, crash between the writes; ids are chosen and used under different locks |
| worker registry, `worker/` | workers by id, in memory | register, remove, get | lost in a restart |
| worktrees, `worktree/` | git worktrees and branches | create, remove, delete a branch if safe | outlives the server |
| tmux, `tmux/` | windows by name | create, kill, send keys, is the pane idle | outlives the server; two windows may share a name |
| event queue, `event/` | bounded buffer, one condition variable | `Enqueue`, `Run`, `Close`, `Process` | producers and consumer wait on one condition; wakeups go astray |
| scheduler, `scheduler/` | none | a heartbeat `Trigger` while a task is actionable | ends for good |
| runtime manager, `runtime/` | projects with their ledger, orchestrator, scheduler | `Start`, `Reload`, `Close` | old and new objects over the same files |
| web API, `web/server.go` | pending triggers, configuration lock | tasks, projects, terminals, configuration | lease of a delete, retries of a create |
| web sockets, `web/ws.go` | streams and subscribers | subscribe, broadcast, ledger events | subscribers come and go |
| dashboard: workspace, `main.tsx` | lists of projects and terminals, the selection, generations of loads, changes and credentials | load, refresh, select, open and close a shell, apply a token | answers come in any order, late, partly or not at all; React renders what they change later than what a click changes |
| dashboard: screen, `main.tsx` | a buffer of chunks per terminal; what its surface has written | append, trim, replace by a snapshot, write, reset, forget | buffer, render and effect know three different states of one sequence |
| terminal client, `terminal/` | generation, socket, timers, probe, retry counter, last size | start, stop, options, retry, wake, resize, send; events of sockets, timers, probes | each callback may belong to a connection that was given up |
| rest | | MCP transport, GitHub client, configuration, command line | |

They meet as follows. An agent's MCP call runs a handler; the handler updates the ledger,
runs git and tmux commands, and after a notification calls `Trigger` of the project's
orchestrator. The scheduler and the dashboard call `Trigger`, too. The orchestrator starts
the orchestrator agent in its window, and this agent calls the handlers again. The dashboard
asks the web API for its lists and for changes, and opens one web socket for the terminal that
is selected; what the socket says goes into the buffer of that terminal.

What makes them correct:

* triggerer: one run at a time; what was accepted is launched, in order; nothing touches
  the window after `Close`.
* handlers: the ledger, the windows and the worktrees tell the same story whenever no call
  is under way for a task; a completion is never undone; a cleanup that is recorded as
  pending ends; no call reaches a worker it was not meant for.
* event queue: no wakeup is lost, what was accepted is processed, everybody leaves after
  `Close`, a split takes effect as a whole.
* web API: a task that is being deleted is nobody else's; two deletions do not clean up at a
  time; no worker outlives its task; a deletion that was cut off does not block its task for
  ever.
* terminal client: one connection, to the terminal on show; the phase on show is the truth;
  nothing is received or sent across terminals; attempts end only with a connection or a reason.
* screen: every byte once and in order, from the last snapshot on; nothing of another token.
* workspace: the lists agree with the server, a selection that is gone is replaced, no button
  stays blocked.

The list `hazards` in `PROJECT.json` names the line where each of these can go wrong.

## Modules

| Module | Models |
|---|---|
| `TriggerQueue` | abstract: what the triggerer promises its callers |
| `Orchestrator` | `orchestrator/orchestrator.go` |
| `OrchestratorProofs` | theorems about `Orchestrator`, and that it implements `TriggerQueue` |
| `TaskLifecycle` | `mcp/handlers.go` over the ledger, the registry, git and tmux |
| `TaskLifecycleProofs` | theorems about `TaskLifecycle`: types and the ledger |
| `TaskWorkerProofs` | theorems about `TaskLifecycle`: the windows and worktrees of workers |
| `EventQueue` | `event/queue.go` |
| `EventQueueProofs` | theorems about `EventQueue` |
| `WebDelete` | `deleteTask` and `updateTask` of `web/server.go` over the ledger, against `spawn_worker` |
| `WebDeleteProofs` | theorems about `WebDelete` |
| `TerminalController` | `terminal/controller.ts`, `terminal/hook.ts`, and what becomes of a reply in `terminal/api.ts` |
| `TerminalControllerProofs` | theorems about `TerminalController` |
| `TerminalScreen` | `main.tsx`: the buffers of `App` and the effects of `TerminalSurface` |
| `TerminalScreenProofs` | theorems about `TerminalScreen` |
| `Workspace` | `main.tsx`: loads, selection, shells and tokens of `App`, over the terminals of `web/server.go` and `tmux/` |
| `WorkspaceProofs` | theorems about `Workspace` |
| `MCTaskLifecycle`, `MCEventQueue`, `MCTerminalController`, `MCWorkspace` | instances for TLC |

An operator that a comment calls a mutant is a wrong version of the definition that follows
it. No specification uses it; `PROJECT.json` says which property notices when it takes
that definition's place.

### Orchestrator

A step is what one goroutine does between two acquisitions of `o.mu` or two tmux
commands. `queued`, `draining`, `closed`, `starting` and `runStart` are the fields of the
struct; an element of `queued` also carries the call it came from, which the code does not
know: several calls may pass one reason, and `removeQueuedAtLocked` tells entries apart by
position and reason only. `pc`, `ret`, `idx`, `entry` and `active` are control and locals of
each goroutine. `tryStartNext` and `start` are one action per control point (`Peek`,
`Probe`, `Check`, `ClaimStart`, `KillTimedOutRun`, `Prepare`, `ResetIdleWindow`,
`CreateWindow`, `SendCommand`, `SendPrompt`, `CleanupStartedWindow`, `PopStarted`,
`ReleaseStart`), for a caller of `Trigger` and for a drain goroutine alike. Every tmux
command may fail, and a canceled one may have taken effect. `win` is what tmux says of the
window: `busy` if the foreground process is not a shell. A launched command leaves the window
`launching`, which still looks like a shell, until the harness appears, or has failed to. The
harness is started with `exec`, so that the pane and its window close with it.

Left out: the text of prompts, tokens, secrets and files, and the warning about a missing
timeout. A `MaxRunTime` of zero is a clock that never ticks, which is among the behaviours of
`Spec` but not of `FairSpec`.

`TriggerQueue` knows requests only: one is queued at most once, may be withdrawn with an
error while its caller waits, and can only be launched, in order, once its caller was told
that all is well; nothing is launched after `Close` returned. `KeepsPromise` states that
`Orchestrator` implements it. The refinement mapping takes the head of the queue as gone
from the moment `start` returned (control point `pop`), because the code launches first and
pops afterwards.

### TaskLifecycle

A step is one operation of the ledger or one external command. `ledger` and `archive` are
the two kinds of files; an entry keeps the status, whether a worker is assigned, the branch,
and the cleanup marker that `bodyWithCleanupPending` writes with the reason of a split. The
worker id is not a field: it is computed from the task id (`workerIDFor`), so it says no more
than *some worker of this task*. The model counts spawn calls (*lives*) and names windows,
worktrees and branches by the life they were made for; no guard that stands for code compares
lives, only properties do. `call` holds the handlers in flight with their locals (`prev` is the
snapshot returned by the ledger update, or what a cleanup needs of it). The probe and the kill
of the window, the removal of the worktree and the deletion of the branch in
`cleanupWorkerResources`, and the update after it, are shared by `stop_worker`, `notify` and
`split_task` as they are in the code. tmux kills a window by its name only if one window bears
it. `git worktree add` and `new-window` may have taken effect where they fail or are canceled.

`harm` is a history that no guard reads: for each task, what happened that the code has no
remedy for. `left`: a spawn was broken off, or its rollback failed, and a worktree remained.
`adrift`: likewise a window. `crossed`: a `split_request` whose child could not be added put its
task back while another one was already cleaning it up. `returned`: a `split_request` gave its
child a number that had been used up and archived since it was chosen. The properties name the
harms they cannot bear, and no others.

A crash forgets the calls in flight and the registry and keeps the rest; it may fall between
the two writes of `Archive`. A worker notifies while it has its prompt and its window; a call
that was sent goes on when the window is gone.

`OrchCalls` bounds the calls of the orchestrator agent in flight. One agent that waits for
the answer to a call before it makes the next makes 1 the usual case; the code does not
enforce it. All runs use 1.

Left out: `update_task`, which changes neither the status nor the cleanup marker;
`followup_worker` and the tools that only read; validation of arguments; the text of reasons,
of which the model has two; what makes `notify(completed)` fail its check of the file contract.
Failures of the ledger file itself are left out, too. A split adds one child.

### EventQueue

A step is what a goroutine does between acquiring `q.mu` and releasing it or waiting. `pc`
has `waiting` for a goroutine in `cond.Wait` and `woken` for one on its way out; `Signal` may
wake any waiter, as `sync.Cond` may. `watched` are the goroutines of `wakeOnCancel`: one
broadcasts when its context is canceled, or, once its call has returned, may leave without.
`Process` works on one task, which the orchestrator may take away from the worker and give to
another one of the same id (`Reassign`); `processSplitRequest` is three steps (children, parent,
roll back), each of which may fail, and `abandoned` remembers the requests whose children could
not be taken back.
The code constructs the queue in tests only: at this commit the handlers update the ledger
themselves.

### WebDelete

One task. `row` is its entry; a marker is the status `deleting` with an `UpdatedAt`, which the
model names by an element of `Marks`, a fresh one each time as nanoseconds are. `age` is the
time since a marker was set; `Tick` advances it, but not past the moment at which a handler is
due: a cleanup begins within `MaxWait` of its marker and its context ends its commands after
`Timeout`. How late the last step of a deletion comes is not bounded. `call` holds the
deletions in flight with the marker they set and the snapshot they took; the snapshot of a
takeover is itself an old marker, and a failed takeover puts that one back.

Other writers of the entry: `Update` is the dashboard's PATCH of status, worker id and branch.
The worker id is the task's own, none, or another one, and `NamesWorker` says for which a cleanup
looks for the right window: with none it falls back to `worker-` and the task's number, which
the names of windows have in front of them the project's slug (`Prefixed`). `lost` is a history
of what the code cannot clean up after: a spawn that was cut off or failed and left something,
and an update that took the worker's id off the entry. `Create` may hand out the number of a deleted task again; `spawn_worker` and its rollback are
as in `TaskLifecycle`, with windows counted only. The updates of `stop_worker`, `notify` and
`split_task` are left out: each goes through `UpdateIfStatuses...` with a list of statuses that
`deleting` is not in. `in_progress` stands for `blocked`, too. The branch is a flag of the
entry, since only whether there is one decides on anything. A cleaner without a tmux session
skips the window; that case is left out, because `config.go` gives an empty name a default
(line 260) and refuses a blank one (line 333).

### TerminalController

A step is one callback, as JavaScript runs one at a time: an event of a socket, a timer, the
answer to a probe, an event of the browser, or a call of the component. `started`, `generation`,
`phase`, `retryAttempt`, `socket`, `retryTimer`, `stableTimer`, `probe`, `lastSize` are the
fields of the class; `sockets`, `retryTimers`, `stableTimers` and `probes` are what the browser
still holds, with the generation each callback captured: a socket that was given up closes
later, an aborted probe is rejected later, and the code has to recognise both. `view` and `cb`
are of the hook: the options of the last render, and the render whose callbacks are set, since
effects run after a render (`Render`, then `Effects`). `Mount` and `Unmount` in a row are
StrictMode's repetition of effects. A send that throws, or a constructor that does, is an
alternative of the action it belongs to. How long a retry waits (`calculateRetryDelay`) is left
out: the timer fires when it likes, and the counter the delay grows with is kept.

`configure` is a part of its own: unlike `updateOptions` it does not touch the wake listeners.
Left out: URLs, the validation of messages, the text of problems, and notifying of a state that
did not change.

### TerminalScreen

Messages are numbered as they are sent. The chunks of a buffer follow one another, so that the
first and the last say which they are, and the screen is described by the first and last chunk
written since its last reset and how many there were. `Data` is `handleTerminalData` with its
trimming, `Snapshot` `handleTerminalSnapshot`, `Close` and `ApplyToken` the two ways buffers are
deleted. `Render` takes over the buffer, and `WriteEffect` is the effect that follows; `written`
and `revision` are its refs. `Mount` makes a new xterm. A surface that has to go stays, with its
callbacks, until the next render (`leaving`). `MaxBatch` is no part of the code: it says how many
chunks may come between two renders, and nothing but the speed of the browser bounds it.

Left out: xterm itself, which is taken to show what it is given, in order; a chunk that is empty.

### Workspace

`ui` is the state with all that is queued, `view` that of the last render. The callbacks and the
refs know `view`; an update in functional form is applied to `ui`. An answer changes `ui` and
`Render` makes it the `view`. A render that does not list what is selected leaves its effect to run
(`pending`), which selects another terminal in place of the one that is gone (`Effect`), or runs
at the latest before the next render. A click changes both at once: React renders before the next
event, with or without what was queued before. A load
has one step per answer (`ProjectsAnswered`, `TerminalsAnswered` for each project, in any order,
each of which may fail alone) and one for its end; a creation or a closing is handled by the
server, and answered, in steps of their own, or fails in between or before. The three
generations are the refs of the code. Windows have numbers, as in `<project>-shell-<n>`: the
server gives a new shell the first free one, so that a name comes back.

`settled` is no state of the code. It has the projects whose lists can be right: loaded under
this token and, since then, changed by this dashboard alone with an answer that arrived.

The two generation guards of a load that a change or a later load overtook are modelled, but
`Blocked` alone rules these cases out, except that StrictMode starts the first load twice.

Left out: labels, notices, errors and the focus of tabs; requests without an answer, see below.

## Runs

| Run | Shows | Bounds |
|---|---|---|
| `orchestrator` | `OneOwner`, `NothingStranded`, `QuietAfterClose`, `KeepsPromise`, `AcceptedIsLaunched`, `CloseTerminates` | 3 triggers of one reason, queue of 2, 1 drain slot, 1 failure, a slow shell |
| `orchestrator_slow_shell` | `NoRunCutShort` is violated when the shell needs time | 2 triggers, no failure |
| `lifecycle_serial` | `NoInvisibleOrphan`, `UnstartedIsClean`, `OneWindow`, `CompletionSticks`, `AssignedKeepsWindow` | 2 ids, 2 lives, 2 reasons, 2 handlers, 1 of the agent, 1 failure or 1 crash (`OneMishap`) |
| `lifecycle_single` | `CleanupConverges` | 2 ids, 1 life, 2 fair handlers, 1 failure, 1 crash |
| `stale_notify` | `StaleNotifyIgnored` is violated | no failure, no crash |
| `lost_children` | `SplitHasChildren` is violated | no failure, no crash |
| `event_queue` | all properties of `EventQueue` | 3 callers (2 split requests), buffer 0 or 1, 2 canceled contexts |
| `web_delete` | `OwnsEntry`, `OneCleaner`, `GoneMeansGone`, `StaysDeleted`, `DeletionEnds` | 2 deletions at once, 1 spawn, 1 update, 1 failure, 1 crash, lease 2, time-out 1, no wait |
| `terminal_controller` | all properties of `TerminalController` | 4 views (2 terminals, a token, none), 2 sockets, 3 restarts, 2 retries counted, 6 kinds of reply, 1 size |
| `terminal_screen` | all properties of `TerminalScreen` | buffer of 5 trimmed to 3, at most 2 chunks between renders, 10 messages |
| `screen_burst` | `ScreenIsWhole` is violated | the same with 3 chunks between renders |
| `workspace` | all properties of `Workspace` | 2 projects, 3 windows (1 not a shell), 3 loads, 2 calls, 1 change by others |

Why the bounds are enough for the questions asked:

* Three triggers are needed for one that starts a run, one that waits behind it and one that
  meets a full queue of two; equal reasons are the case in which an entry can be mistaken for
  another. One drain slot suffices: `OneOwner`, which is proved for any number, allows one drain
  goroutine at work, and it ends in the step that gives the flag up, so that its slot is free
  for the next. `codex` is the harness with the most steps, as its prompt is sent apart;
  `orchestrator_slow_shell` runs `claude`.
* Two lives are the smallest number for a worker and its replacement, two ids for a task and
  a child, two handlers for an interleaving of two calls; `CleanupConverges` needs no replacement.
  `lifecycle_serial` has a failure or a crash but not both; without its constraint `OneMishap`, which
  takes 2.8 million states instead of 1.2, its properties hold as well.
  A split with another reason than the pending one takes a third id, for the child of the second
  request: `MayFinish` compares reasons in the runs and in the theorems, but only the theorems
  have them differ. What larger instances add is said by the theorems. No run has two calls of
  the agent at once: one agent that waits for an answer before it makes its next call is the
  usual case, though the code does not enforce it.
* Three callers let a wakeup go to a second caller while a third waits; a buffer of 0 is the
  rendezvous, 1 the bounded buffer that is full and empty in turn. Two split requests are one
  and its repetition.
* Two deletions are a stale one and the one that takes over; a third would find a marker that
  is held or one that is expired, as the second does. Four markers are as many as two deletions,
  their snapshots and the entry can name at a time, and one more. The times keep the order
  `MaxWait + Timeout < Lease` of the code's 4 and 5 minutes. `Prefixed` is TRUE, as `workerIDFor`
  has it; the theorems have either. An update writes the task's own worker id or none: another
  id is looked for in vain, as none is with a branch. One update is one before, between or after
  the two deletions.
* Two sockets are the current one and one that was given up; three restarts let a callback be
  one or two generations late. Two terminals and two tokens of one terminal are what options can
  differ in. Two retries counted are a first one and a later one. A reply is none, a success, one
  that is worth a retry, one that is not, and the two with a phase of their own. There is one
  size: what could be mixed up is whose size it is, and `SizeIsTold` has any number of sizes.
* A buffer of 5 kept at 3 can be trimmed by a batch that is as long as the room, and by one that
  is longer; ten messages trim it more than once, on both sides of a reconnect.
* Two projects are the selected one and another; three windows let a number come back while
  another one is there. In the beginning one project has the window that is not a shell, and the
  other one none (`MCOpened`). Three loads are a first one, a refresh, and one after another token.

The types of `TaskLifecycle` and `EventQueue` are checked in their runs; those of every module
are proved. `CHECK_DEADLOCK FALSE` is set for the orchestrator, the handlers, the queue and
the dashboard: a system whose agents and users ask for nothing stands still. In `WebDelete` a
dashboard can always do something. Symmetry is used in `lifecycle_serial` only.

### What the violations show

`orchestrator_slow_shell`: the requirements promise that a trigger waits for the running
orchestrator to complete. Whether one is running is read off the foreground process of the
pane, and for a moment after `send-keys` this is still the shell. A trigger in that moment
resets the window. The run `orchestrator` has this moment, too: everything accepted is
still launched, though it may be cut short.

`stale_notify`: a comment and tests say that a stale worker cannot change the ledger. The
check under the lock compares worker ids, and a replacement has the id of its predecessor. A
notification that passed the preflight, then `stop_worker`, `spawn_worker`, and the rest of the
notification, changes the task of the new worker.

`lost_children`: a comment says that the children of a split exist before its cleanup is
retried. The marker that makes the retry possible is written before the children are. A
`create_task` that takes the id in between, and a `stop_worker` that finishes the split, end
in a split task without children.

`screen_burst`: the acceptance scenario asks that terminal bytes are never dropped silently. A
buffer of more than 1600 chunks is trimmed to 1200, and the effect that writes notices a trim by
the buffer being shorter than what it has written. When at least 401 chunks come between two
renders, the trimmed buffer can be as long as that again: the effect goes on at its old index,
and the chunks in between are never written. Nothing shows it.

### Fairness

*Orchestrator*: weak fairness for each goroutine, for `Close` once it was called, for the
clock (runs time out) and for the shell. The Go scheduler and the shell justify these. Nobody
has to trigger, and a harness may run for ever. *TaskLifecycle*: weak fairness for each
handler in flight; strong fairness for a call of `stop_worker` while a cleanup marker is set,
because the tools report a pending cleanup to the orchestrator agent and ask it to retry.
Strong, since calls of the agent come one at a time and the slots may be taken again and
again. *EventQueue*: goroutines that were woken run, `Run` is called and its processing does
not stall, the watcher of a canceled context gets to run. Nobody has to enqueue, cancel or
close. *WebDelete*: handlers run and time passes; somebody asks again for a deletion whose
lease has ended, since nothing in the server does; and strong fairness for the last step of a
deletion under its own marker: without it every deletion could be so late with this step that
another one has taken over, for ever. *TerminalController*: weak fairness for what the browser
owes: timers fire, an aborted request is rejected, a closing socket closes, a probe times out.
Strong fairness for a socket that opens and for a retry that finds a socket to be had: the
server can be reached from time to time, which is what the retries are for. Nobody has to
answer a probe. *Workspace*: every request is answered or fails, and React renders and runs effects.
`TerminalScreen` has safety properties only.

## Proofs

`OrchestratorProofs` proves for every set of callers, every number of drain slots, every queue
bound and every number of failures:

* `TypeCorrect`, `MutualExclusion` (`OneOwner`), `NoLostTrigger` (`NothingStranded`),
  `CloseIsQuiet` (`QuietAfterClose`).

They rest on the named assumptions of `Orchestrator` (a positive bound of the queue, calls and
drain slots are different things, `NoEntry` is no entry). None of the properties is inductive.
The invariant is in three parts. `Typed` adds to the types that a goroutine past `Peek` has
read an entry. `Control` is why the flag works as a lock: at most one goroutine owns it and it
is set exactly while one does (`OneOwner`, `FlagOwned`), so that `starting`, which any
goroutine may set or clear, is TRUE exactly while somebody is between `claimStart` and
`releaseStart` (`StartClaimed`), and `Close`, which has set `closed` before it looks at
`starting`, returns only when nobody is there and nobody can get there (`Closing`). For
`NothingStranded` every goroutine that gives the flag up must have seen the queue empty under
the lock or `closed` set.

The proofs have one step for each action and one below it for each conjunct the action can
disturb; `OwnerMoves`, `OwnerLeaves`, `GoesOn` and `ReturnsControl` are the lemmas that the
many actions of `tryStartNext` share.

`OrchestratorProofs` also proves `ImplementsTriggerQueue`: `Spec => KeepsPromise`, for the same
constants. Each action is either a step of `TriggerQueue` or leaves its variables alone: `Trigger`
queues, a failed run withdraws, a launch is `SendCommand` or `SendPrompt` where `start` is left
without an error, and the pop that follows is a stutter, since the mapping took the entry away
before. It rests on `Control` and on a second invariant (`QueueInv`) with three
parts. The owner of the flag is the only one to take from the queue, so that the entry it read
is still the head when it launches and pops it (`HeadRead`). A caller that found the flag clear
queued into an empty queue, so that the entry it withdraws, picked by position and reason, is its
own (`OwnIsHead`); with that, equal reasons do no harm. And a caller was answered no or yes as its
entry was withdrawn or not (`Answers`).

`TaskLifecycleProofs` proves for any number of tasks, lives, handlers in flight, failures and
crashes:

* `TypeCorrect` (`TypeOK`);
* `RecordedStays` (`CompletionSticks`) under `OneOrchCall`: at most one call of the orchestrator
  agent is in flight, beside any number of notifications.

A recorded completion stays because every writer of the ledger looks at the status or the marker
again, under the lock, with two exceptions. A `split_request` whose children cannot be added puts
back the entry it had read: until then its own marker keeps out every other writer, and there is
one such handler for a task (`AddInv`, `AddOne`). `split_task` deletes the children it added
without a look: nobody has started them, as that takes a second call of the agent (`KidInv`).
`Tame` says for one entry what any step may make of it; it is shown once for each writer, and the
rest is deduced from it and from `Advance`, which says what a step may make of a handler's
locals. An archived task is not started again while its remains are swept (`SweepInv`).

`TaskWorkerProofs` proves on top of that, for any tasks, lives, handlers, failures and crashes:

* `AssignedStays` (`AssignedKeepsWindow`), `WindowIsOne` (`OneWindow`), `NoOrphan`
  (`NoInvisibleOrphan`) and `UnstartedClean` (`UnstartedIsClean`), each under `OneOrchCall` and
  nothing else.

The four come from one question: can a cleanup, which knows its worker by an id that the next
worker has too, be late? Two orders of calls make it late, and both are recorded in `harm`
(`crossed`, `returned`), since the code does not keep agents from them. For every other task the
answer is no, because it does not get back to `unstarted` while the cleanup lasts. A cleanup that
a worker caused was begun under a mark that no other handler takes away until the task is over
(`HeldInv`, `SplitInv`); a stop keeps its task from being in progress (`StopInv`) and a spawn has
its task for itself until it took it (`TakeInv`), because the agent makes one call at a time; an
archived task stays absent (`SweepHeld`, `KidFree`). `LateInv` is the conjunction of these, and
`AssignedStays` follows from it. `WInv` adds what there is of a worker. A life has one task
(`PlaceOwn`) and is briefed when its spawn is over (`BriefInv`); a task that is not active has no
remains of a briefed worker (`OrphanInv`), since a cleanup that gets to its last ledger update
has failed nowhere (`CleanInv`). A task whose spawns took their windows back has one window at
most (`OneInv`), while it is unstarted that of the worktree at its path (`PairInv`): a spawn that
finds the path free finds no window. A task without harm has remains while it is unstarted only
if its spawn is at work (`ReadyInv`), whatever failed and crashed before.

The proof does not split each of these by action. `Stepped` collects what a step of a handler may
do: to its locals (`Advance`, `Flow`), to an entry (`Tame`, `Moves`), to windows, worktrees and
the rest (`World`). Each is shown once, action by action, and each part of the invariant is then
deduced from them.

`EventQueueProofs` proves for any callers, split requests, canceled contexts and any buffer:

* `TypeCorrect`, `NoLostWakeup` (`RunIsAwake`), `Rendezvous` (`HandToHand`) and `SplitsAreWhole`
  (`SplitIsWhole`).

Callers and `Run` wait on one condition, and `Signal` wakes whichever it likes. No wakeup is lost
because `Run` announces itself to all before it waits, so that no caller waits while `Run` does
(`AloneInv`): a `Signal` that matters to `Run` can go to nobody else. The ledger's part needs that
an event is in one place, once (`OnceInv`), and that children are those of one settled request,
of the one being processed, or of one that could not be taken back (`ChildrenInv`).

`WebDeleteProofs` proves for any number of deletions, markers, spawns, updates, failures and
crashes, whatever worker ids may be entered and however they are prefixed:

* `TypeCorrect`, `EntryIsOwned` (`OwnsEntry`), `CleanersExclude` (`OneCleaner`),
  `DeletedStaysDeleted` (`StaysDeleted`) and `NothingLeftBehind` (`GoneMeansGone`).

They rest on `LeaseAssumption`, `MaxWait + Timeout < Lease`: the code grants four minutes of
cleanup and a lease of five, so they speak of handlers that start their cleanup less than a
minute after they set their marker. `OwnsEntry` is not inductive. The invariant adds that the
markers of deletions in flight are distinct (`Distinct`), so that a deletion that settles late
cannot take another's marker for its own, and that a held marker is no older than its holder's
deadline allows (`Timely`), so that no takeover finds it expired.

For `GoneMeansGone` a second invariant says that a window, worktree or registry entry that is there
belongs to the task's entry or to the spawn in flight (`Accounted`), and that what a cleanup
has removed without a failure stays away (`Swept`). The latter is said of every marker of the
same round of deletions (`Round`), not only of the one in the entry: a deletion that took over
and failed may put an older marker back, and whoever holds that one then erases the entry.

`TerminalControllerProofs` proves for any options, sockets, sizes, replies and retry policy:

* `TypeCorrect`, `ConnectionIsUnique` (`OneConnection`), `PhaseIsTrue` (`PhaseTellsTruth`),
  `NothingIsMixedUp` (`OutputReachesItsTerminal`), `SizeIsTold` (`SizeInStep`) and
  `RetriesBackOff` (`FlappingBacksOff`).

The invariant adds to types and `PhaseTellsTruth` that a handle is set exactly while its
callback is due, and both are of the present (`TimersInv`); that the current socket was made in
this generation with these options, and every other one is closing (`SocketInv`); and that a
probe of this generation is the current one (`ProbeInv`), so that what comes late is recognised
by its generation alone. The pieces the operations share (`Connect`, `Renew`, `ScheduleRetry`,
`CloseSocket`) have a lemma each. On top of it, `SizeInStep` is inductive, since no step but an
open event makes a socket open (`Unopened`), and `FlappingBacksOff` follows because only a
timer that belongs to the current, open socket resets the counter (`StepCounts`).

`TerminalScreenProofs` proves for any sizes of the buffer and any number of messages:

* `TypeCorrect`, `ScreenWhole` (`ScreenIsWhole`), `SnapshotReplacesScreen` (`SnapshotReplaces`)
  and `TokenSeparates` (`NothingSurvivesToken`).

`ScreenWhole` is stated under `BatchFits`: no more chunks come between two renders than the buffer
keeps above what it is trimmed to, 400 in the code. Nothing in the code sees to that, and
`screen_burst` shows that one more is too many. The other three need no such assumption. The
invariant has two layers: `Base` says that buffer, last render and refs are of revisions that
only grow, and that what is on the screen is of the revision that was written last; `Whole` adds
that, of one revision, they are parts of one sequence, and that a trimmed buffer is shorter than
what was written (`BatchInv`, `RefsInv`).

`WorkspaceProofs` proves for any projects, windows, loads and calls:

* `TypeCorrect`, `SelectionStaysListed` (`SelectionIsListed`) and `StaysInStep` (`InStep`).

What makes `InStep` hold is that at most one load or call of the present is under way and blocks
the others (`LoadsExclude`, `CallsExclude`), that nothing queued is unrendered when the buttons
are free (`RenderedWhenBlocked`), and that a settled project's list differs from the server's by
just the call that was handled and not yet answered (`ListsAccounted`).

`SelectionStaysListed` needs more than the effect, which knows the lists of its render only. A
selection that is not listed, with no effect to run, can be the last word only if an answer makes
what is queued the same as what was rendered (`EffectIsQueued`). An answer that changes the lists
cannot: a shell that was opened is newer than all that is listed (`ListsDated`), and one that was
closed was listed until then (`ClosingIsListed`).

Only model-checked: the liveness properties (`AcceptedIsLaunched`, `CloseTerminates`,
`CleanupConverges` and those of the other modules), since this prover reaches neither fairness
nor `ENABLED`. Every invariant and every action property that a passing run checks is a theorem.

### What is known not to hold

`GoneMeansGone` leaves out three cases in which a window or a worktree outlives its task: a spawn
that was cut off by a crash, or a step or the rollback of which failed and left something; two
windows of one name, which `kill-window` reports as not found and the cleaner therefore takes for
gone; and an update that takes the worker's id off the entry. A PATCH that sets the status to
`unstarted` and clears `worker_id` and `branch` makes the next DELETE remove the entry at once
(`web/server.go:1233`), and one that clears `worker_id` only makes it look for a window that nobody
has (`web/server.go:261`): the worker goes on, and its id is in no entry.

A rollback of `spawn_worker` that comes late removes the registry entry of a replacement, whose
worker id is the same (`mcp/handlers.go:2183`); `mcp/handlers_test.go:1463` tests the order in
which it does not. `AssignedKeepsWindow` leaves out a worker that asks for one split twice: the
cleanup of its second request may come so late that it meets the window of the task's next worker.
`CleanupConverges` is checked for one call of the agent at a time; with two that overlap it fails.
It leaves out a task with two windows: none of them can be killed by its name, so that the cleanup
fails for ever. `OneWindow` fails, too, with two calls that overlap: a `spawn_worker` that passed
its preflight waits while another one makes the worker and a stop fails to look for its window and
removes its worktree; then the path is free, and a second window is opened beside the first. So
does `CompletionSticks`: the rollback of `split_task` deletes its children whatever became of
them (`mcp/handlers.go:735`), and meanwhile another call may have started one, whose worker has
reported completion.

A stop that was begun before a completion was recorded, and goes on after it, deletes the branch of
the completed task if that is safe (`mcp/handlers.go:1129`): `intentDeletesBranch` looks at the
intent of the call, not at the marker that is there by then.

A `split_request` whose child's number is taken puts its task back as it was. If the worker, or
its successor, asked again meanwhile, the cleanup of this second request is under way by then and
comes so late that it removes the worktree of the task's next worker. Then a worker that has its
task is shown as none (`NoInvisibleOrphan`, with three handlers), or, after a crash, the task is
spawned again beside its old window (`OneWindow`, with two handlers and three lives). This is
the harm `crossed`.

`AddAll` compares its numbers with the ledger, not with the archive (`ledger/ledger.go:233`). If the
number that a `split_request` chose is created, completed and archived before it adds its child,
an archived task comes back as unstarted, and the cleanup of its first worker, if it is still under
way, kills the window of the next one (`AssignedKeepsWindow`, with three handlers and three lives).
This is the harm `returned`.

A spawn that the server crashed in after `git worktree add` and before the task was taken, one whose
git command failed and took effect, and a rollback whose commands fail leave a worktree or a window
to a task that is unstarted (`left`, `adrift`). As long as the worktree is there every spawn of the
task is refused, and `stop_worker` does not know a worker of it; where only the window is there, the
next spawn opens a second one. The code has no remedy for either.

Where `DeleteTasks` fails, the children of a refused split stay in the ledger (`event/queue.go:297`),
which `SplitIsWhole` leaves out. An event that waits in the queue while its worker is replaced is
applied to the task of the new worker, as both have one id (`event/queue.go:305`); the test of the
stale event gives them two.

In the dashboard, a closing whose answer was lost may have been handled, and the number it names
may be given out again: closing it once more then closes another shell, until a refresh
(`main.tsx:237`); `InStep` leaves a project out from the lost answer on. The requests of the
dashboard have no time-out (`main.tsx:66`), so that `NeverStuck` is about requests that end.
`configure` does not install the wake listeners again that `updateOptions` removed when there was
nothing to connect to (`terminal/controller.ts:236`); only tests call it.

## Not modelled, and the plan

In this order:

1. `RuntimeReload`: `Manager` with `Reload`, the scheduler that ends, requests that hold the
   old project; composed with the promise `TriggerQueue`.
2. `TmuxStream`: the shared stream of a pane and its subscribers; composed with `TerminalScreen`,
   which takes from it that a snapshot comes first.
3. Pure parts as operators with a reference definition: the position that
   `removeQueuedAtLocked` picks, the path patterns of the file contract, the rules on when a
   branch may be deleted.
4. The rest of the web API: creation with an idempotency key and its pending trigger
   (`pendingTriggerSet`), projects and their deletion.

Not planned: MCP transport, GitHub client, configuration, command line, the scripts that build
and embed the dashboard (`web/scripts/embedded-assets.mjs`, `web/vite.config.ts`), and of the
dashboard the layout, labels, notices and the focus of tabs. They keep no state that several
actors share, or are input and output only.
