------------------------------ MODULE WebDelete ------------------------------
(***************************************************************************)
(* internal/web/server.go, deleteTask, over internal/ledger: the deletion  *)
(* of a task with its worker, while other deletions of the same task, a    *)
(* spawn_worker call and updates from the dashboard are under way.         *)
(*                                                                         *)
(* A task with anything to clean up is not removed at once: its entry      *)
(* becomes a marker (status "deleting"), the commands that remove window,  *)
(* worktree and branch run without a lock, and then the marker is removed, *)
(* or replaced by the snapshot taken before it.  Both happen only if the   *)
(* marker is still the handler's own; markers differ by their UpdatedAt,   *)
(* here a name.  A marker is a lease: when it is old enough another        *)
(* deletion takes the task over.  Time is an age that Tick advances.       *)
(***************************************************************************)
EXTENDS Naturals

CONSTANTS Handlers,   \* DELETE requests that can be in flight at once, by number
          Marks,      \* names of markers; 0 stands for none
          Lease,      \* deleteCleanupLease
          Timeout,    \* deleteCleanupTimeout
          MaxWait,    \* longest time from setting a marker to starting its cleanup
          Prefixed,   \* worker ids begin with the project's slug (workerIDFor), which the
                      \* fallback name of a cleanup does not
          Enterable,  \* worker ids the dashboard may enter
          MaxSpawns,  \* bound on spawn_worker calls
          MaxUpdates, \* bound on updates from the dashboard
          MaxFails,   \* bound on failing commands and ledger writes
          MaxCrashes  \* bound on crashes of the server

ASSUME MarksAssumption == Handlers \subseteq Nat /\ Marks \subseteq Nat \ {0}
ASSUME TimesAssumption == Lease \in Nat /\ Timeout \in Nat /\ MaxWait \in Nat
ASSUME LeaseAssumption == MaxWait + Timeout < Lease
ASSUME PrefixedAssumption == Prefixed \in BOOLEAN
ASSUME BoundsAssumption ==
  MaxSpawns \in Nat /\ MaxUpdates \in Nat /\ MaxFails \in Nat /\ MaxCrashes \in Nat

VARIABLES
  row,       \* the entry of the task in the ledger
  age,       \* time since each marker was set, as far as it matters
  windows,   \* number of windows that bear the worker id
  tree,      \* the worktree of the task exists
  registry,  \* the registry knows the worker
  spawn,     \* the spawn_worker call in flight: its step, and whether it took the task
  spawns,    \* number of spawn_worker calls so far
  call,      \* the deletions in flight
  lost,      \* history: a spawn was cut off, or it failed and left something behind, or an
             \* update took the worker's id off the entry
  updates,   \* number of updates so far
  fails, crashes

world == <<windows, tree, registry>>
spawning == <<spawn, spawns>>
history == <<lost, updates>>
budget == <<fails, crashes>>
vars == <<row, age, world, spawning, call, history, budget>>

Workers == {"none", "own", "other"}
ASSUME EnterableAssumption == Enterable \subseteq Workers

\* "in_progress" stands for blocked, too, and "completed" for split.  The worker is the
\* task's own, or whatever else the dashboard has entered.
Statuses == {"absent", "unstarted", "in_progress", "completed", "deleting"}
Entries == [status : Statuses, worker : Workers, branch : BOOLEAN, marker : Marks \cup {0}]
Absent == [status |-> "absent", worker |-> "none", branch |-> FALSE, marker |-> 0]
Unstarted == [Absent EXCEPT !.status = "unstarted"]

PCs == {"idle", "begin", "kill", "remove", "branch", "settle"}

\* A handler's locals: the marker it set, the snapshot from before, the age of the marker
\* at which the context of its cleanup expires, and whether a command failed.
Idle == [pc |-> "idle", marker |-> 0, prev |-> Absent, deadline |-> 0, failed |-> FALSE]
Calls == [pc : PCs, marker : Marks \cup {0}, prev : Entries, deadline : 0..(MaxWait + Timeout),
          failed : BOOLEAN]

SpawnPCs == {"idle", "worktree", "window", "ledger", "register", "launch",
             "undo_window", "undo_worktree", "undo_ledger"}
NoSpawn == [pc |-> "idle", taken |-> FALSE]

Init ==
  /\ row = Unstarted
  /\ age = [n \in Marks |-> 0]
  /\ windows = 0
  /\ tree = FALSE
  /\ registry = FALSE
  /\ spawn = NoSpawn
  /\ spawns = 0
  /\ call = [h \in Handlers |-> Idle]
  /\ lost = FALSE
  /\ updates = 0
  /\ fails = 0
  /\ crashes = 0

-----------------------------------------------------------------------------
(* Helpers *)

Goto(h, pc) == call' = [call EXCEPT ![h].pc = pc]
Return(h) == call' = [call EXCEPT ![h] = Idle]
Fail == fails < MaxFails /\ fails' = fails + 1

InCleanup(h) == call[h].pc \in {"kill", "remove", "branch"}
Holding(h) == call[h].pc = "begin" \/ InCleanup(h)

InUse == {row.marker} \cup {call[h].marker : h \in Handlers}
                      \cup {call[h].prev.marker : h \in Handlers}

\* The age of a marker that nobody remembers does not matter.
ForgetAges == age' = [n \in Marks |-> IF n \in InUse' THEN age[n] ELSE 0]

\* The name a cleanup looks for: without an entry it is "worker-" and the task's number.
NamesWorker(r) == r.worker = "own" \/ (r.worker = "none" /\ ~Prefixed)

\* kill-window by name: a name that two windows bear is not found, like one that none does.
KillNamed == windows' = IF windows = 1 THEN 0 ELSE windows

-----------------------------------------------------------------------------
(* DELETE /api/tasks/{id} *)

AtOnce(r) == TRUE                             \* mutant: a new delete always takes over
Never(r) == FALSE                             \* mutant: a marker never expires
Expired(r) == age[r.marker] >= Lease

\* mutant: what a worker left behind is not looked at
OnlyIfActive(r) == IF r.status = "deleting" THEN Expired(r) ELSE r.status = "in_progress"
NeedsCleanup(r) ==
  IF r.status = "deleting" THEN Expired(r)
  ELSE r.status = "in_progress" \/ r.worker # "none" \/ r.branch

\* PrepareDeleteReturnPrev: nothing to clean up, the entry goes at once.
DeleteAtOnce(h) ==
  /\ call[h] = Idle
  /\ row.status \notin {"absent", "deleting"}
  /\ ~NeedsCleanup(row)
  /\ row' = Absent
  /\ UNCHANGED <<age, world, spawning, call, history, budget>>

\* Otherwise it becomes a marker, or a new marker takes the place of an expired one.  A
\* marker that is not expired is answered "in progress" and stays.
Mark(h) ==
  /\ call[h] = Idle
  /\ \A k \in Handlers : call[k] = Idle => h <= k   \* any number will do
  /\ row.status # "absent"
  /\ NeedsCleanup(row)
  /\ \E n \in Marks \ InUse :
        /\ \A m \in Marks \ InUse : n <= m   \* any name will do
        /\ row' = [row EXCEPT !.status = "deleting", !.marker = n]
        /\ age' = [age EXCEPT ![n] = 0]
        /\ call' = [call EXCEPT ![h] = [Idle EXCEPT !.pc = "begin", !.marker = n, !.prev = row]]
  /\ UNCHANGED <<world, spawning, history, budget>>

\* The context of the cleanup starts to run.
BeginCleanup(h) ==
  /\ call[h].pc = "begin"
  /\ call' = [call EXCEPT ![h].pc = "kill", ![h].deadline = age[call[h].marker] + Timeout]
  /\ UNCHANGED <<row, age, world, spawning, history, budget>>

\* CleanupWorker goes on after a failure and reports it at the end.  An expired context is
\* one way to fail, and a command that failed may have done its work.
Command(h, this, next) ==
  /\ call[h].pc = this
  /\ UNCHANGED <<row, age, spawning, history, crashes>>
  /\ \/ Fail /\ call' = [call EXCEPT ![h].pc = next, ![h].failed = TRUE]
     \/ Goto(h, next) /\ UNCHANGED fails

\* A window that is not found is no failure.  There is always a session to look in: the
\* configuration refuses an empty name.
CleanupKill(h) ==
  /\ Command(h, "kill", "remove")
  /\ \/ NamesWorker(call[h].prev) /\ KillNamed
     \/ ~NamesWorker(call[h].prev) /\ UNCHANGED windows
     \/ fails' # fails /\ UNCHANGED windows
  /\ UNCHANGED <<tree, registry>>

CleanupRemove(h) ==
  /\ Command(h, "remove", "branch")
  /\ tree' = FALSE \/ (fails' # fails /\ UNCHANGED tree)
  /\ UNCHANGED <<windows, registry>>

\* The branch, if it is safe to delete; the registry forgets the worker of that name in
\* any case.
CleanupBranch(h) ==
  /\ Command(h, "branch", "settle")
  /\ call[h].prev.branch \/ fails' = fails
  /\ registry' = (registry /\ ~NamesWorker(call[h].prev))
  /\ UNCHANGED <<windows, tree>>

AnyMarker(r, n) == TRUE                       \* mutant: as RestoreTaskSnapshot does
SameDeleteMarker(r, n) == r.status = "deleting" /\ r.marker = n

\* RestoreTaskSnapshotIfCurrent after a failure.  The write may fail as well.
Restore(h) ==
  /\ call[h].pc = "settle" /\ call[h].failed
  /\ \/ /\ row' = IF SameDeleteMarker(row, call[h].marker) THEN call[h].prev ELSE row
        /\ UNCHANGED fails
     \/ Fail /\ UNCHANGED row
  /\ Return(h)
  /\ ForgetAges
  /\ UNCHANGED <<world, spawning, history, crashes>>

\* DeleteTaskIfCurrent after success.
Erase(h) ==
  /\ call[h].pc = "settle" /\ ~call[h].failed
  /\ \/ /\ row' = IF SameDeleteMarker(row, call[h].marker) THEN Absent ELSE row
        /\ UNCHANGED fails
     \/ Fail /\ UNCHANGED row
  /\ Return(h)
  /\ ForgetAges
  /\ UNCHANGED <<world, spawning, history, crashes>>

Work(h) ==
  \/ BeginCleanup(h) \/ CleanupKill(h) \/ CleanupRemove(h) \/ CleanupBranch(h)
  \/ Restore(h) \/ Erase(h)

\* Time passes for the markers in use, unless a handler is due: one that just set its
\* marker begins within MaxWait, and a context ends its commands at the deadline.
Tick ==
  /\ \A h \in Handlers : call[h].pc = "begin" => age[call[h].marker] < MaxWait
  /\ \A h \in Handlers : InCleanup(h) => age[call[h].marker] < call[h].deadline
  /\ \E n \in InUse \ {0} : age[n] < Lease
  /\ age' = [n \in Marks |-> IF n \notin InUse THEN 0
                             ELSE IF age[n] < Lease THEN age[n] + 1 ELSE age[n]]
  /\ UNCHANGED <<row, world, spawning, call, history, budget>>

-----------------------------------------------------------------------------
(* What else writes the entry *)

\* POST /api/tasks: AddNew hands out the lowest free number, a deleted one included.
Create ==
  /\ row = Absent
  /\ row' = Unstarted
  /\ UNCHANGED <<age, world, spawning, call, history, budget>>

EvenDeleting(r) == r.status # "absent"        \* mutant: the marker is not respected
MayUpdate(r) == r.status \notin {"absent", "deleting"}

\* PATCH /api/tasks/{id}: the dashboard sets status, worker and branch as it likes, with no
\* look at windows and worktrees.
Update(status, worker, branch) ==
  /\ MayUpdate(row)
  /\ updates < MaxUpdates /\ updates' = updates + 1
  /\ row' = [row EXCEPT !.status = status, !.worker = worker, !.branch = branch]
  /\ lost' = (lost \/ (row.worker = "own" /\ worker # "own"))
  /\ UNCHANGED <<age, world, spawning, call, budget>>

\* spawn_worker, as in TaskLifecycle but for what deletions cannot tell apart.
SpawnTo(pc) == spawn' = [spawn EXCEPT !.pc = pc]

SpawnBegin ==
  /\ spawn = NoSpawn /\ spawns < MaxSpawns
  /\ row.status = "unstarted"
  /\ spawns' = spawns + 1
  /\ SpawnTo("worktree")
  /\ UNCHANGED <<row, age, world, call, history, budget>>

SpawnWorktree ==
  /\ spawn.pc = "worktree"
  /\ \/ ~tree /\ tree' = TRUE /\ SpawnTo("window") /\ UNCHANGED fails
        /\ UNCHANGED lost
     \/ tree /\ spawn' = NoSpawn /\ UNCHANGED <<tree, fails, lost>>
     \/ /\ Fail /\ spawn' = NoSpawn        \* nothing is rolled back
        /\ tree' \in {tree, TRUE} /\ lost' = (lost \/ tree' # tree)
  /\ UNCHANGED <<row, age, windows, registry, spawns, call, updates, crashes>>

SpawnWindow ==
  /\ spawn.pc = "window"
  /\ \/ windows' = windows + 1 /\ SpawnTo("ledger") /\ UNCHANGED fails
        /\ UNCHANGED lost
     \/ /\ Fail /\ SpawnTo("undo_worktree")
        /\ windows' \in {windows, windows + 1} /\ lost' = (lost \/ windows' # windows)
  /\ UNCHANGED <<row, age, tree, registry, spawns, call, updates, crashes>>

\* UpdateIfStatus(unstarted): worker and branch are entered with the new status.
SpawnLedger ==
  /\ spawn.pc = "ledger"
  /\ IF row.status = "unstarted"
     THEN /\ row' = [row EXCEPT !.status = "in_progress", !.worker = "own", !.branch = TRUE]
          /\ spawn' = [pc |-> "register", taken |-> TRUE]
     ELSE SpawnTo("undo_window") /\ UNCHANGED row
  /\ UNCHANGED <<age, world, spawns, call, history, budget>>

SpawnRegister ==
  /\ spawn.pc = "register"
  /\ IF row = Absent
     THEN SpawnTo("undo_window") /\ UNCHANGED registry
     ELSE SpawnTo("launch") /\ registry' = TRUE
  /\ UNCHANGED <<row, age, windows, tree, spawns, call, history, budget>>

\* Keys are sent to the one window that bears the name.
SpawnLaunch ==
  /\ spawn.pc = "launch"
  /\ \/ windows = 1 /\ spawn' = NoSpawn /\ UNCHANGED fails
     \/ windows # 1 /\ SpawnTo("undo_window") /\ UNCHANGED fails
     \/ Fail /\ SpawnTo("undo_window")
  /\ UNCHANGED <<row, age, world, spawns, call, history, crashes>>

\* The rollback ignores what its commands report.
UndoWindow ==
  /\ spawn.pc = "undo_window"
  /\ \/ KillNamed /\ UNCHANGED <<lost, fails>>
     \/ Fail /\ lost' = TRUE /\ UNCHANGED windows
  /\ SpawnTo("undo_worktree")
  /\ UNCHANGED <<row, age, tree, registry, spawns, call, updates, crashes>>

UndoWorktree ==
  /\ spawn.pc = "undo_worktree"
  /\ \/ tree' = FALSE /\ UNCHANGED <<lost, fails>>
     \/ Fail /\ lost' = TRUE /\ UNCHANGED tree
  /\ spawn' = IF spawn.taken THEN [spawn EXCEPT !.pc = "undo_ledger"] ELSE NoSpawn
  /\ UNCHANGED <<row, age, windows, registry, spawns, call, updates, crashes>>

\* rollbackSpawnAfterLedgerUpdate: an entry that is not in progress any more is left alone.
UndoLedger ==
  /\ spawn.pc = "undo_ledger"
  /\ registry' = FALSE
  /\ row' = IF row.status = "in_progress"
            THEN [row EXCEPT !.status = "unstarted", !.worker = "none", !.branch = FALSE]
            ELSE row
  /\ spawn' = NoSpawn
  /\ UNCHANGED <<age, windows, tree, spawns, call, history, budget>>

Spawn ==
  \/ SpawnBegin \/ SpawnWorktree \/ SpawnWindow \/ SpawnLedger \/ SpawnRegister
  \/ SpawnLaunch \/ UndoWindow \/ UndoWorktree \/ UndoLedger

\* The ledger file, windows and worktrees survive; handlers and the registry do not.
Crash ==
  /\ crashes < MaxCrashes
  /\ crashes' = crashes + 1
  /\ call' = [h \in Handlers |-> Idle]
  /\ spawn' = NoSpawn
  /\ registry' = FALSE
  /\ lost' = (lost \/ spawn # NoSpawn)
  /\ UNCHANGED <<row, windows, tree, spawns, updates, fails>>
  /\ ForgetAges

-----------------------------------------------------------------------------
Next ==
  \/ \E h \in Handlers : DeleteAtOnce(h) \/ Mark(h) \/ Work(h)
  \/ \E status \in Statuses \ {"absent", "deleting"}, worker \in Enterable, branch \in BOOLEAN :
        Update(status, worker, branch)
  \/ Create \/ Spawn \/ Tick \/ Crash

Spec == Init /\ [][Next]_vars

\* Requests run, time passes, somebody retries a deletion until it is done, and a request
\* is not late with its last step every time.
Settles(h) == SameDeleteMarker(row, call[h].marker) /\ (Restore(h) \/ Erase(h))
FairSpec ==
  /\ Spec
  /\ \A h \in Handlers : WF_vars(Work(h))
  /\ WF_vars(Tick)
  /\ WF_vars(\E h \in Handlers : Mark(h) /\ row.status = "deleting")
  /\ SF_vars(\E h \in Handlers : Settles(h))

-----------------------------------------------------------------------------
(* Properties *)

TypeOK ==
  /\ row \in Entries
  /\ age \in [Marks -> 0..Lease]
  /\ windows \in 0..MaxSpawns
  /\ tree \in BOOLEAN
  /\ registry \in BOOLEAN
  /\ spawn \in [pc : SpawnPCs, taken : BOOLEAN]
  /\ spawns \in 0..MaxSpawns
  /\ call \in [Handlers -> Calls]
  /\ lost \in BOOLEAN
  /\ updates \in 0..MaxUpdates
  /\ fails \in 0..MaxFails
  /\ crashes \in 0..MaxCrashes

\* A deletion that is cleaning up, or about to, owns the entry: it is marked as deleting,
\* with that deletion's marker.  No update, spawn or rollback may touch the entry then.
OwnsEntry == \A h \in Handlers : Holding(h) => SameDeleteMarker(row, call[h].marker)

\* Two deletions never clean up one task at a time: the later one could fail on what the
\* earlier one removes, and restore a task whose worker is gone.
OneCleaner == \A h, k \in Handlers : Holding(h) /\ Holding(k) => h = k

\* A deleted task comes back only as a new one: a deletion that failed late, when another
\* one has finished, restores nothing.
StaysDeleted == [][row = Absent /\ row' # Absent => row' = Unstarted]_vars

\* When the entry is gone and nobody is at work, the worker is gone as well, whatever the
\* dashboard wrote meanwhile, unless it took the worker's id off the entry, a spawn was cut
\* off, or two windows bore one name, which kill-window reports as none.
Quiet == spawn = NoSpawn /\ \A h \in Handlers : call[h] = Idle
GoneMeansGone ==
  row = Absent /\ Quiet /\ ~lost => windows # 1 /\ ~tree /\ ~registry

\* No task is left in deletion for ever, a crash between marking and removing included.
DeletionEnds == row.status = "deleting" ~> row.status # "deleting"
=============================================================================
