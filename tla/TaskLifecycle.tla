---------------------------- MODULE TaskLifecycle ----------------------------
(***************************************************************************)
(* internal/mcp/handlers.go over internal/ledger, internal/worker,         *)
(* internal/worktree and internal/tmux: the life of a task from unstarted  *)
(* through a worker in a tmux window and a git worktree to completed,      *)
(* split or back to unstarted.                                             *)
(*                                                                         *)
(* The orchestrator agent calls spawn_worker, stop_worker, split_task,     *)
(* archive_task and create_task; the worker agents call notify.  No lock   *)
(* spans a handler: it reads the ledger, lets go of it, runs git and tmux  *)
(* commands, and updates the ledger again under a check of the status.  A  *)
(* step is one ledger operation or one external command.  The ledger file, *)
(* windows, worktrees and branches survive a crash of the server; handlers *)
(* in flight and the worker registry do not.                               *)
(*                                                                         *)
(* The worker id is computed from the task id, so every worker of a task   *)
(* has the same one.  The model numbers the lives of workers (one per      *)
(* spawn_worker call) to tell apart what the code cannot.                  *)
(***************************************************************************)
EXTENDS Naturals, FiniteSets

CONSTANTS NumIds,    \* task ids 1..NumIds, in the order GenerateID hands them out
          Reasons,   \* what a split can be asked for with
          MaxLives,  \* bound on spawn_worker calls
          Slots,     \* handlers that can be in flight at once
          OrchCalls, \* of these, at most so many calls of the orchestrator agent
          MaxFails,  \* bound on failing git and tmux commands and lost windows
          MaxCrashes \* bound on crashes of the server

ASSUME NumIdsAssumption == NumIds \in Nat \ {0}
ASSUME MaxLivesAssumption == MaxLives \in Nat
ASSUME SlotsAssumption == IsFiniteSet(Slots)
ASSUME OrchCallsAssumption == OrchCalls \in Nat
ASSUME BudgetAssumption == MaxFails \in Nat /\ MaxCrashes \in Nat

Ids == 1..NumIds
Lives == 1..MaxLives

VARIABLES
  ledger,    \* the entry of each id
  archive,   \* the entry in each id's archive file, Absent if there is no file
  registry,  \* tasks whose worker the in-memory registry knows
  windows,   \* the lives whose window bears the worker id of the task
  worktree,  \* the life for which the task's worktree was created, 0 if there is none
  branches,  \* branches that exist, named by the life they were created for
  lives,     \* number of spawn_worker calls so far
  briefed,   \* lives that were sent their task prompt
  life,      \* history: the life whose spawn last took the task to in_progress
  parent,    \* history: the task each child was split from, 0 if none
  harm,      \* history: what happened to each task that its spawns may suffer from
  call,      \* the handlers in flight
  fails, crashes

disk == <<ledger, archive>>
world == <<windows, worktree, branches>>
agents == <<lives, briefed>>
history == <<life, parent, harm>>
vars == <<disk, registry, world, agents, history, call, fails, crashes>>

Statuses == {"absent", "unstarted", "in_progress", "blocked", "completed", "split"}
Markers == {"none", "completed", "split_request"}   \* cleanup-pending comment in the body
Active == {"in_progress", "blocked"}

\* The marker of a split holds the reason it was asked for with.
Entries == [status : Statuses, owned : BOOLEAN, branch : 0..MaxLives, marker : Markers,
            reason : Reasons \cup {"none"}]
Absent == [status |-> "absent", owned |-> FALSE, branch |-> 0, marker |-> "none",
           reason |-> "none"]
Unstarted == [Absent EXCEPT !.status = "unstarted"]

\* left: a spawn was broken off, or its rollback failed, and its worktree remained;
\* adrift: likewise its window; crossed: a split_request put the task back while another one
\* was cleaning it up; returned: a split_request gave its archived number to a child.
Harms == {"left", "adrift", "crossed", "returned"}

OrchOps == {"spawn", "stop", "split", "archive"}
NotifyOps == {"completed", "blocked", "split_request"}

PCs == {"idle", "worktree", "window", "ledger", "register", "launch", "prompt", "undo_kill",
        "undo_worktree", "undo_ledger", "mark", "update", "ids", "retry", "add", "parent",
        "undo", "probe", "kill", "remove", "branch", "pending", "finish", "file", "sweep"}

\* A handler's locals: its task, the life it was called for, the cleanup intent, the
\* original reason of a split, snapshot of the entry before its own update, the child it
\* adds, failed cleanup.
Idle == [op |-> "none", pc |-> "idle", id |-> 1, g |-> 0, intent |-> "stop",
         reason |-> "none", prev |-> Absent, kid |-> 0, failed |-> FALSE]

Calls == [op : {"none"} \cup OrchOps \cup NotifyOps, pc : PCs, id : Ids, g : 0..MaxLives,
          intent : {"stop", "completed", "split_request"}, reason : Reasons \cup {"none"},
          prev : Entries, kid : 0..NumIds, failed : BOOLEAN]

Init ==
  /\ ledger = [id \in Ids |-> IF id = 1 THEN Unstarted ELSE Absent]
  /\ archive = [id \in Ids |-> Absent]
  /\ registry = {}
  /\ windows = [id \in Ids |-> {}]
  /\ worktree = [id \in Ids |-> 0]
  /\ branches = {}
  /\ lives = 0
  /\ briefed = {}
  /\ life = [id \in Ids |-> 0]
  /\ parent = [id \in Ids |-> 0]
  /\ harm = [id \in Ids |-> {}]
  /\ call = [s \in Slots |-> Idle]
  /\ fails = 0
  /\ crashes = 0

-----------------------------------------------------------------------------
(* Helpers *)

At(s, op, pc) == call[s].op = op /\ call[s].pc = pc
Begin(s, op, id, pc, g, prev) ==
  /\ call[s] = Idle
  /\ op \in OrchOps => Cardinality({u \in Slots : call[u].op \in OrchOps}) < OrchCalls
  /\ call' = [call EXCEPT ![s] = [Idle EXCEPT !.op = op, !.id = id, !.pc = pc, !.g = g,
                                              !.prev = prev]]
Goto(s, pc) == call' = [call EXCEPT ![s].pc = pc]
GotoFailed(s, pc) == call' = [call EXCEPT ![s].pc = pc, ![s].failed = TRUE]
Done(s) == call' = [call EXCEPT ![s] = Idle]
Cleaning(s) == call[s].pc \in {"probe", "kill", "remove", "branch", "pending", "finish"}
Fail == fails < MaxFails /\ fails' = fails + 1
Harm(id, h) == harm' = [harm EXCEPT ![id] = @ \cup {h}]

Set(id, entry) == ledger' = [ledger EXCEPT ![id] = entry]

\* tmux finds a window by its name when exactly one window bears it.
Addressable(id) == Cardinality(windows[id]) = 1
Close(id, g) == windows' = [windows EXCEPT ![id] = @ \ {g}]
KillWindow(id) == Addressable(id) /\ \E g \in windows[id] : Close(id, g)

\* DeleteTaskBranchIfSafe keeps a branch that is checked out, or has a remote counterpart.
DeleteIfSafe(id, branch) ==
  \/ UNCHANGED branches
  \/ worktree'[id] # branch /\ branches' = branches \ {branch}

IsArchived(id) == archive[id] # Absent

\* GenerateIDs: the lowest number that neither ledger nor archive holds.
FreeIds == {id \in Ids : ledger[id].status = "absent" /\ ~IsArchived(id)}
FirstFree(id) == id \in FreeIds /\ \A other \in FreeIds : id <= other

-----------------------------------------------------------------------------
(* create_task: AddNew allocates the id and appends the task under one lock. *)

CreateTask ==
  /\ \E id \in Ids : FirstFree(id) /\ Set(id, Unstarted)
  /\ UNCHANGED <<archive, registry, world, agents, history, call, fails, crashes>>

-----------------------------------------------------------------------------
(* spawn_worker *)

\* Preflight on a ledger read that is not repeated; a refused call leaves no trace.
SpawnBegin(s, id) ==
  /\ lives < MaxLives
  /\ ledger[id].status = "unstarted"
  /\ lives' = lives + 1
  /\ Begin(s, "spawn", id, "worktree", lives', Absent)
  /\ UNCHANGED <<disk, registry, world, briefed, history, fails, crashes>>

PathNeverChecked(id) == FALSE                 \* mutant: no look at the path
PathTaken(id) == worktree[id] # 0

\* git worktree add -b: refused where a worktree is.  One that fails or is canceled may have
\* made its branch, and its worktree; nothing is rolled back.
SpawnWorktree(s) ==
  LET c == call[s]
      Add == worktree' = [worktree EXCEPT ![c.id] = c.g] /\ branches' = branches \cup {c.g}
  IN
  /\ At(s, "spawn", "worktree")
  /\ \/ /\ Fail /\ Done(s)
        /\ \/ /\ branches' \in {branches, branches \cup {c.g}}
              /\ UNCHANGED <<worktree, harm>>
           \/ ~PathTaken(c.id) /\ Add /\ Harm(c.id, "left")
     \/ PathTaken(c.id) /\ Done(s) /\ UNCHANGED <<worktree, branches, harm, fails>>
     \/ ~PathTaken(c.id) /\ Add /\ Goto(s, "window") /\ UNCHANGED <<harm, fails>>
  /\ UNCHANGED <<disk, registry, windows, agents, life, parent, crashes>>

\* tmux new-window does not mind a second window of the same name, and a canceled one
\* may have made its window all the same, which is not killed then.
SpawnWindow(s) ==
  LET c == call[s]
      Open == windows' = [windows EXCEPT ![c.id] = @ \cup {c.g}]
  IN
  /\ At(s, "spawn", "window")
  /\ \/ /\ Fail /\ Goto(s, "undo_worktree")
        /\ UNCHANGED <<windows, harm>> \/ (Open /\ Harm(c.id, "adrift"))
     \/ Open /\ Goto(s, "ledger") /\ UNCHANGED <<harm, fails>>
  /\ UNCHANGED <<disk, registry, worktree, branches, agents, life, parent, crashes>>

\* UpdateIfStatus(unstarted): the task is taken, or somebody else had it meanwhile.
SpawnLedger(s) ==
  LET c == call[s] IN
  /\ At(s, "spawn", "ledger")
  /\ IF ledger[c.id].status = "unstarted"
     THEN /\ Set(c.id, [ledger[c.id] EXCEPT !.status = "in_progress", !.owned = TRUE,
                                            !.branch = c.g])
          /\ life' = [life EXCEPT ![c.id] = c.g]
          /\ Goto(s, "register")
     ELSE Goto(s, "undo_kill") /\ UNCHANGED <<ledger, life>>
  /\ UNCHANGED <<archive, registry, world, agents, parent, harm, fails, crashes>>

\* Past the ledger update the rollback undoes that, too.
SpawnFailed(s) == GotoFailed(s, "undo_kill")

\* The task is reloaded for the prompt, then the registry learns of the worker.
SpawnRegister(s) ==
  LET c == call[s] IN
  /\ At(s, "spawn", "register")
  /\ IF ledger[c.id].status = "absent"
     THEN SpawnFailed(s) /\ UNCHANGED registry
     ELSE registry' = registry \cup {c.id} /\ Goto(s, "launch")
  /\ UNCHANGED <<disk, world, agents, history, fails, crashes>>

\* Secret file, launch command, wait for the harness, wait before the prompt.
SpawnLaunch(s) ==
  LET c == call[s] IN
  /\ At(s, "spawn", "launch")
  /\ \/ /\ \/ Fail
           \/ ~Addressable(c.id) /\ UNCHANGED fails
        /\ SpawnFailed(s)
     \/ Addressable(c.id) /\ Goto(s, "prompt") /\ UNCHANGED fails
  /\ UNCHANGED <<disk, registry, world, agents, history, crashes>>

\* The prompt is best effort unless the call's own deadline passed.
SpawnPrompt(s) ==
  LET c == call[s] IN
  /\ At(s, "spawn", "prompt")
  /\ \/ /\ Fail /\ UNCHANGED briefed
        /\ SpawnFailed(s) \/ Done(s)
     \/ ~Addressable(c.id) /\ Done(s) /\ UNCHANGED <<briefed, fails>>
     \/ /\ Addressable(c.id) /\ briefed' = briefed \cup windows[c.id]
        /\ Done(s) /\ UNCHANGED fails
  /\ UNCHANGED <<disk, registry, world, lives, history, crashes>>

\* cleanupSpawnResources ignores what its commands report.
UndoKill(s) ==
  /\ At(s, "spawn", "undo_kill")
  /\ \/ Fail /\ Harm(call[s].id, "adrift") /\ UNCHANGED windows
     \/ ~Addressable(call[s].id) /\ UNCHANGED <<windows, harm, fails>>
     \/ KillWindow(call[s].id) /\ UNCHANGED <<harm, fails>>
  /\ Goto(s, "undo_worktree")
  /\ UNCHANGED <<disk, registry, worktree, branches, agents, life, parent, crashes>>

UndoWorktree(s) ==
  /\ At(s, "spawn", "undo_worktree")
  /\ \/ Fail /\ Harm(call[s].id, "left") /\ UNCHANGED <<worktree, branches>>
     \/ /\ worktree' = [worktree EXCEPT ![call[s].id] = 0]
        /\ DeleteIfSafe(call[s].id, call[s].g)
        /\ UNCHANGED <<harm, fails>>
  /\ IF call[s].failed THEN Goto(s, "undo_ledger") ELSE Done(s)
  /\ UNCHANGED <<disk, registry, windows, agents, life, parent, crashes>>

\* rollbackSpawnAfterLedgerUpdate: the reset is skipped when the task moved on.
UndoLedger(s) ==
  LET c == call[s] IN
  /\ At(s, "spawn", "undo_ledger")
  /\ registry' = registry \ {c.id}
  /\ IF ledger[c.id].status = "in_progress"
     THEN Set(c.id, [ledger[c.id] EXCEPT !.status = "unstarted", !.owned = FALSE, !.branch = 0])
     ELSE UNCHANGED ledger
  /\ Done(s)
  /\ UNCHANGED <<archive, world, agents, history, fails, crashes>>

Spawn(s) ==
  \/ SpawnWorktree(s) \/ SpawnWindow(s) \/ SpawnLedger(s) \/ SpawnRegister(s)
  \/ SpawnLaunch(s) \/ SpawnPrompt(s)
  \/ UndoKill(s) \/ UndoWorktree(s) \/ UndoLedger(s)

-----------------------------------------------------------------------------
(* The cleanup that stop_worker, notify and split_task share: cleanupWorkerResources, *)
(* then markCleanupPending if a command failed, else finishPendingCleanup.            *)

\* What a cleanup needs of the entry before the update.
Snapshot(entry) == [Absent EXCEPT !.branch = entry.branch]

\* intent says what the cleanup is for, and reason what the split was asked for with.
ToCleanup(s, intent) ==
  call' = [call EXCEPT ![s].pc = "probe", ![s].intent = intent,
                       ![s].reason = ledger'[call[s].id].reason,
                       ![s].prev = Snapshot(ledger[call[s].id])]

\* Each command is tried even if one before it failed.
CleanupProbe(s) ==
  /\ call[s].pc = "probe"
  /\ \/ Fail /\ GotoFailed(s, "remove")
     \/ /\ Goto(s, IF windows[call[s].id] = {} THEN "remove" ELSE "kill")
        /\ UNCHANGED fails
  /\ UNCHANGED <<disk, registry, world, agents, history, crashes>>

\* The window that was alive may be gone by now, which is a failure, too.
CleanupKill(s) ==
  LET c == call[s] IN
  /\ c.pc = "kill"
  /\ \/ /\ Fail \/ (~Addressable(c.id) /\ UNCHANGED fails)
        /\ GotoFailed(s, "remove") /\ UNCHANGED windows
     \/ KillWindow(c.id) /\ Goto(s, "remove") /\ UNCHANGED fails
  /\ UNCHANGED <<disk, registry, worktree, branches, agents, history, crashes>>

LeaveWorktree(id) == UNCHANGED worktree       \* mutant: the directory stays
RemoveWorktree(id) == worktree' = [worktree EXCEPT ![id] = 0]

\* A worktree that is already gone counts as removed.
CleanupRemove(s) ==
  LET c == call[s] IN
  /\ c.pc = "remove"
  /\ \/ Fail /\ GotoFailed(s, "branch") /\ UNCHANGED worktree
     \/ RemoveWorktree(c.id) /\ Goto(s, "branch") /\ UNCHANGED fails
  /\ UNCHANGED <<disk, registry, windows, branches, agents, history, crashes>>

DeletesBranch(intent) == intent # "completed"

NeverPending(failed) == "finish"              \* mutant: failed cleanup is forgotten
AfterCleanup(failed) == IF failed THEN "pending" ELSE "finish"

\* The branch goes unless a completed task still needs it or deleting is not safe; the
\* registry forgets the worker when nothing failed.
CleanupBranch(s) ==
  LET c == call[s]
      deletes == DeletesBranch(c.intent) /\ c.prev.branch # 0
      Settle(failed) == /\ registry' = IF failed THEN registry ELSE registry \ {c.id}
                       /\ Goto(s, AfterCleanup(failed))
  IN
  /\ c.pc = "branch"
  /\ UNCHANGED <<disk, windows, worktree, agents, history, crashes>>
  /\ \/ deletes /\ Fail /\ Settle(TRUE) /\ UNCHANGED branches
     \/ deletes /\ DeleteIfSafe(c.id, c.prev.branch) /\ Settle(c.failed) /\ UNCHANGED fails
     \/ ~deletes /\ Settle(c.failed) /\ UNCHANGED <<branches, fails>>

MarkCleanupPending(s) ==
  LET c == call[s] IN
  /\ c.pc = "pending"
  /\ IF ledger[c.id].status = "blocked"
     THEN Set(c.id, [ledger[c.id] EXCEPT !.owned = TRUE, !.branch = c.prev.branch])
     ELSE UNCHANGED ledger
  /\ Done(s)
  /\ UNCHANGED <<archive, registry, world, agents, history, fails, crashes>>

\* mutant: marker not compared
MayFinishAnyBlocked(entry, intent, reason) == entry.status = "blocked"

\* A stop may finish only a task without marker, the others only a task with their own, and
\* a split only one that was asked for with the same reason.
MayFinish(entry, intent, reason) ==
  /\ entry.status = "blocked"
  /\ entry.marker = (IF intent = "stop" THEN "none" ELSE intent)
  /\ intent = "split_request" => entry.reason = reason

\* mutant: the intent itself becomes the status
FinishedAsIntent(entry, intent) == [Absent EXCEPT !.status = intent]

Finished(entry, intent) ==
  CASE intent = "completed" ->
         [entry EXCEPT !.status = "completed", !.owned = FALSE, !.marker = "none"]
    [] intent = "split_request" -> [Absent EXCEPT !.status = "split"]
    [] intent = "stop" -> Unstarted

FinishPendingCleanup(s) ==
  LET c == call[s] IN
  /\ c.pc = "finish"
  /\ IF MayFinish(ledger[c.id], c.intent, c.reason)
     THEN Set(c.id, Finished(ledger[c.id], c.intent))
     ELSE UNCHANGED ledger
  /\ Done(s)
  /\ UNCHANGED <<archive, registry, world, agents, history, fails, crashes>>

Cleanup(s) ==
  \/ CleanupProbe(s) \/ CleanupKill(s) \/ CleanupRemove(s) \/ CleanupBranch(s)
  \/ MarkCleanupPending(s) \/ FinishPendingCleanup(s)

-----------------------------------------------------------------------------
(* stop_worker *)

\* The worker is known to the registry or to the ledger.
StopBegin(s, id) ==
  /\ id \in registry \/ ledger[id].owned
  /\ Begin(s, "stop", id, "mark", 0, Absent)
  /\ UNCHANGED <<disk, registry, world, agents, history, fails, crashes>>

StopIntentAlways(entry) == "stop"                 \* mutant: forgets the pending intent
StopIntent(entry) == IF entry.marker = "none" THEN "stop" ELSE entry.marker

\* Recorded as blocked before anything is touched; a pending cleanup is taken over.
StopMark(s) ==
  LET e == ledger[call[s].id] IN
  /\ At(s, "stop", "mark")
  /\ IF e.status \in {"in_progress", "blocked", "unstarted"}
     THEN /\ Set(call[s].id, [e EXCEPT !.status = "blocked", !.owned = TRUE])
          /\ ToCleanup(s, StopIntent(e))
     ELSE Done(s) /\ UNCHANGED ledger
  /\ UNCHANGED <<archive, registry, world, agents, history, fails, crashes>>

-----------------------------------------------------------------------------
(* notify *)

\* Called by a worker that has its prompt and its window; preflight on a ledger read.
\* An ignored or refused call leaves no trace.
NotifyBegin(s, id, g, op) ==
  LET e == ledger[id] IN
  /\ g \in briefed /\ g \in windows[id]
  /\ e.status \in Active /\ e.owned
  /\ e.marker \in {"none", op}
  /\ Begin(s, op, id, IF op # "split_request" THEN "update"
                        ELSE IF e.marker = op THEN "retry" ELSE "ids", g, Absent)
  /\ UNCHANGED <<disk, registry, world, agents, history, fails, crashes>>

\* The check under the ledger lock: the assigned worker, no other cleanup pending.
StillAssigned(e, markers) == e.status \in Active /\ e.owned /\ e.marker \in markers

\* completed: the completion is recorded before the worker is removed.  The call is refused
\* if the PR's files do not keep to the file contract, if that changed while they were
\* verified, or if the task moved on.
NotifyCompleted(s) ==
  LET e == ledger[call[s].id] IN
  /\ At(s, "completed", "update")
  /\ \/ /\ StillAssigned(e, {"none", "completed"})
        /\ Set(call[s].id, [e EXCEPT !.status = "blocked", !.marker = "completed"])
        /\ ToCleanup(s, "completed")
     \/ Done(s) /\ UNCHANGED ledger
  /\ UNCHANGED <<archive, registry, world, agents, history, fails, crashes>>

NotifyBlocked(s) ==
  LET e == ledger[call[s].id] IN
  /\ At(s, "blocked", "update")
  /\ IF StillAssigned(e, {"none"})
     THEN Set(call[s].id, [e EXCEPT !.status = "blocked"])
     ELSE UNCHANGED ledger
  /\ Done(s)
  /\ UNCHANGED <<archive, registry, world, agents, history, fails, crashes>>

\* GenerateIDs, for split_request and for split_task.
ChooseIds(s) ==
  /\ call[s].pc = "ids"
  /\ \/ FreeIds = {} /\ Done(s)
     \/ \E kid \in Ids :
          /\ FirstFree(kid)
          /\ call' = [call EXCEPT ![s].pc = IF call[s].op = "split" THEN "add" ELSE "update",
                                  ![s].kid = kid]
  /\ UNCHANGED <<disk, registry, world, agents, history, fails, crashes>>

NotifySplit(s) ==
  LET e == ledger[call[s].id] IN
  /\ At(s, "split_request", "update")
  /\ IF StillAssigned(e, {"none"})
     THEN \E r \in Reasons :
            /\ Set(call[s].id, [e EXCEPT !.status = "blocked", !.marker = "split_request",
                                         !.reason = r])
            /\ call' = [call EXCEPT ![s].pc = "add", ![s].reason = r, ![s].prev = e]
     ELSE Done(s) /\ UNCHANGED ledger
  /\ UNCHANGED <<archive, registry, world, agents, history, fails, crashes>>

\* AddAll after the parent's update looks for the id in the ledger only; if it is taken the
\* parent is put back, as long as it is still blocked.
NotifySplitAdd(s) ==
  LET c == call[s]
      e == ledger[c.id]
      crossing == \E u \in Slots : /\ call[u].op = "split_request" /\ call[u].id = c.id
                                   /\ Cleaning(u)
  IN
  /\ At(s, "split_request", "add")
  /\ \/ /\ ledger[c.kid].status = "absent"
        /\ Set(c.kid, Unstarted)
        /\ parent' = [parent EXCEPT ![c.kid] = c.id]
        /\ IF IsArchived(c.kid) THEN Harm(c.kid, "returned") ELSE UNCHANGED harm
        /\ call' = [call EXCEPT ![s].pc = "probe", ![s].intent = "split_request",
                                ![s].prev = Snapshot(c.prev)]
     \/ /\ ledger[c.kid].status # "absent"
        /\ IF e.status = "blocked" THEN Set(c.id, c.prev) ELSE UNCHANGED ledger
        /\ IF e.status = "blocked" /\ crossing THEN Harm(c.id, "crossed") ELSE UNCHANGED harm
        /\ Done(s) /\ UNCHANGED parent
  /\ UNCHANGED <<archive, registry, world, agents, life, fails, crashes>>

\* The retry of a split whose cleanup is pending, by notify and by split_task.
SplitRetry(s) ==
  LET e == ledger[call[s].id] IN
  /\ call[s].pc = "retry"
  /\ UNCHANGED disk
  /\ IF /\ e.status = "blocked" /\ e.marker = "split_request"
        /\ call[s].op = "split_request" => e.owned
     THEN ToCleanup(s, "split_request")
     ELSE Done(s)
  /\ UNCHANGED <<registry, world, agents, history, fails, crashes>>

Notify(s) ==
  \/ NotifyCompleted(s) \/ NotifyBlocked(s) \/ ChooseIds(s)
  \/ NotifySplit(s) \/ NotifySplitAdd(s)

-----------------------------------------------------------------------------
(* split_task *)

SplitBegin(s, id) ==
  LET e == ledger[id] IN
  /\ e.status \in {"unstarted", "in_progress", "blocked"}
  /\ e.marker # "completed"
  /\ Begin(s, "split", id, IF e.marker = "split_request" THEN "retry" ELSE "ids", 0, e)
  /\ UNCHANGED <<disk, registry, world, agents, history, fails, crashes>>

\* Children first.
SplitAdd(s) ==
  LET c == call[s] IN
  /\ At(s, "split", "add")
  /\ IF ledger[c.kid].status = "absent"
     THEN /\ Set(c.kid, Unstarted)
          /\ parent' = [parent EXCEPT ![c.kid] = c.id]
          /\ Goto(s, "parent")
     ELSE Done(s) /\ UNCHANGED <<ledger, parent>>
  /\ UNCHANGED <<archive, registry, world, agents, life, harm, fails, crashes>>

\* Then the parent, if it is where the preflight saw it.
SplitParent(s) ==
  LET c == call[s]
      e == ledger[c.id]
      allowed == IF c.prev.status \in Active THEN Active ELSE {c.prev.status}
      ok == e.status \in allowed /\ e.marker = "none"
  IN
  /\ At(s, "split", "parent")
  /\ \/ ok /\ e.status \in Active
        /\ \E r \in Reasons : Set(c.id, [e EXCEPT !.status = "blocked",
                                                !.marker = "split_request", !.reason = r])
        /\ ToCleanup(s, "split_request")
     \/ ok /\ e.status \notin Active
        /\ Set(c.id, [Absent EXCEPT !.status = "split"]) /\ Done(s)
     \/ ~ok /\ Goto(s, "undo") /\ UNCHANGED ledger
  /\ UNCHANGED <<archive, registry, world, agents, history, fails, crashes>>

\* DeleteTasks takes the children back, whatever became of them.
SplitUndo(s) ==
  /\ At(s, "split", "undo")
  /\ Set(call[s].kid, Absent)
  /\ Done(s)
  /\ UNCHANGED <<archive, registry, world, agents, history, fails, crashes>>

Split(s) == SplitAdd(s) \/ SplitParent(s) \/ SplitUndo(s)

-----------------------------------------------------------------------------
(* archive_task *)

\* A completed task, or one whose archive file exists and whose entry is gone.
ArchiveBegin(s, id) ==
  /\ \/ ledger[id].status = "completed" /\ Begin(s, "archive", id, "file", 0, ledger[id])
     \/ /\ ledger[id].status = "absent" /\ IsArchived(id)
        /\ Begin(s, "archive", id, "sweep", 0, archive[id])
  /\ UNCHANGED <<disk, registry, world, agents, history, fails, crashes>>

\* An archive file that exists is not written again.
WriteArchive(id) == archive' = [archive EXCEPT ![id] = IF @ = Absent THEN ledger[id] ELSE @]

\* Ledger.Archive: the archive file, then the ledger without the task, under one lock.
ArchiveFile(s) ==
  LET c == call[s]
      e == ledger[c.id]
  IN
  /\ At(s, "archive", "file")
  /\ \/ /\ e.status = "completed"
        /\ WriteArchive(c.id)
        /\ Set(c.id, Absent)
        /\ Goto(s, "sweep")
     \/ /\ e.status # "completed"
        /\ IF e.status = "absent" /\ IsArchived(c.id) THEN Goto(s, "sweep") ELSE Done(s)
        /\ UNCHANGED disk
  /\ UNCHANGED <<registry, world, agents, history, fails, crashes>>

\* Whatever is left of the worker goes; failures are only logged.
ArchiveSweep(s) ==
  LET c == call[s] IN
  /\ At(s, "archive", "sweep")
  /\ UNCHANGED windows \/ KillWindow(c.id)
  /\ registry' = registry \ {c.id}
  /\ worktree' \in {worktree, [worktree EXCEPT ![c.id] = 0]}
  /\ DeleteIfSafe(c.id, c.prev.branch)
  /\ Done(s)
  /\ UNCHANGED <<disk, agents, history, fails, crashes>>

Archive(s) == ArchiveFile(s) \/ ArchiveSweep(s)

-----------------------------------------------------------------------------
(* The server dies and comes back; between its two file writes, too *)

\* A spawn is broken off that has made a worktree and not taken its task yet.
Halfway(id) ==
  /\ ledger[id].status = "unstarted"
  /\ \E s \in Slots : call[s].op = "spawn" /\ call[s].id = id /\ call[s].pc # "worktree"

Crash ==
  /\ crashes < MaxCrashes
  /\ crashes' = crashes + 1
  /\ call' = [s \in Slots |-> Idle]
  /\ registry' = {}
  /\ \/ UNCHANGED archive
     \/ \E s \in Slots : /\ At(s, "archive", "file")
                         /\ ledger[call[s].id].status = "completed"
                         /\ WriteArchive(call[s].id)
  /\ harm' = [id \in Ids |-> harm[id] \cup {h \in {"left"} : Halfway(id)}]
  /\ UNCHANGED <<ledger, world, agents, life, parent, fails>>

\* A window disappears without the server's doing.
WindowLost ==
  /\ Fail
  /\ \E id \in Ids : \E g \in windows[id] : Close(id, g)
  /\ UNCHANGED <<disk, registry, worktree, branches, agents, history, call, crashes>>

-----------------------------------------------------------------------------
\* A handler is called.
Begins(s) ==
  \/ \E id \in Ids : SpawnBegin(s, id) \/ StopBegin(s, id) \/ SplitBegin(s, id)
                     \/ ArchiveBegin(s, id)
  \/ \E id \in Ids, g \in Lives, op \in NotifyOps : NotifyBegin(s, id, g, op)

\* A handler in flight goes on.
Step(s) ==
  \/ Spawn(s) \/ StopMark(s) \/ Notify(s) \/ Split(s) \/ Archive(s)
  \/ SplitRetry(s) \/ Cleanup(s)

Next ==
  \/ \E s \in Slots : Begins(s) \/ Step(s)
  \/ CreateTask
  \/ Crash
  \/ WindowLost

Spec == Init /\ [][Next]_vars

\* Handlers in flight go on, and for a task whose cleanup is pending stop_worker is
\* called again sooner or later.  No agent has to call anything else.
Fairness ==
  /\ \A s \in Slots : WF_vars(Step(s))
  /\ \A id \in Ids : SF_vars(ledger[id].marker # "none" /\ \E s \in Slots : StopBegin(s, id))

FairSpec == Spec /\ Fairness

-----------------------------------------------------------------------------
(* Correctness *)

\* Every variable has its type.
TypeOK ==
  /\ ledger \in [Ids -> Entries] /\ archive \in [Ids -> Entries]
  /\ registry \subseteq Ids
  /\ windows \in [Ids -> SUBSET Lives]
  /\ worktree \in [Ids -> 0..MaxLives]
  /\ branches \subseteq Lives
  /\ lives \in 0..MaxLives
  /\ briefed \subseteq Lives
  /\ life \in [Ids -> 0..MaxLives]
  /\ parent \in [Ids -> 0..NumIds]
  /\ harm \in [Ids -> SUBSET Harms]
  /\ call \in [Slots -> Calls]
  /\ fails \in Nat /\ crashes \in Nat

Quiet(id) == \A s \in Slots : call[s] = Idle \/ call[s].id # id

\* The path of the worktree works as a lock: however handlers, failing cleanups and crashes
\* fall together, a task has two windows of the same name only if a spawn that was rolled
\* back left its window behind.  Harmed tasks are left out: two split requests for one task
\* at a time can take the worktree of a later worker.
OneWindow ==
  \A id \in Ids : harm[id] \subseteq {"left"} => Cardinality(windows[id]) <= 1

\* No invisible orphan: while a worker that got its task still has a window or worktree,
\* its task is shown as active and assigned, so that stop_worker can be called for it,
\* whatever failed, in a spawn too.
NoInvisibleOrphan ==
  \A id \in Ids, g \in briefed :
    /\ Quiet(id) /\ harm[id] \subseteq {"left", "adrift"}
    /\ g \in windows[id] \/ worktree[id] = g
    => ledger[id].status \in Active /\ ledger[id].owned

\* A task that is unstarted again can be spawned again: nothing of the last attempt is in
\* the way, whichever step of the spawn failed and however a cleanup failed and was
\* retried.  The exceptions are a spawn that the server crashed in before it took the task,
\* and a worktree or window that failed to be made or removed while a spawn was rolled back.
UnstartedIsClean ==
  \A id \in Ids :
    Quiet(id) /\ ledger[id].status = "unstarted" /\ harm[id] = {}
      => windows[id] = {} /\ worktree[id] = 0

\* Once a completion is recorded no stop, split or rollback that was under way takes the
\* task anywhere but to completed and into the archive.
CompletionRecorded(id) == ledger[id].marker = "completed" \/ ledger[id].status = "completed"
CompletionSticks ==
  [][\A id \in Ids : CompletionRecorded(id)
       => CompletionRecorded(id)' \/ (ledger'[id] = Absent /\ IsArchived(id)')]_vars

\* A worker whose task is in progress under it loses its window only to its own spawn's
\* rollback, to a cleanup recorded against itself, or to somebody outside: never to one
\* that was recorded against an earlier worker of the task.  The cleanup of a split is left
\* out: where a worker asks for one split twice, the second cleanup may be that late.  So is
\* a task whose number came back from the archive.
AssignedKeepsWindow ==
  [][\A s \in Slots, id \in Ids :
       /\ life[id] \in windows[id] \ windows'[id]
       /\ ledger[id].status = "in_progress"
       /\ call'[s] # call[s] /\ "returned" \notin harm[id]
       => \/ call[s].op = "spawn" /\ call[s].g = life[id]
          \/ call[s].prev.branch = life[id]
          \/ call[s].intent = "split_request"]_vars

\* A notification changes the task of the worker that sent it, and no later worker's.
StaleNotifyIgnored ==
  [][\A s \in Slots :
       call[s].pc = "update" /\ ledger'[call[s].id] # ledger[call[s].id] /\ call'[s] # call[s]
         => call[s].g = life[call[s].id]]_vars

\* A task that ended as split has the children it was split into.
SplitHasChildren ==
  \A id \in Ids : Quiet(id) /\ ledger[id].status = "split" => \E kid \in Ids : parent[kid] = id

\* A cleanup that is recorded as pending, for a completion or for a split, converges through
\* failures and a crash, unless the task has two windows, which no tmux command tells apart.
CleanupConverges ==
  \A id \in Ids : ledger[id].marker # "none"
                    ~> ledger[id].marker = "none" \/ Cardinality(windows[id]) > 1
=============================================================================
