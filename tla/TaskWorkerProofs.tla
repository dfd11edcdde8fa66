-------------------------- MODULE TaskWorkerProofs --------------------------
(***************************************************************************)
(* Theorems about the windows and worktrees of TaskLifecycle's workers,    *)
(* for any number of tasks, workers, handlers in flight, failures and      *)
(* crashes.                                                                *)
(*                                                                         *)
(* A cleanup that comes late hits whatever bears the worker id of its task *)
(* then.  It never comes late for a worker that was spawned meanwhile,     *)
(* because the task cannot get back to unstarted while it lasts: the mark  *)
(* under which it was begun stays until the task is over.  Two orders of   *)
(* events take the mark away, and the history says which tasks they harm.  *)
(* Every part of the invariant is about the tasks that were not harmed in  *)
(* that way, so that nothing is assumed of the behaviours themselves.      *)
(***************************************************************************)
EXTENDS TaskLifecycleProofs

\* A late cleanup may hit the task; and, for those where it may not: no spawn of it failed
\* to take its window back.
Bad(id) == harm[id] \cap {"crossed", "returned"} # {}
Neat(id) == harm[id] \subseteq {"left"}

SpawnPCs == {"worktree", "window", "ledger", "register", "launch", "prompt", "undo_kill",
             "undo_worktree", "undo_ledger"}

\* Where a handler can be.
Path(s) ==
  /\ call[s].op = "spawn" => call[s].pc \in SpawnPCs
  /\ call[s].pc = "retry" => call[s].op \in {"split", "split_request"}
  /\ call[s].op = "none" => call[s].pc = "idle"
PathInv == \A s \in Slots : Path(s)

\* A task whose completed worker is cleaned up is over, one that is cleaned up by a call of
\* its worker is over or being split, and one that a call of the orchestrator agent cleans
\* up was taken out of its hands: none can be unstarted.
Over(id) == CompletionRecorded(id) \/ (ledger[id].status = "absent" /\ IsArchived(id))
Held(s) ==
  LET c == call[s] IN
  /\ c.intent = "completed" => Over(c.id) \/ "returned" \in harm[c.id]
  /\ Orch(s) => ledger[c.id].status \notin Waiting
  /\ ~Orch(s) => \/ c.op = "completed" /\ c.intent = "completed"
                 \/ c.op = "split_request" /\ c.intent = "split_request"
HeldInv == \A s \in Slots : Cleaning(s) => Held(s)
SplitInv == \A s \in Slots :
  Cleaning(s) /\ call[s].op = "split_request"
    => Splitting(ledger[call[s].id]) \/ Bad(call[s].id)

\* What comes back from the archive is harmed.
KidFree == \A s \in Slots : At(s, "split", "add") => ~IsArchived(call[s].kid)
Swept(id) == ledger[id].status = "absent" /\ IsArchived(id)
SweepHeld == \A s \in Slots :
  At(s, "archive", "sweep") => Swept(call[s].id) \/ "returned" \in harm[call[s].id]

\* A life has one task, and is briefed after its spawn.
Place(id, g) ==
  \/ g \in windows[id] \/ worktree[id] = g
  \/ \E s \in Slots : call[s].op = "spawn" /\ call[s].id = id /\ call[s].g = g
PlaceFresh == \A id \in Ids, g \in Lives : Place(id, g) => g <= lives
PlaceOwn == \A id, jd \in Ids, g \in Lives : Place(id, g) /\ Place(jd, g) => id = jd
BriefInv ==
  /\ \A g \in briefed : g <= lives
  /\ \A s \in Slots : call[s].op = "spawn" => call[s].g \notin briefed

NoBrief(id) == \A g \in briefed : g \notin windows[id] /\ worktree[id] # g
Clear(id) == windows[id] = {} /\ worktree[id] = 0

\* A spawn has its task for itself until it has taken it.
Taking(s) ==
  LET id == call[s].id  g == call[s].g IN
  /\ call[s].pc \in {"worktree", "window", "ledger"} => ledger[id].status = "unstarted"
  /\ call[s].pc \in {"register", "launch", "prompt", "undo_kill"} => life[id] = g
TakeInv == \A s \in Slots : call[s].op = "spawn" => Taking(s)

\* What a spawn finds of its task, and leaves of itself.
Spawning(s) ==
  LET id == call[s].id  g == call[s].g IN
  /\ call[s].pc = "window" => /\ worktree[id] = g \/ Bad(id)
                              /\ Neat(id) => windows[id] = {}
  /\ call[s].pc \in {"register", "launch", "prompt"}
       => ledger[id].status \in Active \/ windows[id] = {} \/ Bad(id)
  /\ NoBrief(id) \/ Bad(id)
  /\ call[s].pc \in {"undo_worktree", "undo_ledger"} /\ Neat(id) => windows[id] = {}
  /\ call[s].pc = "undo_ledger" => worktree[id] = 0 \/ "left" \in harm[id]
SpawnInv == \A s \in Slots : call[s].op = "spawn" => Spawning(s)

\* What a cleanup has done, unless a command of its failed.
Cleaned(s) ==
  LET id == call[s].id IN
  /\ call[s].pc = "finish" => ~call[s].failed
  /\ ~call[s].failed /\ call[s].pc \in {"remove", "branch", "finish"}
       => windows[id] = {} \/ Bad(id)
  /\ ~call[s].failed /\ call[s].pc \in {"branch", "finish"} => worktree[id] = 0 \/ Bad(id)
CleanInv == \A s \in Slots : Cleaned(s)

\* A task that is shown as active is assigned, and no other has a briefed worker's remains.
OwnedInv ==
  /\ \A id \in Ids : ledger[id].status \in Active => ledger[id].owned
  /\ \A s \in Slots : At(s, "split_request", "add") => call[s].prev.owned
OrphanInv == \A id \in Ids : ledger[id].status \notin Active => NoBrief(id) \/ Bad(id)

\* There is one window at most, and where a task is unstarted it is its worktree's.
OneInv == \A id \in Ids : Neat(id) => \A g, h \in windows[id] : g = h
PairInv == \A id \in Ids :
  Neat(id) /\ ledger[id].status = "unstarted" => \A g \in windows[id] : worktree[id] = g
GoneInv == \A id \in Ids :
  ledger[id].status \in {"absent", "completed"} => Clear(id) \/ Bad(id)
KidClear == \A s \in Slots :
  call[s].op = "split" /\ call[s].pc \in {"parent", "undo"}
    => Clear(call[s].kid) \/ Bad(call[s].kid)

\* The remains of an unharmed unstarted task are those of a spawn that goes on.
Raising(id) == \E s \in Slots :
  call[s].op = "spawn" /\ call[s].id = id /\ call[s].pc \in {"window", "ledger", "undo_worktree"}
ReadyInv == \A id \in Ids :
  ledger[id].status = "unstarted" /\ harm[id] = {} => Clear(id) \/ Raising(id)

\* While a stop cleans up its task is not in progress, nor can it be put back there.
Stopping(s) == Cleaning(s) /\ call[s].intent = "stop"
StopInv == \A s \in Slots : Stopping(s) =>
  /\ ledger[call[s].id].status # "in_progress"
  /\ \A u \in Slots : At(u, "split_request", "add") /\ call[u].id = call[s].id
                        => call[u].prev.status # "in_progress"

\* LateInv is about cleanups that come late, WInv about what is there of a worker, too.
LateInv == PathInv /\ HeldInv /\ KidFree /\ SweepHeld /\ TakeInv /\ StopInv
WInv == /\ LateInv /\ SplitInv /\ PlaceFresh /\ PlaceOwn /\ BriefInv /\ SpawnInv /\ CleanInv
        /\ OwnedInv /\ OrphanInv /\ OneInv /\ PairInv /\ GoneInv /\ KidClear /\ ReadyInv

-----------------------------------------------------------------------------
(* What a step does to the handlers' locals, the windows and the worktrees *)

LEMMA DoneMoves ==
  ASSUME Typed, NEW s \in Slots, Done(s)
  PROVE  call'[s] = Idle
BY DEF Typed, TypeOK, Done

LEMMA GotoKeeps ==
  ASSUME Typed, NEW s \in Slots, NEW p \in PCs, Goto(s, p)
  PROVE  /\ call'[s].pc = p /\ call'[s].op = call[s].op /\ call'[s].id = call[s].id
         /\ call'[s].g = call[s].g /\ call'[s].prev = call[s].prev
         /\ call'[s].intent = call[s].intent /\ call'[s].kid = call[s].kid
         /\ call'[s].failed = call[s].failed
<1>. DEFINE k == [call[s] EXCEPT !.pc = p]
<1>1. call[s] \in Calls /\ call \in [Slots -> Calls]
  BY DEF Typed, TypeOK
<1>2. /\ k.pc = p /\ k.op = call[s].op /\ k.id = call[s].id /\ k.g = call[s].g
      /\ k.prev = call[s].prev /\ k.intent = call[s].intent /\ k.kid = call[s].kid
      /\ k.failed = call[s].failed
  BY <1>1 DEF Calls
<1>3. call' = [call EXCEPT ![s] = k]
  BY DEF Goto
<1>. HIDE DEF k
<1>. QED  BY <1>1, <1>2, <1>3

LEMMA FailedMoves ==
  ASSUME Typed, NEW s \in Slots, NEW p \in PCs,
         GotoFailed(s, p)
  PROVE  /\ call'[s].pc = p /\ call'[s].op = call[s].op /\ call'[s].id = call[s].id
         /\ call'[s].g = call[s].g /\ call'[s].prev = call[s].prev
         /\ call'[s].intent = call[s].intent /\ call'[s].kid = call[s].kid
         /\ call'[s].failed
<1>. DEFINE k == [call[s] EXCEPT !.pc = p, !.failed = TRUE]
<1>1. call[s] \in Calls /\ call \in [Slots -> Calls]
  BY DEF Typed, TypeOK
<1>2. /\ k.pc = p /\ k.op = call[s].op /\ k.id = call[s].id /\ k.g = call[s].g
      /\ k.prev = call[s].prev /\ k.intent = call[s].intent /\ k.kid = call[s].kid
      /\ k.failed
  BY <1>1 DEF Calls
<1>3. call' = [call EXCEPT ![s] = k]
  BY DEF GotoFailed
<1>. HIDE DEF k
<1>. QED  BY <1>1, <1>2, <1>3

LEMMA CleanupMoves ==
  ASSUME Typed, NEW s \in Slots, NEW intent \in {"stop", "completed", "split_request"},
         \/ ToCleanup(s, intent)
         \/ \E prev : call' = [call EXCEPT ![s].pc = "probe", ![s].intent = intent,
                                           ![s].prev = prev]
  PROVE  /\ call'[s].pc = "probe" /\ call'[s].op = call[s].op /\ call'[s].id = call[s].id
         /\ call'[s].g = call[s].g /\ call'[s].intent = intent /\ call'[s].kid = call[s].kid
         /\ call'[s].failed = call[s].failed
<1>1. call[s] \in Calls /\ call \in [Slots -> Calls]
  BY DEF Typed, TypeOK
<1>2. PICK k : /\ call' = [call EXCEPT ![s] = k] /\ k.pc = "probe"
               /\ k.op = call[s].op /\ k.id = call[s].id /\ k.g = call[s].g
               /\ k.intent = intent /\ k.kid = call[s].kid /\ k.failed = call[s].failed
  <2>1. CASE ToCleanup(s, intent)
    <3>. DEFINE k == [call[s] EXCEPT !.pc = "probe", !.intent = intent,
                                     !.reason = ledger'[call[s].id].reason,
                                     !.prev = Snapshot(ledger[call[s].id])]
    <3>1. /\ k.pc = "probe" /\ k.op = call[s].op /\ k.id = call[s].id /\ k.g = call[s].g
          /\ k.intent = intent /\ k.kid = call[s].kid /\ k.failed = call[s].failed
      BY <1>1 DEF Calls
    <3>2. call' = [call EXCEPT ![s] = k]
      BY <2>1 DEF ToCleanup
    <3>. QED  BY <3>1, <3>2
  <2>2. ASSUME NEW prev,
               call' = [call EXCEPT ![s].pc = "probe", ![s].intent = intent, ![s].prev = prev]
        PROVE  \E k : /\ call' = [call EXCEPT ![s] = k] /\ k.pc = "probe"
                      /\ k.op = call[s].op /\ k.id = call[s].id /\ k.g = call[s].g
                      /\ k.intent = intent /\ k.kid = call[s].kid /\ k.failed = call[s].failed
    <3>. DEFINE k == [call[s] EXCEPT !.pc = "probe", !.intent = intent, !.prev = prev]
    <3>1. /\ k.pc = "probe" /\ k.op = call[s].op /\ k.id = call[s].id /\ k.g = call[s].g
          /\ k.intent = intent /\ k.kid = call[s].kid /\ k.failed = call[s].failed
      BY <1>1 DEF Calls
    <3>2. call' = [call EXCEPT ![s] = k]
      BY <2>2
    <3>. QED  BY <3>1, <3>2
  <2>. QED  BY <2>1, <2>2
<1>. QED  BY <1>1, <1>2

\* tmux finds a window by name only if there is no other: then none is left.
LEMMA KillClears ==
  ASSUME Typed, NEW id \in Ids, KillWindow(id)
  PROVE  windows' = [windows EXCEPT ![id] = {}]
<1>1. PICK g \in windows[id] : windows' = [windows EXCEPT ![id] = @ \ {g}]
  BY DEF KillWindow, Close
<1>2. IsFiniteSet(windows[id])
  <2>1. windows[id] \subseteq 1..MaxLives /\ IsFiniteSet(1..MaxLives)
    BY MaxLivesAssumption, FS_Interval DEF Typed, TypeOK, Lives
  <2>. QED  BY <2>1, FS_Subset
<1>3. \E x : windows[id] = {x}
  BY <1>2, FS_Singleton DEF KillWindow, Addressable
<1>4. windows[id] \ {g} = {}
  BY <1>3
<1>. QED  BY <1>1, <1>4

\* The set of windows of one task at most is touched, and only where a spawn, a cleanup or
\* an archiving call is about that; the same holds of worktrees.
World(s) ==
  LET c == call[s] IN
  /\ fails' \in {fails, fails + 1} /\ crashes' = crashes /\ lives' = lives
  /\ \A id \in Ids :
       \/ windows'[id] = windows[id]
       \/ id = c.id /\ At(s, "spawn", "window") /\ windows'[id] = windows[id] \cup {c.g}
       \/ /\ id = c.id /\ windows'[id] = {}
          /\ At(s, "spawn", "undo_kill") \/ c.pc = "kill" \/ At(s, "archive", "sweep")
  /\ \A id \in Ids :
       \/ worktree'[id] = worktree[id]
       \/ /\ id = c.id /\ worktree[id] = 0 /\ worktree'[id] = c.g
          /\ At(s, "spawn", "worktree")
          /\ (call'[s].op = "spawn" /\ call'[s].pc = "window") \/ "left" \in harm'[id]
       \/ /\ id = c.id /\ worktree'[id] = 0
          /\ At(s, "spawn", "undo_worktree") \/ c.pc = "remove" \/ At(s, "archive", "sweep")
  /\ \/ briefed' = briefed
     \/ /\ At(s, "spawn", "prompt") /\ windows[c.id] # {} /\ call'[s] = Idle
        /\ briefed' = briefed \cup windows[c.id]
  /\ At(s, "spawn", "undo_worktree") => worktree'[c.id] = 0 \/ "left" \in harm'[c.id]
  /\ \A id \in Ids : harm[id] \subseteq harm'[id]
  /\ \A id \in Ids : life'[id] = life[id] \/ At(s, "spawn", "ledger")
  /\ \A id \in Ids : \/ archive'[id] = archive[id]
                     \/ At(s, "archive", "file") /\ archive'[id] # Absent

LEMMA SpawnWorld ==
  ASSUME Typed, NEW s \in Slots, Spawn(s)
  PROVE  World(s)
<1>. DEFINE c == call[s]
<1>1. /\ c.id \in Ids /\ windows \in [Ids -> SUBSET Lives] /\ worktree \in [Ids -> 0..MaxLives]
      /\ life \in [Ids -> 0..MaxLives] /\ harm \in [Ids -> SUBSET Harms]
  BY DEF Typed, TypeOK, Calls
<1>H. ASSUME NEW h, Harm(c.id, h)
      PROVE  h \in harm'[c.id] /\ \A id \in Ids : harm[id] \subseteq harm'[id]
  BY <1>1, <1>H DEF Harm
<1>. HIDE DEF c
<1>2. CASE SpawnWorktree(s)
  <2>0. At(s, "spawn", "worktree") /\ ~At(s, "spawn", "undo_worktree")
    BY <1>2 DEF SpawnWorktree, At
  <2>1. CASE Goto(s, "window") /\ UNCHANGED <<harm, fails>>
    <3>1. call'[s].op = "spawn" /\ call'[s].pc = "window"
      BY <1>1, <2>0, <2>1, GotoKeeps DEF At, PCs
    <3>2. \A id \in Ids : \/ worktree'[id] = worktree[id]
                          \/ id = c.id /\ worktree[id] = 0 /\ worktree'[id] = c.g
      BY <1>1, <1>2 DEF SpawnWorktree, PathTaken, c
    <3>. QED
      BY <1>2, <2>0, <2>1, <3>1, <3>2 DEF SpawnWorktree, World, disk, agents, history, c
  <2>2. CASE UNCHANGED <<worktree, harm>>
    BY <1>2, <2>0, <2>2 DEF SpawnWorktree, World, disk, agents, history, Fail
  <2>3. CASE Harm(c.id, "left") /\ Fail
    <3>1. \A id \in Ids : \/ worktree'[id] = worktree[id]
                          \/ id = c.id /\ worktree[id] = 0 /\ worktree'[id] = c.g
      BY <1>1, <1>2 DEF SpawnWorktree, PathTaken, c
    <3>. QED
      BY <1>H, <1>2, <2>0, <2>3, <3>1 DEF SpawnWorktree, World, disk, agents, history, Fail, c
  <2>. QED  BY <1>2, <2>1, <2>2, <2>3 DEF SpawnWorktree, c
<1>3. CASE SpawnWindow(s)
  <2>1. \A id \in Ids : harm[id] \subseteq harm'[id]
    BY <1>H, <1>3 DEF SpawnWindow, c
  <2>. QED  BY <1>1, <1>3, <2>1 DEF SpawnWindow, World, disk, agents, history, At, c, Fail
<1>4. CASE SpawnLedger(s)
  BY <1>4 DEF SpawnLedger, World, world, agents, At
<1>5. CASE SpawnRegister(s) \/ SpawnLaunch(s) \/ UndoLedger(s)
  BY <1>5
     DEF SpawnRegister, SpawnLaunch, UndoLedger, World, disk, world, agents, history, At, Fail
<1>6. CASE SpawnPrompt(s)
  <2>1. CASE UNCHANGED briefed
    BY <1>6, <2>1 DEF SpawnPrompt, World, disk, world, history, At, Fail
  <2>2. CASE Addressable(c.id) /\ briefed' = briefed \cup windows[c.id] /\ Done(s)
             /\ UNCHANGED fails
    <3>1. windows[c.id] # {}
      BY <2>2, FS_EmptySet DEF Addressable
    <3>. QED
      BY <1>6, <2>2, <3>1, DoneMoves DEF SpawnPrompt, World, disk, world, history, At, c
  <2>. QED  BY <1>6, <2>1, <2>2 DEF SpawnPrompt, c
<1>7. CASE UndoKill(s)
  <2>1. windows' = windows \/ windows' = [windows EXCEPT ![c.id] = {}]
    BY <1>1, <1>7, KillClears DEF UndoKill, c
  <2>2. \A id \in Ids : harm[id] \subseteq harm'[id]
    BY <1>H, <1>7 DEF UndoKill, c
  <2>. QED  BY <1>1, <1>7, <2>1, <2>2 DEF UndoKill, World, disk, agents, history, At, c, Fail
<1>8. CASE UndoWorktree(s)
  <2>1. CASE Fail /\ Harm(c.id, "left") /\ UNCHANGED <<worktree, branches>>
    BY <1>H, <1>8, <2>1 DEF UndoWorktree, World, disk, agents, history, c, Fail
  <2>2. CASE worktree' = [worktree EXCEPT ![c.id] = 0] /\ UNCHANGED <<harm, fails>>
    BY <1>1, <1>8, <2>2 DEF UndoWorktree, World, disk, agents, history, c
  <2>. QED  BY <1>8, <2>1, <2>2 DEF UndoWorktree, c
<1>. QED  BY <1>2, <1>3, <1>4, <1>5, <1>6, <1>7, <1>8 DEF Spawn

LEMMA StepWorld ==
  ASSUME Typed, NEW s \in Slots, Step(s)
  PROVE  World(s)
<1>. DEFINE c == call[s]
<1>1. /\ c.id \in Ids /\ windows \in [Ids -> SUBSET Lives] /\ worktree \in [Ids -> 0..MaxLives]
      /\ archive \in [Ids -> Entries] /\ harm \in [Ids -> SUBSET Harms]
  BY DEF Typed, TypeOK, Calls
<1>. HIDE DEF c
<1>2. CASE CleanupKill(s)
  <2>1. windows' = windows \/ windows' = [windows EXCEPT ![c.id] = {}]
    BY <1>1, <1>2, KillClears DEF CleanupKill, c
  <2>. QED  BY <1>1, <1>2, <2>1 DEF CleanupKill, World, disk, agents, history, At, c, Fail
<1>3. CASE CleanupRemove(s)
  BY <1>1, <1>3 DEF CleanupRemove, RemoveWorktree, World, disk, agents, history, At, c, Fail
<1>4. CASE CleanupBranch(s) \/ CleanupProbe(s)
  BY <1>4 DEF CleanupBranch, CleanupProbe, World, disk, world, agents, history, At, Fail
<1>5. CASE MarkCleanupPending(s) \/ FinishPendingCleanup(s) \/ StopMark(s) \/ NotifyCompleted(s)
           \/ NotifyBlocked(s) \/ ChooseIds(s) \/ NotifySplit(s)
  BY <1>5 DEF MarkCleanupPending, FinishPendingCleanup, StopMark, NotifyCompleted, NotifyBlocked,
     ChooseIds, NotifySplit, World, disk, world, agents, history, At, Fail
<1>6. CASE SplitRetry(s) \/ SplitAdd(s) \/ SplitParent(s) \/ SplitUndo(s)
  BY <1>6
     DEF SplitRetry, SplitAdd, SplitParent, SplitUndo, World, disk, world, agents, history, At
<1>9. CASE NotifySplitAdd(s)
  <2>1. \A id \in Ids : harm[id] \subseteq harm'[id]
    BY <1>1, <1>9 DEF NotifySplitAdd, Harm
  <2>. QED  BY <1>9, <2>1 DEF NotifySplitAdd, World, disk, world, agents, history, At
<1>7. CASE ArchiveFile(s)
  <2>1. CASE UNCHANGED archive
    BY <1>7, <2>1 DEF ArchiveFile, World, world, agents, history, At
  <2>2. CASE ledger[c.id].status = "completed" /\ WriteArchive(c.id)
    <3>1. ledger[c.id] # Absent
      BY <2>2 DEF Absent
    <3>2. \A id \in Ids : archive'[id] = archive[id] \/ archive'[id] # Absent
      BY <1>1, <2>2, <3>1 DEF WriteArchive
    <3>. QED  BY <1>7, <3>2 DEF ArchiveFile, World, world, agents, history, At
  <2>. QED  BY <1>7, <2>1, <2>2 DEF ArchiveFile, disk, c
<1>8. CASE ArchiveSweep(s)
  <2>1. windows' = windows \/ windows' = [windows EXCEPT ![c.id] = {}]
    BY <1>1, <1>8, KillClears DEF ArchiveSweep, c
  <2>. QED  BY <1>1, <1>8, <2>1 DEF ArchiveSweep, World, disk, agents, history, At, c
<1>. QED
  BY <1>2, <1>3, <1>4, <1>5, <1>6, <1>7, <1>8, <1>9, SpawnWorld
     DEF Step, Notify, Split, Archive, Cleanup

\* Where a spawn goes from where, and what it has done by then.
SpawnFlow(s) ==
  LET c == call[s]  p == call[s].pc  q == call'[s].pc IN
  \/ p = "worktree" /\ q = "window" /\ worktree[c.id] = 0 /\ worktree'[c.id] = c.g
  \/ /\ p = "window" /\ q = "undo_worktree"
     /\ windows'[c.id] = windows[c.id] \/ "adrift" \in harm'[c.id]
  \/ p = "window" /\ q = "ledger"
  \/ /\ p = "ledger" /\ q = "register" /\ life'[c.id] = c.g
     /\ ledger'[c.id].status = "in_progress"
  \/ p = "ledger" /\ q = "undo_kill" /\ ledger[c.id].status # "unstarted"
  \/ p = "register" /\ q \in {"launch", "undo_kill"}
  \/ p = "launch" /\ q \in {"prompt", "undo_kill"}
  \/ p = "prompt" /\ q = "undo_kill"
  \/ /\ p = "undo_kill" /\ q = "undo_worktree"
     /\ \/ "adrift" \in harm'[c.id] \/ windows'[c.id] = {}
        \/ ~Addressable(c.id) /\ windows'[c.id] = windows[c.id]
  \/ /\ p = "undo_worktree" /\ q = "undo_ledger"
     /\ worktree'[c.id] = 0 \/ "left" \in harm'[c.id]

SpawnEnds == {"worktree", "prompt", "undo_worktree", "undo_ledger"}

\* A cleanup is entered with the mark that its intent stands for.
EntersCleanup(s) ==
  LET c == call[s]
      d == call'[s]
      e == ledger[c.id]
      new == ledger'[c.id]
  IN
  /\ ~Cleaning(s) /\ d.pc = "probe" /\ d.failed = c.failed
  /\ \/ /\ c.op = "stop" /\ d.intent = StopIntent(e) /\ e.status # "split"
        /\ new.marker = e.marker /\ new.status = "blocked"
     \/ c.op = "completed" /\ d.intent = "completed" /\ new.marker = "completed"
     \/ c.op = "split_request" /\ d.intent = "split_request" /\ Splitting(e) /\ new = e
     \/ c.op = "split" /\ d.intent = "split_request" /\ new.status = "blocked"

CleanupFlow(s) ==
  LET c == call[s]  p == call[s].pc  d == call'[s]  q == call'[s].pc IN
  /\ Cleaning(s) /\ d.intent = c.intent
  /\ c.failed => d.failed
  /\ \/ p = "probe" /\ q = "kill"
     \/ p \in {"probe", "kill"} /\ q = "remove" /\ (d.failed \/ windows'[c.id] = {})
     \/ p = "remove" /\ q = "branch" /\ (d.failed \/ worktree'[c.id] = 0)
     \/ p = "branch" /\ q = "pending"
     \/ p = "branch" /\ q = "finish" /\ ~d.failed /\ ~c.failed

\* A handler returns, or goes on like this.
Flow(s) ==
  LET c == call[s]  d == call'[s] IN
  \/ d = Idle /\ (c.op = "spawn" => c.pc \in SpawnEnds)
  \/ c.op = "spawn" /\ SpawnFlow(s)
  \/ c.op # "spawn" /\ CleanupFlow(s)
  \/ c.op # "spawn" /\ EntersCleanup(s)
  \/ /\ c.op # "spawn" /\ c.pc = "ids" /\ d.failed = c.failed /\ UNCHANGED ledger
     /\ d.pc \in {"add", "update"} /\ ~At(s, "split_request", "add")'
     /\ c.op = "split" => ~IsArchived(d.kid)
  \/ /\ c.op = "split_request" /\ d.pc = "add" /\ d.failed = c.failed
     /\ d.prev = ledger[c.id] /\ ledger[c.id].owned
  \/ /\ c.op = "split" /\ d.failed = c.failed /\ d.kid = c.kid
     /\ \/ c.pc = "add" /\ d.pc = "parent" /\ ledger[c.kid].status = "absent"
        \/ c.pc = "parent" /\ d.pc = "undo"
  \/ /\ c.op = "archive" /\ d.pc = "sweep" /\ d.failed = c.failed
     /\ ledger'[c.id].status = "absent" /\ archive'[c.id] # Absent

LEMMA SpawnFlows ==
  ASSUME Typed, NEW s \in Slots, Spawn(s)
  PROVE  (call'[s] = Idle /\ call[s].pc \in SpawnEnds) \/ SpawnFlow(s)
<1>. DEFINE c == call[s]
<1>1. /\ c.id \in Ids /\ windows \in [Ids -> SUBSET Lives] /\ worktree \in [Ids -> 0..MaxLives]
      /\ life \in [Ids -> 0..MaxLives] /\ ledger \in [Ids -> Entries]
      /\ harm \in [Ids -> SUBSET Harms]
  BY DEF Typed, TypeOK, Calls
<1>H. \A h : Harm(c.id, h) => h \in harm'[c.id]
  BY <1>1 DEF Harm
<1>2. Done(s) => call'[s] = Idle
  BY DoneMoves
<1>3. \A p \in SpawnPCs : Goto(s, p) => call'[s].pc = p
  BY GotoKeeps DEF SpawnPCs, PCs
<1>4. SpawnFailed(s) => call'[s].pc = "undo_kill"
  BY FailedMoves DEF SpawnFailed, PCs
<1>. HIDE DEF c
<1>5. CASE SpawnWorktree(s)
  BY <1>1, <1>2, <1>3, <1>5 DEF SpawnWorktree, PathTaken, SpawnFlow, SpawnPCs, SpawnEnds, At, c
<1>6. CASE SpawnWindow(s)
  BY <1>1, <1>3, <1>6, <1>H DEF SpawnWindow, SpawnFlow, SpawnPCs, At, c
<1>7. CASE SpawnLedger(s)
  <2>1. CASE ledger[c.id].status = "unstarted"
    <3>. DEFINE new == [ledger[c.id] EXCEPT !.status = "in_progress", !.owned = TRUE,
                                            !.branch = c.g]
    <3>1. new.status = "in_progress"
      BY <1>1 DEF Entries
    <3>2. ledger' = [ledger EXCEPT ![c.id] = new] /\ Goto(s, "register")
          /\ life' = [life EXCEPT ![c.id] = c.g] /\ c.pc = "ledger"
      BY <1>7, <2>1 DEF SpawnLedger, Set, At, c
    <3>. HIDE DEF new
    <3>3. ledger'[c.id].status = "in_progress" /\ life'[c.id] = c.g
      BY <1>1, <3>1, <3>2
    <3>. QED  BY <1>3, <3>2, <3>3 DEF SpawnFlow, SpawnPCs, c
  <2>2. CASE ledger[c.id].status # "unstarted"
    BY <1>3, <1>7, <2>2 DEF SpawnLedger, SpawnFlow, SpawnPCs, At, c
  <2>. QED  BY <2>1, <2>2
<1>8. CASE SpawnRegister(s) \/ SpawnLaunch(s) \/ SpawnPrompt(s)
  BY <1>2, <1>3, <1>4, <1>8
     DEF SpawnRegister, SpawnLaunch, SpawnPrompt, SpawnFlow, SpawnPCs, SpawnEnds, At
<1>9. CASE UndoKill(s)
  <2>1. \/ "adrift" \in harm'[c.id] \/ windows'[c.id] = {}
        \/ ~Addressable(c.id) /\ windows'[c.id] = windows[c.id]
    BY <1>1, <1>9, <1>H, KillClears DEF UndoKill, c
  <2>. QED  BY <1>3, <1>9, <2>1 DEF UndoKill, SpawnFlow, SpawnPCs, At, c
<1>10. CASE UndoWorktree(s)
  <2>1. worktree'[c.id] = 0 \/ "left" \in harm'[c.id]
    BY <1>1, <1>10, <1>H DEF UndoWorktree, c
  <2>. QED  BY <1>2, <1>3, <1>10, <2>1 DEF UndoWorktree, SpawnFlow, SpawnPCs, SpawnEnds, At, c
<1>11. CASE UndoLedger(s)
  BY <1>2, <1>11 DEF UndoLedger, SpawnEnds, At
<1>. QED  BY <1>5, <1>6, <1>7, <1>8, <1>9, <1>10, <1>11 DEF Spawn

LEMMA CleanupFlows ==
  ASSUME Typed, NEW s \in Slots, Cleanup(s)
  PROVE  call'[s] = Idle \/ CleanupFlow(s)
<1>. DEFINE c == call[s]
<1>1. /\ c.id \in Ids /\ windows \in [Ids -> SUBSET Lives] /\ worktree \in [Ids -> 0..MaxLives]
      /\ c.failed \in BOOLEAN
  BY DEF Typed, TypeOK, Calls
<1>2. Done(s) => call'[s] = Idle
  BY DoneMoves
<1>3. \A p \in {"kill", "remove", "branch", "pending", "finish"} : Goto(s, p) =>
        call'[s].pc = p /\ call'[s].intent = c.intent /\ call'[s].failed = c.failed
  BY GotoKeeps DEF PCs
<1>4. \A p \in {"remove", "branch"} : GotoFailed(s, p) =>
        call'[s].pc = p /\ call'[s].intent = c.intent /\ call'[s].failed
  BY FailedMoves DEF PCs
<1>. HIDE DEF c
<1>5. CASE CleanupKill(s)
  <2>1. CASE GotoFailed(s, "remove")
    BY <1>4, <1>5, <2>1 DEF CleanupKill, CleanupFlow, Cleaning, c
  <2>2. CASE Goto(s, "remove") /\ windows'[c.id] = {}
    BY <1>3, <1>5, <2>2 DEF CleanupKill, CleanupFlow, Cleaning, c
  <2>3. KillWindow(c.id) => windows'[c.id] = {}
    BY <1>1, KillClears
  <2>. QED  BY <1>1, <1>5, <2>1, <2>2, <2>3 DEF CleanupKill, c
<1>6. CASE CleanupRemove(s)
  BY <1>1, <1>3, <1>4, <1>6 DEF CleanupRemove, RemoveWorktree, CleanupFlow, Cleaning, c
<1>7. CASE CleanupBranch(s)
  <2>1. c.pc = "branch" /\ (Goto(s, "pending") \/ (~c.failed /\ Goto(s, "finish")))
    BY <1>7 DEF CleanupBranch, AfterCleanup, c
  <2>. QED  BY <1>3, <2>1 DEF CleanupFlow, Cleaning, c
<1>8. CASE MarkCleanupPending(s) \/ FinishPendingCleanup(s)
  BY <1>2, <1>8 DEF MarkCleanupPending, FinishPendingCleanup
<1>9. CASE CleanupProbe(s)
  <2>1. CASE GotoFailed(s, "remove")
    BY <1>4, <1>9, <2>1 DEF CleanupProbe, CleanupFlow, Cleaning, c
  <2>2. CASE windows[c.id] = {} /\ Goto(s, "remove")
    BY <1>3, <1>9, <2>2 DEF CleanupProbe, CleanupFlow, Cleaning, world, c
  <2>3. CASE Goto(s, "kill")
    BY <1>3, <1>9, <2>3 DEF CleanupProbe, CleanupFlow, Cleaning, c
  <2>. QED  BY <1>9, <2>1, <2>2, <2>3 DEF CleanupProbe, c
<1>. QED  BY <1>5, <1>6, <1>7, <1>8, <1>9 DEF Cleanup

LEMMA StepFlow ==
  ASSUME IInv, PathInv, NEW s \in Slots, Step(s)
  PROVE  Flow(s)
<1>. DEFINE c == call[s]
            e == ledger[c.id]
<1>0. Typed /\ AddInv
  BY DEF IInv
<1>1. /\ c.id \in Ids /\ fails \in Nat /\ ledger \in [Ids -> Entries] /\ e \in Entries
      /\ archive \in [Ids -> Entries] /\ call \in [Slots -> Calls] /\ c \in Calls
  BY <1>0 DEF Typed, TypeOK, Calls
<1>2. Done(s) /\ c.op # "spawn" => Flow(s)
  BY <1>0, DoneMoves DEF Flow
<1>3. \A intent \in {"stop", "completed", "split_request"} :
        ToCleanup(s, intent) => call'[s].pc = "probe" /\ call'[s].intent = intent
                                /\ call'[s].failed = c.failed
  BY <1>0, CleanupMoves
<1>P. /\ c.op = "spawn" => c.pc \in SpawnPCs
      /\ c.pc = "retry" => c.op \in {"split", "split_request"}
  BY DEF PathInv, Path
<1>. HIDE DEF c, e
<1>4. CASE c.op = "spawn"
  <2>1. Spawn(s)
    BY <1>P, <1>4 DEF SpawnPCs, Step, StopMark, Notify, NotifyCompleted, NotifyBlocked, ChooseIds,
       NotifySplit, NotifySplitAdd, Split, SplitAdd, SplitParent, SplitUndo, Archive, ArchiveFile,
       ArchiveSweep, SplitRetry, Cleanup, CleanupProbe, CleanupKill, CleanupRemove,
       CleanupBranch, MarkCleanupPending, FinishPendingCleanup, At, c
  <2>. QED  BY <1>0, <1>4, <2>1, SpawnFlows DEF Flow, c
<1>5. ASSUME Cleanup(s), c.op # "spawn" PROVE Flow(s)
  BY <1>0, <1>5, CleanupFlows DEF Flow, c
<1>6. ASSUME c.op # "spawn", EntersCleanup(s) PROVE Flow(s)
  BY <1>6 DEF Flow, c
<1>7. ASSUME StopMark(s), c.op # "spawn" PROVE Flow(s)
  <2>1. StopIntent(e) \in {"stop", "completed", "split_request"}
    BY <1>1 DEF StopIntent, Entries, Markers
  <2>. DEFINE new == [e EXCEPT !.status = "blocked", !.owned = TRUE]
  <2>2. new.status = "blocked" /\ new.marker = e.marker
    BY <1>1 DEF Entries
  <2>3. CASE e.status \in {"in_progress", "blocked", "unstarted"}
    <3>1. /\ ledger' = [ledger EXCEPT ![c.id] = new] /\ ToCleanup(s, StopIntent(e))
          /\ c.op = "stop" /\ c.pc = "mark"
      BY <1>7, <2>3 DEF StopMark, Set, At, c, e
    <3>. HIDE DEF new
    <3>2. ledger'[c.id] = new
      BY <1>1, <3>1
    <3>3. EntersCleanup(s)
      BY <1>3, <2>1, <2>2, <2>3, <3>1, <3>2 DEF EntersCleanup, Cleaning, c, e
    <3>. QED  BY <1>6, <3>1, <3>3
  <2>. QED  BY <1>2, <1>7, <2>3 DEF StopMark, Flow, e, c
<1>8. ASSUME NotifyCompleted(s), c.op # "spawn" PROVE Flow(s)
  <2>. DEFINE new == [e EXCEPT !.status = "blocked", !.marker = "completed"]
  <2>1. new.marker = "completed"
    BY <1>1 DEF Entries
  <2>2. CASE Set(c.id, new) /\ ToCleanup(s, "completed")
    <3>1. ledger' = [ledger EXCEPT ![c.id] = new] /\ c.op = "completed" /\ c.pc = "update"
      BY <1>8, <2>2 DEF NotifyCompleted, Set, At, c
    <3>. HIDE DEF new
    <3>2. ledger'[c.id] = new
      BY <1>1, <3>1
    <3>3. EntersCleanup(s)
      BY <1>3, <2>1, <2>2, <3>1, <3>2 DEF EntersCleanup, Cleaning, c
    <3>. QED  BY <1>6, <3>1, <3>3
  <2>. QED  BY <1>2, <1>8, <2>2 DEF NotifyCompleted, Flow, c, e, new
<1>9. ASSUME NotifySplit(s), c.op # "spawn" PROVE Flow(s)
  <2>1. ASSUME NEW r, call' = [call EXCEPT ![s].pc = "add", ![s].reason = r, ![s].prev = e],
               StillAssigned(e, {"none"})
        PROVE  Flow(s)
    <3>. DEFINE k == [c EXCEPT !.pc = "add", !.reason = r, !.prev = e]
    <3>1. k.pc = "add" /\ k.prev = e /\ k.failed = c.failed
      BY <1>1 DEF Calls
    <3>2. call' = [call EXCEPT ![s] = k]
      BY <2>1 DEF c
    <3>. HIDE DEF k
    <3>3. call'[s] = k
      BY <1>1, <3>2
    <3>. QED  BY <1>9, <2>1, <3>1, <3>3 DEF NotifySplit, StillAssigned, At, Flow, c, e
  <2>. QED  BY <1>2, <1>9, <2>1 DEF NotifySplit, Flow, c, e
<1>10. ASSUME NotifySplitAdd(s), c.op # "spawn" PROVE Flow(s)
  <2>1. CASE /\ call' = [call EXCEPT ![s].pc = "probe", ![s].intent = "split_request",
                                     ![s].prev = Snapshot(c.prev)]
             /\ ledger[c.kid].status = "absent" /\ Set(c.kid, Unstarted)
    <3>1. c.op = "split_request" /\ c.pc = "add" /\ Splitting(e)
      BY <1>0, <1>10 DEF NotifySplitAdd, At, AddInv, c, e
    <3>2. c.kid # c.id
      BY <2>1, <3>1 DEF Splitting, e
    <3>3. ledger'[c.id] = e
      BY <1>1, <2>1, <3>2 DEF Set, e
    <3>4. /\ call'[s].pc = "probe" /\ call'[s].intent = "split_request"
          /\ call'[s].failed = c.failed
      BY <1>0, <2>1, CleanupMoves DEF c
    <3>5. EntersCleanup(s)
      BY <3>1, <3>3, <3>4 DEF EntersCleanup, Cleaning, c, e
    <3>. QED  BY <1>6, <3>1, <3>5
  <2>. QED  BY <1>2, <1>10, <2>1 DEF NotifySplitAdd, Flow, c, e
<1>11. ASSUME SplitRetry(s), c.op # "spawn" PROVE Flow(s)
  <2>1. CASE e.status = "blocked" /\ e.marker = "split_request" /\ ToCleanup(s, "split_request")
    <3>1. c.pc = "retry" /\ c.op \in {"split", "split_request"} /\ ledger'[c.id] = e
      BY <1>P, <1>11 DEF SplitRetry, disk, c, e
    <3>2. EntersCleanup(s)
      BY <1>3, <2>1, <3>1 DEF EntersCleanup, Cleaning, Splitting, c, e
    <3>. QED  BY <1>6, <3>1, <3>2
  <2>. QED  BY <1>2, <1>11, <2>1 DEF SplitRetry, Flow, c, e
<1>12. ASSUME ChooseIds(s), c.op # "spawn" PROVE Flow(s)
  <2>1. CASE Done(s)
    BY <1>2, <1>12, <2>1
  <2>2. CASE ~Done(s)
    <3>1. PICK kid \in Ids :
            /\ FirstFree(kid)
            /\ call' = [call EXCEPT ![s].pc = IF c.op = "split" THEN "add" ELSE "update",
                                    ![s].kid = kid]
      BY <1>12, <2>2 DEF ChooseIds, c
    <3>. DEFINE k == [c EXCEPT !.pc = IF c.op = "split" THEN "add" ELSE "update", !.kid = kid]
    <3>2. /\ k.pc = IF c.op = "split" THEN "add" ELSE "update"
          /\ k.kid = kid /\ k.failed = c.failed /\ k.op = c.op
      BY <1>1 DEF Calls
    <3>3. call' = [call EXCEPT ![s] = k]
      BY <3>1 DEF c
    <3>. HIDE DEF k
    <3>4. call'[s] = k
      BY <1>1, <3>3
    <3>5. c.pc = "ids" /\ UNCHANGED ledger /\ ~IsArchived(kid)
      BY <1>12, <3>1 DEF ChooseIds, FirstFree, FreeIds, disk, c
    <3>. QED  BY <1>12, <3>2, <3>4, <3>5 DEF At, Flow, c
  <2>. QED  BY <2>1, <2>2
<1>13. ASSUME SplitAdd(s), c.op # "spawn" PROVE Flow(s)
  <2>1. CASE Goto(s, "parent") /\ ledger[c.kid].status = "absent"
    <3>1. call'[s].pc = "parent" /\ call'[s].kid = c.kid /\ call'[s].failed = c.failed
      BY <1>0, <2>1, GotoKeeps DEF PCs, c
    <3>. QED  BY <1>13, <2>1, <3>1 DEF SplitAdd, At, Flow, c
  <2>. QED  BY <1>2, <1>13, <2>1 DEF SplitAdd, Flow, c
<1>14. ASSUME SplitParent(s), c.op # "spawn" PROVE Flow(s)
  <2>0. c.op = "split" /\ c.pc = "parent"
    BY <1>14 DEF SplitParent, At, c
  <2>1. ASSUME NEW r \in Reasons, ToCleanup(s, "split_request"),
               Set(c.id, [e EXCEPT !.status = "blocked", !.marker = "split_request", !.reason = r])
        PROVE  Flow(s)
    <3>. DEFINE new == [e EXCEPT !.status = "blocked", !.marker = "split_request", !.reason = r]
    <3>1. new.status = "blocked"
      BY <1>1 DEF Entries
    <3>. HIDE DEF new
    <3>2. ledger'[c.id] = new
      BY <1>1, <2>1 DEF Set, new
    <3>3. EntersCleanup(s)
      BY <1>3, <2>0, <2>1, <3>1, <3>2 DEF EntersCleanup, Cleaning, c
    <3>. QED  BY <1>6, <2>0, <3>3
  <2>2. CASE Goto(s, "undo")
    <3>1. call'[s].pc = "undo" /\ call'[s].kid = c.kid /\ call'[s].failed = c.failed
      BY <1>0, <2>2, GotoKeeps DEF PCs, c
    <3>. QED  BY <2>0, <3>1 DEF Flow, c
  <2>. QED  BY <1>2, <1>14, <2>1, <2>2 DEF SplitParent, c, e
<1>15. ASSUME ArchiveFile(s), c.op # "spawn" PROVE Flow(s)
  <2>0. c.op = "archive" /\ c.pc = "file"
    BY <1>15 DEF ArchiveFile, At, c
  <2>1. CASE Goto(s, "sweep")
    <3>1. call'[s].pc = "sweep" /\ call'[s].failed = c.failed
      BY <1>0, <2>1, GotoKeeps DEF PCs, c
    <3>2. ledger'[c.id].status = "absent" /\ archive'[c.id] # Absent
      <4>1. CASE e.status = "completed" /\ WriteArchive(c.id) /\ Set(c.id, Absent)
        BY <1>1, <4>1 DEF WriteArchive, Set, Absent, e
      <4>2. CASE e.status = "absent" /\ IsArchived(c.id) /\ UNCHANGED disk
        BY <4>2 DEF IsArchived, disk, e
      <4>3. ~Done(s)
        BY <1>0, <3>1, DoneMoves DEF Idle
      <4>. QED  BY <1>15, <4>1, <4>2, <4>3 DEF ArchiveFile, c, e
    <3>. QED  BY <2>0, <3>1, <3>2 DEF Flow, c
  <2>. QED  BY <1>2, <1>15, <2>1 DEF ArchiveFile, Flow, c, e
<1>16. ASSUME NotifyBlocked(s) \/ SplitUndo(s) \/ ArchiveSweep(s), c.op # "spawn" PROVE Flow(s)
  BY <1>2, <1>16 DEF NotifyBlocked, SplitUndo, ArchiveSweep, Flow
<1>17. ASSUME Spawn(s) PROVE c.op = "spawn"
  BY <1>17 DEF Spawn, SpawnWorktree, SpawnWindow, SpawnLedger, SpawnRegister, SpawnLaunch,
     SpawnPrompt, UndoKill, UndoWorktree, UndoLedger, At, c
<1>. QED
  BY <1>4, <1>5, <1>7, <1>8, <1>9, <1>10, <1>11, <1>12, <1>13, <1>14, <1>15, <1>16, <1>17
     DEF Step, Notify, Split, Archive

\* A split_request cleans this task up.
Crossing(id) == \E u \in Slots : call[u].op = "split_request" /\ call[u].id = id /\ Cleaning(u)

\* How a handler changes an entry.
Moves(s, id) ==
  LET c == call[s]
      e == ledger[id]
      new == ledger'[id]
  IN
  \/ new = e
  \/ /\ id = c.id
     /\ \/ /\ At(s, "spawn", "ledger") /\ e.status = "unstarted"
           /\ new.status = "in_progress" /\ new.owned
        \/ At(s, "spawn", "undo_ledger") /\ e.status = "in_progress" /\ new.status = "unstarted"
        \/ /\ c.pc = "finish" /\ e.status = "blocked"
           /\ \/ c.intent = "completed" /\ new.status = "completed"
              \/ c.intent = "split_request" /\ new.status = "split"
              \/ c.intent = "stop" /\ new.status = "unstarted"
        \/ /\ At(s, "stop", "mark") /\ e.status \in {"in_progress", "blocked", "unstarted"}
           /\ new.status = "blocked" /\ new.owned
        \/ /\ c.pc # "add" /\ e.status \in Active
           /\ new.status = "blocked" /\ (e.owned => new.owned)
        \/ /\ At(s, "split_request", "add") /\ e.status = "blocked" /\ new = c.prev
           /\ Crossing(id) => "crossed" \in harm'[id]
        \/ At(s, "split", "parent") /\ e.status = "unstarted" /\ new.status = "split"
        \/ At(s, "archive", "file") /\ e.status = "completed" /\ new.status = "absent"
  \/ /\ id = c.kid
     /\ \/ /\ \/ At(s, "split", "add")
              \/ /\ At(s, "split_request", "add")
                 /\ IsArchived(id) => "returned" \in harm'[id]
           /\ e.status = "absent" /\ new.status = "unstarted"
        \/ At(s, "split", "undo") /\ e.status = "unstarted" /\ new.status = "absent"

LEMMA SetMoves ==
  ASSUME Typed, NEW s \in Slots, NEW id, NEW new, Set(id, new),
         id \in Ids /\ ledger'[id] = new => Moves(s, id)
  PROVE  \A jd \in Ids : Moves(s, jd)
<1>. SUFFICES ASSUME NEW jd \in Ids PROVE Moves(s, jd)
  OBVIOUS
<1>1. CASE jd = id
  BY <1>1 DEF Set, Typed, TypeOK
<1>2. CASE jd # id
  <2>1. ledger'[jd] = ledger[jd]
    BY <1>2 DEF Set, Typed, TypeOK
  <2>. QED  BY <2>1 DEF Moves
<1>. QED  BY <1>1, <1>2

LEMMA StepMoves ==
  ASSUME IInv, NEW s \in Slots, Step(s)
  PROVE  \A id \in Ids : Moves(s, id)
<1>. DEFINE c == call[s]
            e == ledger[c.id]
            Moved == \A id \in Ids : Moves(s, id)
<1>0. Typed /\ MarkerInv /\ AddInv /\ KidInv /\ PrevInv
  BY DEF IInv
<1>1. /\ c.id \in Ids /\ ledger \in [Ids -> Entries] /\ e \in Entries /\ c \in Calls
      /\ harm \in [Ids -> SUBSET Harms]
  BY <1>0 DEF Typed, TypeOK, Calls
<1>2. UNCHANGED ledger => Moved
  BY DEF Moves
<1>3. ASSUME NEW id, NEW new, Set(id, new), id \in Ids /\ ledger'[id] = new => Moves(s, id)
      PROVE  Moved
  BY <1>0, <1>3, SetMoves
<1>4. Unstarted.status = "unstarted" /\ Absent.status = "absent"
  BY DEF Unstarted, Absent
<1>. HIDE DEF c, e, Moved
<1>5. ASSUME SpawnLedger(s) PROVE Moved
  <2>. DEFINE new == [e EXCEPT !.status = "in_progress", !.owned = TRUE, !.branch = c.g]
  <2>1. new.status = "in_progress" /\ new.owned
    BY <1>1 DEF Entries
  <2>2. CASE e.status = "unstarted" /\ Set(c.id, new)
    <3>. HIDE DEF new
    <3>. QED  BY <1>3, <1>5, <2>1, <2>2 DEF SpawnLedger, Moves, c, e
  <2>. QED  BY <1>2, <1>5, <2>2 DEF SpawnLedger, c, e, new
<1>6. ASSUME UndoLedger(s) PROVE Moved
  <2>. DEFINE new == [e EXCEPT !.status = "unstarted", !.owned = FALSE, !.branch = 0]
  <2>1. new.status = "unstarted"
    BY <1>1 DEF Entries
  <2>2. CASE e.status = "in_progress" /\ Set(c.id, new)
    <3>. HIDE DEF new
    <3>. QED  BY <1>3, <1>6, <2>1, <2>2 DEF UndoLedger, Moves, c, e
  <2>. QED  BY <1>2, <1>6, <2>2 DEF UndoLedger, c, e, new
<1>7. ASSUME MarkCleanupPending(s) PROVE Moved
  <2>. DEFINE new == [e EXCEPT !.owned = TRUE, !.branch = c.prev.branch]
  <2>1. new.status = e.status /\ new.owned
    BY <1>1 DEF Entries
  <2>2. CASE e.status = "blocked" /\ Set(c.id, new)
    <3>. HIDE DEF new
    <3>. QED  BY <1>3, <1>7, <2>1, <2>2 DEF MarkCleanupPending, Moves, Active, c, e
  <2>. QED  BY <1>2, <1>7, <2>2 DEF MarkCleanupPending, c, e, new
<1>8. ASSUME FinishPendingCleanup(s) PROVE Moved
  <2>. DEFINE new == Finished(e, c.intent)
  <2>1. CASE MayFinish(e, c.intent, c.reason) /\ Set(c.id, new)
    <3>1. e.status = "blocked" /\ c.intent \in {"stop", "completed", "split_request"}
          /\ c.pc = "finish"
      BY <1>1, <1>8, <2>1 DEF MayFinish, Calls, FinishPendingCleanup, c
    <3>2. /\ c.intent = "completed" => new.status = "completed"
          /\ c.intent = "split_request" => new.status = "split"
          /\ c.intent = "stop" => new.status = "unstarted"
      BY <1>1, <1>4 DEF Finished, Entries, Absent
    <3>. HIDE DEF new
    <3>. QED  BY <1>3, <2>1, <3>1, <3>2 DEF Moves, c, e
  <2>. QED  BY <1>2, <1>8, <2>1 DEF FinishPendingCleanup, c, e, new
<1>9. ASSUME StopMark(s) PROVE Moved
  <2>. DEFINE new == [e EXCEPT !.status = "blocked", !.owned = TRUE]
  <2>1. new.status = "blocked" /\ new.owned
    BY <1>1 DEF Entries
  <2>2. CASE e.status \in {"in_progress", "blocked", "unstarted"} /\ Set(c.id, new)
    <3>. HIDE DEF new
    <3>. QED  BY <1>3, <1>9, <2>1, <2>2 DEF StopMark, Moves, c, e
  <2>. QED  BY <1>2, <1>9, <2>2 DEF StopMark, c, e, new
<1>10. ASSUME NEW new, Set(c.id, new), e.status \in Active, new.status = "blocked",
              new.owned = e.owned, c.pc # "add"
       PROVE  Moved
  BY <1>3, <1>10 DEF Moves, c, e
<1>11. ASSUME NotifyCompleted(s) PROVE Moved
  <2>0. c.pc # "add"
    BY <1>11 DEF NotifyCompleted, At, c
  <2>. DEFINE new == [e EXCEPT !.status = "blocked", !.marker = "completed"]
  <2>1. new.status = "blocked" /\ new.owned = e.owned
    BY <1>1 DEF Entries
  <2>2. CASE e.status \in Active /\ Set(c.id, new)
    <3>. HIDE DEF new
    <3>. QED  BY <1>10, <2>0, <2>1, <2>2
  <2>. QED  BY <1>2, <1>11, <2>2 DEF NotifyCompleted, StillAssigned, c, e, new
<1>12. ASSUME NotifyBlocked(s) PROVE Moved
  <2>0. c.pc # "add"
    BY <1>12 DEF NotifyBlocked, At, c
  <2>. DEFINE new == [e EXCEPT !.status = "blocked"]
  <2>1. new.status = "blocked" /\ new.owned = e.owned
    BY <1>1 DEF Entries
  <2>2. CASE e.status \in Active /\ Set(c.id, new)
    <3>. HIDE DEF new
    <3>. QED  BY <1>10, <2>0, <2>1, <2>2
  <2>. QED  BY <1>2, <1>12, <2>2 DEF NotifyBlocked, StillAssigned, c, e, new
<1>13. ASSUME NotifySplit(s) PROVE Moved
  <2>0. c.pc # "add"
    BY <1>13 DEF NotifySplit, At, c
  <2>2. ASSUME NEW r, e.status \in Active,
               Set(c.id, [e EXCEPT !.status = "blocked", !.marker = "split_request", !.reason = r])
        PROVE  Moved
    <3>. DEFINE new == [e EXCEPT !.status = "blocked", !.marker = "split_request", !.reason = r]
    <3>1. new.status = "blocked" /\ new.owned = e.owned
      BY <1>1 DEF Entries
    <3>. HIDE DEF new
    <3>2. Set(c.id, new)
      BY <2>2 DEF new
    <3>. QED  BY <1>10, <2>0, <2>2, <3>1, <3>2
  <2>. QED  BY <1>2, <1>13, <2>2 DEF NotifySplit, StillAssigned, c, e
<1>14. ASSUME NotifySplitAdd(s) PROVE Moved
  <2>0. At(s, "split_request", "add")
    BY <1>14 DEF NotifySplitAdd
  <2>1. CASE /\ ledger[c.kid].status = "absent" /\ Set(c.kid, Unstarted)
             /\ IsArchived(c.kid) => Harm(c.kid, "returned")
    <3>1. c.kid \in Ids /\ IsArchived(c.kid) => "returned" \in harm'[c.kid]
      BY <1>1, <2>1 DEF Harm
    <3>. QED  BY <1>3, <1>4, <2>0, <2>1, <3>1 DEF Moves, c
  <2>2. CASE /\ e.status = "blocked" /\ Set(c.id, c.prev)
             /\ Crossing(c.id) => Harm(c.id, "crossed")
    <3>1. Crossing(c.id) => "crossed" \in harm'[c.id]
      BY <1>1, <2>2 DEF Harm
    <3>. QED  BY <1>3, <2>0, <2>2, <3>1 DEF Moves, c, e
  <2>. QED  BY <1>2, <1>14, <2>1, <2>2 DEF NotifySplitAdd, Crossing, c, e
<1>15. ASSUME SplitAdd(s) PROVE Moved
  <2>1. CASE ledger[c.kid].status = "absent" /\ Set(c.kid, Unstarted)
    BY <1>3, <1>4, <1>15, <2>1 DEF SplitAdd, At, Moves, c
  <2>. QED  BY <1>2, <1>15, <2>1 DEF SplitAdd, c
<1>16. ASSUME SplitParent(s) PROVE Moved
  <2>0. c.pc # "add"
    BY <1>16 DEF SplitParent, At, c
  <2>. DEFINE done == [Absent EXCEPT !.status = "split"]
  <2>1. done.status = "split"
    BY DEF Absent
  <2>2. ASSUME NEW r, e.status \in Active,
               Set(c.id, [e EXCEPT !.status = "blocked", !.marker = "split_request", !.reason = r])
        PROVE  Moved
    <3>. DEFINE new == [e EXCEPT !.status = "blocked", !.marker = "split_request", !.reason = r]
    <3>1. new.status = "blocked" /\ new.owned = e.owned
      BY <1>1 DEF Entries
    <3>. HIDE DEF new
    <3>2. Set(c.id, new)
      BY <2>2 DEF new
    <3>. QED  BY <1>10, <2>0, <2>2, <3>1, <3>2
  <2>3. CASE e.status = "unstarted" /\ Set(c.id, done)
    <3>. HIDE DEF done
    <3>. QED  BY <1>3, <1>16, <2>1, <2>3 DEF SplitParent, Moves, c, e
  <2>4. c.prev.status \in {"unstarted", "in_progress", "blocked"}
    BY <1>0, <1>16 DEF SplitParent, At, PrevInv, c
  <2>5. \/ UNCHANGED ledger
        \/ e.status = "unstarted" /\ Set(c.id, done)
        \/ /\ e.status \in Active
           /\ \E r \in Reasons : Set(c.id, [e EXCEPT !.status = "blocked",
                                                    !.marker = "split_request", !.reason = r])
    BY <1>16, <2>4 DEF SplitParent, Active, c, e, done
  <2>. QED  BY <1>2, <2>2, <2>3, <2>5
<1>17. ASSUME SplitUndo(s) PROVE Moved
  <2>1. Set(c.kid, Absent) /\ ledger[c.kid] = Unstarted /\ At(s, "split", "undo")
    BY <1>0, <1>17 DEF SplitUndo, At, KidInv, c
  <2>. QED  BY <1>3, <1>4, <2>1 DEF Moves, c
<1>18. ASSUME ArchiveFile(s) PROVE Moved
  <2>1. CASE e.status = "completed" /\ Set(c.id, Absent)
    BY <1>3, <1>4, <1>18, <2>1 DEF ArchiveFile, At, Moves, c, e
  <2>. QED  BY <1>2, <1>18, <2>1 DEF ArchiveFile, disk, c, e
<1>19. ASSUME \/ SpawnWorktree(s) \/ SpawnWindow(s) \/ SpawnRegister(s) \/ SpawnLaunch(s)
              \/ SpawnPrompt(s) \/ UndoKill(s) \/ UndoWorktree(s)
              \/ CleanupProbe(s) \/ CleanupKill(s) \/ CleanupRemove(s) \/ CleanupBranch(s)
              \/ ChooseIds(s) \/ SplitRetry(s) \/ ArchiveSweep(s)
       PROVE  Moved
  BY <1>2, <1>19 DEF SpawnWorktree, SpawnWindow, SpawnRegister, SpawnLaunch, SpawnPrompt,
     UndoKill, UndoWorktree, CleanupProbe, CleanupKill, CleanupRemove, CleanupBranch,
     ChooseIds, SplitRetry, ArchiveSweep, disk
<1>20. Moved
  BY <1>5, <1>6, <1>7, <1>8, <1>9, <1>11, <1>12, <1>13, <1>14, <1>15, <1>16, <1>17, <1>18, <1>19
     DEF Step, Spawn, Notify, Split, Archive, Cleanup
<1>. QED  BY <1>20 DEF Moved

\* A step, as what follows speaks of it.
Stepped(s) ==
  /\ Advance(s) /\ TameStep(s) /\ World(s) /\ Flow(s)
  /\ \A id \in Ids : Moves(s, id)

LEMMA StepStepped ==
  ASSUME IInv, PathInv, NEW s \in Slots, Step(s)
  PROVE  Stepped(s)
BY StepAdvances, StepTame, StepWorld, StepFlow, StepMoves DEF IInv, Stepped

-----------------------------------------------------------------------------
(* What a step keeps *)

LEMMA StepPath ==
  ASSUME PathInv, NEW s \in Slots, Stepped(s)
  PROVE  PathInv'
<1>. SUFFICES ASSUME NEW u \in Slots PROVE Path(u)'
  BY DEF PathInv
<1>1. Path(u) /\ Path(s)
  BY DEF PathInv
<1>2. CASE u # s
  BY <1>1, <1>2 DEF Stepped, Advance, Path
<1>3. CASE u = s /\ call'[s] = Idle
  BY <1>3 DEF Path, Idle
<1>4. CASE u = s /\ call'[s] # Idle
  <2>1. call'[s].op = call[s].op /\ call'[s].pc # "retry"
    BY <1>4 DEF Stepped, Advance
  <2>2. call[s].op = "spawn" => call'[s].pc \in SpawnPCs
    BY <1>4 DEF Stepped, Flow, SpawnFlow, SpawnPCs
  <2>3. call[s].op # "none"
    BY <1>1, <1>4 DEF Stepped, Flow, CleanupFlow, EntersCleanup, Path
  <2>. QED  BY <1>4, <2>1, <2>2, <2>3 DEF Path
<1>. QED  BY <1>2, <1>3, <1>4

\* While a call of the orchestrator agent is in flight the others are not its calls.
LEMMA Alone ==
  ASSUME OrchOne, NEW s \in Slots, NEW u \in Slots, Orch(s), u # s
  PROVE  ~Orch(u)
BY DEF OrchOne

\* Harm is for good.
LEMMA BadStays ==
  ASSUME NEW s \in Slots, World(s), NEW id \in Ids
  PROVE  /\ Bad(id) => Bad(id)'
         /\ Neat(id)' => Neat(id) /\ ~Bad(id)
         /\ harm'[id] = {} => harm[id] = {} /\ Neat(id) /\ ~Bad(id)
<1>1. harm[id] \subseteq harm'[id]
  BY DEF World
<1>. QED  BY <1>1 DEF Bad, Neat

\* What is over stays over, and what is archived stays so, unless a child is given its number.
LEMMA StepOver ==
  ASSUME Typed, KidFree, NEW s \in Slots, Stepped(s), NEW id \in Ids
  PROVE  /\ Swept(id) => Swept(id)' \/ "returned" \in harm'[id]
         /\ Over(id) => Over(id)' \/ "returned" \in harm'[id]
<1>1. ASSUME Swept(id) PROVE Swept(id)' \/ "returned" \in harm'[id]
  <2>1. archive'[id] # Absent
    BY <1>1 DEF Stepped, World, Swept, IsArchived
  <2>2. Moves(s, id)
    BY DEF Stepped
  <2>3. ledger'[id].status = "absent" \/ "returned" \in harm'[id]
    BY <1>1, <2>2 DEF Moves, Active, KidFree, Swept
  <2>. QED  BY <2>1, <2>3 DEF Swept, IsArchived
<1>2. ASSUME CompletionRecorded(id) PROVE Over(id)'
  <2>1. Recorded(ledger'[id]) \/ (ledger'[id] = Absent /\ archive'[id] # Absent)
    BY <1>2 DEF Stepped, TameStep, Tame, Recorded, CompletionRecorded
  <2>. QED  BY <2>1 DEF Over, Recorded, CompletionRecorded, IsArchived, Absent
<1>. QED  BY <1>1, <1>2 DEF Over, Swept, CompletionRecorded, IsArchived

LEMMA StepHeld ==
  ASSUME IInv, HeldInv, KidFree, NEW s \in Slots, Stepped(s)
  PROVE  HeldInv'
<1>. SUFFICES ASSUME NEW u \in Slots, Cleaning(u)' PROVE Held(u)'
  BY DEF HeldInv
<1>0. Typed /\ OrchOne /\ AddInv
  BY DEF IInv
<1>1. PICK id \in Ids : id = call[u].id
  BY <1>0 DEF Typed, TypeOK, Calls
<1>2. /\ Over(id) => Over(id)' \/ "returned" \in harm'[id]
      /\ harm[id] \subseteq harm'[id] /\ Moves(s, id)
  BY <1>0, StepOver DEF Stepped, World
<1>3. ASSUME Cleaning(u), call'[u].id = id, call'[u].intent = call[u].intent,
             call'[u].op = call[u].op,
             Orch(u) => ledger'[id].status \notin Waiting
      PROVE  Held(u)'
  <2>1. Held(u)
    BY <1>3 DEF HeldInv
  <2>. QED
    BY <1>1, <1>2, <1>3, <2>1 DEF Held, Orch, Over, CompletionRecorded, IsArchived
<1>4. CASE u # s
  <2>1. call'[u] = call[u] /\ Cleaning(u)
    BY <1>4 DEF Stepped, Advance, Cleaning
  <2>2. Orch(u) => ledger'[id].status \notin Waiting
    <3>. SUFFICES ASSUME Orch(u) PROVE ledger'[id].status \notin Waiting
      OBVIOUS
    <3>1. ledger[id].status \notin Waiting /\ ~Orch(s)
      BY <1>0, <1>1, <1>4, <2>1, Alone DEF HeldInv, Held
    <3>2. call[s].op \notin OrchOps
      BY <3>1 DEF Orch
    <3>3. call[s].pc = "finish" => call[s].intent # "stop"
      BY <3>1 DEF HeldInv, Held, Cleaning
    <3>4. At(s, "split_request", "add") => call[s].prev.status \in Active
      BY <1>0 DEF AddInv
    <3>. QED  BY <1>2, <3>1, <3>2, <3>3, <3>4 DEF Moves, Waiting, Active, At, OrchOps
  <2>. QED  BY <1>1, <1>3, <2>1, <2>2
<1>5. CASE u = s
  <2>1. call'[s] # Idle
    BY <1>5 DEF Cleaning, Idle
  <2>2. call'[s].op = call[s].op /\ call'[s].id = call[s].id
    BY <2>1 DEF Stepped, Advance
  <2>3. CASE CleanupFlow(s)
    <3>1. /\ Cleaning(s) /\ call'[s].intent = call[s].intent /\ call[s].pc # "finish"
          /\ call[s].pc \in {"probe", "kill", "remove", "branch"}
      BY <2>3 DEF CleanupFlow
    <3>2. ledger[id].status \notin Waiting => ledger'[id].status \notin Waiting
      BY <1>2, <3>1 DEF Moves, Waiting, Active, At
    <3>3. Orch(s) => ledger[id].status \notin Waiting
      BY <1>1, <1>5, <3>1 DEF HeldInv, Held
    <3>. QED  BY <1>1, <1>3, <1>5, <2>2, <3>1, <3>2, <3>3
  <2>4. CASE EntersCleanup(s)
    <3>1. LET e == ledger[call[s].id] IN
          StopIntent(e) = IF e.marker = "none" THEN "stop" ELSE e.marker
      BY DEF StopIntent
    <3>2. call'[s].intent = "completed" => ledger'[call[s].id].marker = "completed"
      BY <2>4, <3>1 DEF EntersCleanup
    <3>3. \/ Orch(s) /\ ledger'[call[s].id].status = "blocked"
          \/ ~Orch(s) /\ call[s].op = "completed" /\ call'[s].intent = "completed"
          \/ ~Orch(s) /\ call[s].op = "split_request" /\ call'[s].intent = "split_request"
      BY <2>4 DEF EntersCleanup, Orch, OrchOps
    <3>. QED
      BY <1>5, <2>2, <3>2, <3>3 DEF Held, Orch, Over, CompletionRecorded, IsArchived, Waiting
  <2>5. CASE ~CleanupFlow(s) /\ ~EntersCleanup(s)
    <3>1. ~Cleaning(s)'
      <4>1. Flow(s)
        BY DEF Stepped
      <4>. QED  BY <2>1, <2>5, <4>1 DEF Flow, SpawnFlow, Cleaning
    <3>. QED  BY <1>5, <3>1
  <2>. QED  BY <2>3, <2>4, <2>5
<1>. QED  BY <1>4, <1>5

LEMMA StepSplitting ==
  ASSUME IInv, SplitInv, NEW s \in Slots, Stepped(s)
  PROVE  SplitInv'
<1>. SUFFICES ASSUME NEW u \in Slots, Cleaning(u)', call'[u].op = "split_request"
              PROVE  \/ Splitting(ledger'[call'[u].id])
                     \/ harm'[call'[u].id] \cap {"crossed", "returned"} # {}
  BY DEF SplitInv, Splitting, Bad
<1>1. PICK id \in Ids : id = call[u].id
  BY DEF IInv, Typed, TypeOK, Calls
<1>2. call'[u] # Idle /\ call'[u].op = call[u].op /\ call'[u].id = id
  <2>1. call'[u] # Idle
    BY DEF Cleaning, Idle
  <2>. QED  BY <1>1, <2>1 DEF Stepped, Advance
<1>3. CASE Cleaning(u)
  <2>1. Splitting(ledger[id]) \/ Bad(id)
    BY <1>1, <1>2, <1>3 DEF SplitInv
  <2>2. CASE Bad(id)
    <3>1. harm[id] \subseteq harm'[id]
      BY DEF Stepped, World
    <3>. QED  BY <1>2, <2>2, <3>1 DEF Bad
  <2>3. CASE Splitting(ledger[id]) /\ ~Splitting(ledger'[id])
    <3>1. At(s, "split_request", "add") /\ call[s].id = id /\ ledger[id].status = "blocked"
      BY <2>3 DEF Stepped, TameStep, Tame
    <3>2. ledger'[id] # ledger[id]
      BY <2>3
    <3>3. ledger[id].status # "absent"
      BY <3>1
    <3>4. Crossing(id)
      BY <1>1, <1>2, <1>3 DEF Crossing
    <3>5. Moves(s, id)
      BY DEF Stepped
    <3>6. "crossed" \in harm'[id]
      BY <3>1, <3>2, <3>3, <3>4, <3>5 DEF Moves, At
    <3>. QED  BY <1>2, <3>6
  <2>. QED  BY <1>2, <2>1, <2>2, <2>3
<1>4. CASE ~Cleaning(u)
  <2>1. u = s
    BY <1>4 DEF Stepped, Advance, Cleaning
  <2>2. EntersCleanup(s)
    BY <1>2, <1>4, <2>1 DEF Stepped, Flow, CleanupFlow, Cleaning
  <2>. QED  BY <1>1, <1>2, <2>1, <2>2 DEF EntersCleanup
<1>. QED  BY <1>3, <1>4

LEMMA StepArchived ==
  ASSUME IInv, KidFree, SweepHeld, NEW s \in Slots, Stepped(s)
  PROVE  KidFree' /\ SweepHeld'
<1>0. Typed /\ OrchOne
  BY DEF IInv
<1>1. KidFree'
  <2>. SUFFICES ASSUME NEW u \in Slots, At(u, "split", "add")' PROVE archive'[call'[u].kid] = Absent
    BY DEF KidFree, IsArchived
  <2>1. CASE u # s
    <3>1. call'[u] = call[u] /\ At(u, "split", "add")
      BY <2>1 DEF Stepped, Advance, At
    <3>2. ~At(s, "archive", "file")
      BY <1>0, <2>1, <3>1, Alone DEF At, Orch, OrchOps
    <3>3. ~IsArchived(call[u].kid) /\ call[u].kid \in Ids
      BY <1>0, <3>1 DEF KidFree, Typed, Shape, At
    <3>. QED  BY <3>1, <3>2, <3>3 DEF Stepped, World, IsArchived
  <2>2. CASE u = s
    <3>1. call'[s] # Idle /\ call'[s].op = call[s].op
      BY <2>2 DEF Stepped, Advance, At, Idle
    <3>2. /\ call[s].op = "split" /\ call[s].pc = "ids" /\ ~IsArchived(call'[s].kid)
          /\ call'[s].kid \in Ids
      BY <2>2, <3>1 DEF Stepped, Flow, CleanupFlow, EntersCleanup, Advance, At
    <3>3. archive'[call'[s].kid] = archive[call'[s].kid]
      BY <3>2 DEF Stepped, World, At
    <3>. QED  BY <2>2, <3>2, <3>3 DEF IsArchived
  <2>. QED  BY <2>1, <2>2
<1>2. SweepHeld'
  <2>. SUFFICES ASSUME NEW u \in Slots, At(u, "archive", "sweep")'
                PROVE  \/ /\ ledger'[call'[u].id].status = "absent"
                          /\ archive'[call'[u].id] # Absent
                       \/ "returned" \in harm'[call'[u].id]
    BY DEF SweepHeld, Swept, IsArchived
  <2>0. PICK id \in Ids : id = call[u].id
    BY <1>0 DEF Typed, TypeOK, Calls
  <2>1. CASE u # s
    <3>1. call'[u] = call[u] /\ At(u, "archive", "sweep")
      BY <2>1 DEF Stepped, Advance, At
    <3>2. Swept(id) \/ "returned" \in harm[id]
      BY <2>0, <3>1 DEF SweepHeld
    <3>3. harm[id] \subseteq harm'[id]
      BY DEF Stepped, World
    <3>4. Swept(id) => Swept(id)' \/ "returned" \in harm'[id]
      BY <1>0, StepOver
    <3>. QED  BY <2>0, <3>1, <3>2, <3>3, <3>4 DEF Swept, IsArchived
  <2>2. CASE u = s
    <3>1. call'[s] # Idle /\ call'[s].id = call[s].id /\ call'[s].op = call[s].op
      BY <2>2 DEF Stepped, Advance, At, Idle
    <3>. QED
      BY <2>2, <3>1 DEF Stepped, Flow, CleanupFlow, EntersCleanup, At
  <2>. QED  BY <2>1, <2>2
<1>. QED  BY <1>1, <1>2

LEMMA StepPlace ==
  ASSUME IInv, PlaceFresh, PlaceOwn, BriefInv, NEW s \in Slots, Stepped(s)
  PROVE  PlaceFresh' /\ PlaceOwn' /\ BriefInv'
<1>0. Typed /\ OrchOne
  BY DEF IInv
<1>1. ASSUME NEW id \in Ids, NEW g \in Lives, Place(id, g)' PROVE Place(id, g)
  <2>1. g # 0
    BY DEF Lives
  <2>2. CASE g \in windows'[id]
    BY <2>2 DEF Stepped, World, Place, At
  <2>3. CASE worktree'[id] = g
    BY <2>1, <2>3 DEF Stepped, World, Place, At
  <2>4. ASSUME NEW u \in Slots, call'[u].op = "spawn", call'[u].id = id, call'[u].g = g
        PROVE  Place(id, g)
    <3>1. call'[u] # Idle
      BY <2>4 DEF Idle
    <3>2. call[u].op = "spawn" /\ call[u].id = id /\ call[u].g = g
      BY <2>4, <3>1 DEF Stepped, Advance
    <3>. QED  BY <3>2 DEF Place
  <2>. QED  BY <1>1, <2>2, <2>3, <2>4 DEF Place
<1>2. lives' = lives
  BY DEF Stepped, World
<1>3. PlaceFresh' /\ PlaceOwn'
  BY <1>1, <1>2 DEF PlaceFresh, PlaceOwn
<1>4. BriefInv'
  <2>1. CASE briefed' = briefed
    <3>1. \A u \in Slots : call'[u].op = "spawn" => call[u].op = "spawn" /\ call'[u].g = call[u].g
      BY DEF Stepped, Advance, Idle
    <3>. QED  BY <1>2, <2>1, <3>1 DEF BriefInv
  <2>2. CASE /\ At(s, "spawn", "prompt") /\ call'[s] = Idle
             /\ briefed' = briefed \cup windows[call[s].id]
    <3>1. \A g \in windows[call[s].id] : g <= lives
      BY <1>0 DEF PlaceFresh, Place, Typed, TypeOK, Calls
    <3>2. \A u \in Slots : call'[u].op # "spawn"
      <4>1. \A u \in Slots \ {s} : call[u].op # "spawn"
        BY <1>0, <2>2, Alone DEF At, Orch, OrchOps
      <4>. QED  BY <2>2, <4>1 DEF Stepped, Advance, Idle
    <3>. QED  BY <1>2, <2>2, <3>1, <3>2 DEF BriefInv
  <2>. QED  BY <2>1, <2>2 DEF Stepped, World
<1>. QED  BY <1>3, <1>4

\* Nobody spawns a worker for a task that is being cleaned up.
LEMMA CleanedNotUnstarted ==
  ASSUME MarkerInv, HeldInv, SplitInv, Typed, NEW u \in Slots, Cleaning(u)
  PROVE  ledger[call[u].id].status # "unstarted" \/ Bad(call[u].id)
<1>1. call[u].id \in Ids
  BY DEF Typed, TypeOK, Calls
<1>2. CASE Orch(u)
  BY <1>2 DEF HeldInv, Held, Waiting
<1>3. CASE ~Orch(u) /\ call[u].op = "completed"
  BY <1>1, <1>3 DEF HeldInv, Held, Over, CompletionRecorded, MarkerInv, Bad
<1>4. CASE ~Orch(u) /\ call[u].op = "split_request"
  BY <1>4 DEF SplitInv, Splitting
<1>. QED  BY <1>2, <1>3, <1>4 DEF HeldInv, Held

LEMMA OneOrNone ==
  ASSUME Typed, OneInv, NEW id \in Ids, Neat(id)
  PROVE  windows[id] = {} \/ (Addressable(id) /\ Cardinality(windows[id]) = 1)
<1>1. windows[id] = {} \/ \E g : windows[id] = {g}
  BY DEF OneInv
<1>. QED  BY <1>1, FS_Singleton DEF Addressable

LEMMA StepTake ==
  ASSUME IInv, TakeInv, NEW s \in Slots, Stepped(s)
  PROVE  TakeInv'
<1>. SUFFICES ASSUME NEW u \in Slots, call'[u].op = "spawn" PROVE Taking(u)'
  BY DEF TakeInv
<1>. DEFINE id == call[u].id
            g == call[u].g
<1>0. Typed /\ OrchOne
  BY DEF IInv
<1>1. /\ call'[u].id = id /\ call'[u].g = g /\ call'[u] # Idle
      /\ call[u].op = "spawn" /\ Orch(u)
  <2>1. call'[u] # Idle
    BY DEF Idle
  <2>. QED  BY <2>1 DEF Stepped, Advance, Orch, OrchOps
<1>2. /\ id \in Ids /\ World(s) /\ Moves(s, id)
      /\ call[u].pc \in {"worktree", "window", "ledger"} => ledger[id].status = "unstarted"
      /\ call[u].pc \in {"register", "launch", "prompt", "undo_kill"} => life[id] = g
  BY <1>0, <1>1 DEF Stepped, Typed, TypeOK, Calls, TakeInv, Taking
<1>. HIDE DEF id, g
<1>3. CASE u # s
  <2>1. call'[u] = call[u] /\ ~Orch(s)
    BY <1>0, <1>1, <1>3, Alone DEF Stepped, Advance
  <2>2. ~At(s, "stop", "mark") /\ ~At(s, "split", "parent") /\ ~At(s, "archive", "file")
        /\ ~At(s, "split", "add") /\ ~At(s, "split", "undo") /\ ~At(s, "spawn", "ledger")
        /\ ~At(s, "spawn", "undo_ledger")
    BY <2>1 DEF At, Orch, OrchOps
  <2>3. call[u].pc \in {"worktree", "window", "ledger"} => ledger'[id].status = "unstarted"
    BY <1>2, <2>2 DEF Moves, Active
  <2>4. life'[id] = life[id]
    BY <1>2, <2>2 DEF World
  <2>. QED  BY <1>1, <1>2, <2>1, <2>3, <2>4 DEF Taking
<1>4. CASE u = s
  <2>1. SpawnFlow(s) /\ call[s].op = "spawn" /\ call[s].id = id /\ call[s].g = g
    BY <1>1, <1>4 DEF Stepped, Flow, id, g
  <2>2. call'[s].pc \in {"window", "ledger"} => ledger'[id].status = "unstarted"
    BY <1>2, <1>4, <2>1 DEF SpawnFlow, Moves, Active, At
  <2>3. call'[s].pc \in {"register", "launch", "prompt", "undo_kill"} => life'[id] = g
    BY <1>2, <1>4, <2>1 DEF SpawnFlow, World, At
  <2>4. call'[s].pc # "worktree"
    BY <2>1 DEF SpawnFlow
  <2>. QED  BY <1>1, <1>4, <2>2, <2>3, <2>4 DEF Taking
<1>. QED  BY <1>3, <1>4

LEMMA StepSpawn ==
  ASSUME IInv, PathInv, HeldInv, SplitInv, TakeInv, BriefInv, SpawnInv, CleanInv, OneInv, PairInv,
         NEW s \in Slots, Stepped(s)
  PROVE  SpawnInv'
<1>. SUFFICES ASSUME NEW u \in Slots, call'[u].op = "spawn" PROVE Spawning(u)'
  BY DEF SpawnInv
<1>0. Typed /\ OrchOne /\ MarkerInv /\ AddInv
  BY DEF IInv
<1>1. /\ call'[u].op = call[u].op /\ call'[u].id = call[u].id /\ call'[u].g = call[u].g
      /\ call'[u] # Idle /\ call[u].op = "spawn" /\ Orch(u)
  <2>1. call'[u] # Idle
    BY DEF Idle
  <2>. QED  BY <2>1 DEF Stepped, Advance, Orch, OrchOps
<1>I. PICK id \in Ids, g \in Lives : id = call[u].id /\ g = call[u].g
  BY <1>0, <1>1 DEF Typed, TypeOK, Shape, Calls
<1>2. g # 0 /\ 0 \notin briefed /\ g \notin briefed /\ windows[id] \subseteq Lives /\ 0 \notin Lives
  BY <1>0, <1>1, <1>I DEF Typed, TypeOK, Lives, BriefInv
<1>3. /\ call[u].pc \in {"worktree", "window", "ledger"} => ledger[id].status = "unstarted"
      /\ call[u].pc = "window" => /\ worktree[id] = g \/ Bad(id)
                                  /\ Neat(id) => windows[id] = {}
      /\ call[u].pc \in {"register", "launch", "prompt"}
           => ledger[id].status \in Active \/ windows[id] = {} \/ Bad(id)
      /\ NoBrief(id) \/ Bad(id)
      /\ call[u].pc \in {"undo_worktree", "undo_ledger"} /\ Neat(id) => windows[id] = {}
      /\ call[u].pc = "undo_ledger" => worktree[id] = 0 \/ "left" \in harm[id]
  BY <1>1, <1>I DEF TakeInv, Taking, SpawnInv, Spawning
<1>4. /\ World(s) /\ Moves(s, id) /\ harm[id] \subseteq harm'[id]
      /\ Bad(id) => Bad(id)'
      /\ Neat(id)' => Neat(id)
      /\ call[s].pc = "finish" /\ call[s].id = id => windows[id] = {} \/ Bad(id)
  BY BadStays DEF Stepped, World, CleanInv, Cleaned
<1>G. ASSUME /\ call'[u].pc = "window" => /\ worktree'[id] = g \/ Bad(id)'
                                          /\ Neat(id)' => windows'[id] = {}
             /\ call'[u].pc \in {"register", "launch", "prompt"}
                  => ledger'[id].status \in Active \/ windows'[id] = {} \/ Bad(id)'
             /\ NoBrief(id)' \/ Bad(id)'
             /\ call'[u].pc \in {"undo_worktree", "undo_ledger"} /\ Neat(id)' => windows'[id] = {}
             /\ call'[u].pc = "undo_ledger" => worktree'[id] = 0 \/ "left" \in harm'[id]
      PROVE  Spawning(u)'
  BY <1>1, <1>I, <1>G DEF Spawning, Bad, Neat, NoBrief
<1>6. CASE u # s
  <2>1. call'[u] = call[u] /\ ~Orch(s)
    BY <1>0, <1>1, <1>6, Alone DEF Stepped, Advance
  <2>2. ~At(s, "stop", "mark") /\ ~At(s, "split", "parent") /\ ~At(s, "archive", "file")
        /\ ~At(s, "split", "add") /\ ~At(s, "split", "undo") /\ ~At(s, "archive", "sweep")
        /\ \A pc \in PCs : ~At(s, "spawn", pc)
    BY <2>1 DEF At, Orch, OrchOps
  <2>3. call[u].pc = "window" => worktree'[id] = g \/ Bad(id)
    <3>1. call[u].pc = "window" /\ call[s].pc = "remove" /\ call[s].id = id => Bad(id)
      BY <1>0, <1>3, CleanedNotUnstarted DEF Cleaning
    <3>. QED  BY <1>3, <1>4, <2>2, <3>1 DEF World, PCs
  <2>4. (windows'[id] = windows[id] \/ windows'[id] = {})
        /\ (worktree'[id] = worktree[id] \/ worktree'[id] = 0) /\ briefed' = briefed
    BY <1>4, <2>2 DEF World, PCs
  <2>5. ledger[id].status \in Active
          => ledger'[id].status \in Active \/ windows[id] = {} \/ Bad(id)
    <3>1. At(s, "split_request", "add") => call[s].prev.status \in Active
      BY <1>0 DEF AddInv
    <3>. QED  BY <1>4, <2>2, <3>1 DEF Moves, Active, PCs
  <2>6. NoBrief(id)' \/ Bad(id)
    BY <1>2, <1>3, <2>4 DEF NoBrief
  <2>. QED  BY <1>3, <1>4, <1>G, <2>1, <2>3, <2>4, <2>5, <2>6
<1>7. CASE u = s
  <2>1. SpawnFlow(s) /\ call[s].op = "spawn" /\ call[s].id = id /\ call[s].g = g
    BY <1>1, <1>7, <1>I DEF Stepped, Flow
  <2>2. call[s].pc \in SpawnPCs
    BY <2>1 DEF PathInv, Path
  <2>3. call'[s].pc = "window" => /\ worktree'[id] = g
                                  /\ Neat(id)' => windows'[id] = {}
    <3>. SUFFICES ASSUME call'[s].pc = "window"
                  PROVE  worktree'[id] = g /\ (Neat(id)' => windows'[id] = {})
      OBVIOUS
    <3>1. call[s].pc = "worktree" /\ worktree[id] = 0 /\ worktree'[id] = g
      BY <2>1 DEF SpawnFlow
    <3>2. Neat(id) => windows[id] = {}
      BY <1>2, <1>3, <1>7, <3>1 DEF PairInv
    <3>3. windows'[id] = windows[id] \/ windows'[id] = {}
      BY <1>4, <3>1 DEF World, At
    <3>. QED  BY <1>4, <3>1, <3>2, <3>3
  <2>4. call'[s].pc \in {"register", "launch", "prompt"}
          => ledger'[id].status \in Active \/ windows'[id] = {} \/ Bad(id)'
    <3>1. CASE call'[s].pc = "register"
      BY <2>1, <3>1 DEF SpawnFlow, Active
    <3>2. CASE call'[s].pc \in {"launch", "prompt"}
      <4>1. call[s].pc \in {"register", "launch"}
        BY <2>1, <3>2 DEF SpawnFlow
      <4>2. ledger[id].status \in Active => ledger'[id].status \in Active
        BY <1>4, <2>1, <4>1 DEF Moves, Active, At
      <4>3. windows[id] = {} => windows'[id] = {}
        BY <1>4, <4>1 DEF World, At
      <4>. QED  BY <1>3, <1>4, <1>7, <4>1, <4>2, <4>3
    <3>. QED  BY <3>1, <3>2
  <2>5. NoBrief(id)' \/ Bad(id)'
    <3>1. briefed' = briefed
      BY <1>1, <1>4, <1>7 DEF World
    <3>2. Bad(id) \/ \A h \in briefed : h \notin windows'[id] /\ worktree'[id] # h
      BY <1>2, <1>3, <1>4, <2>1 DEF World, NoBrief
    <3>. QED  BY <1>4, <3>1, <3>2 DEF NoBrief
  <2>6. call'[s].pc \in {"undo_worktree", "undo_ledger"} /\ Neat(id)' => windows'[id] = {}
    <3>. SUFFICES ASSUME call'[s].pc \in {"undo_worktree", "undo_ledger"}, Neat(id)'
                  PROVE  windows'[id] = {}
      OBVIOUS
    <3>1. Neat(id) /\ "adrift" \notin harm'[id]
      BY <1>4 DEF Neat
    <3>2. windows[id] = {} \/ Addressable(id)
      BY <1>0, <3>1, OneOrNone
    <3>3. CASE call[s].pc = "window"
      BY <1>3, <1>7, <2>1, <3>1, <3>3 DEF SpawnFlow
    <3>4. CASE call[s].pc = "undo_kill"
      BY <2>1, <3>1, <3>2, <3>4 DEF SpawnFlow
    <3>5. CASE call[s].pc = "undo_worktree"
      <4>1. windows'[id] = windows[id] \/ windows'[id] = {}
        BY <1>4, <3>5 DEF World, At
      <4>. QED  BY <1>3, <1>7, <3>1, <3>5, <4>1
    <3>. QED  BY <2>1, <3>3, <3>4, <3>5 DEF SpawnFlow
  <2>7. call'[s].pc = "undo_ledger" => worktree'[id] = 0 \/ "left" \in harm'[id]
    BY <2>1 DEF SpawnFlow
  <2>8. call'[u].pc = call'[s].pc
    BY <1>7
  <2>9. /\ call'[u].pc = "window" => worktree'[id] = g /\ (Neat(id)' => windows'[id] = {})
        /\ call'[u].pc \in {"register", "launch", "prompt"}
             => ledger'[id].status \in Active \/ windows'[id] = {} \/ Bad(id)'
    BY <2>3, <2>4, <2>8
  <2>10. /\ call'[u].pc \in {"undo_worktree", "undo_ledger"} /\ Neat(id)' => windows'[id] = {}
         /\ call'[u].pc = "undo_ledger" => worktree'[id] = 0 \/ "left" \in harm'[id]
    BY <2>6, <2>7, <2>8
  <2>. QED  BY <1>G, <2>5, <2>9, <2>10
<1>. QED  BY <1>6, <1>7

LEMMA StepClean ==
  ASSUME IInv, HeldInv, SplitInv, TakeInv, CleanInv, NEW s \in Slots, Stepped(s)
  PROVE  CleanInv'
<1>. SUFFICES ASSUME NEW u \in Slots PROVE Cleaned(u)'
  BY DEF CleanInv
<1>0. Typed /\ OrchOne /\ MarkerInv
  BY DEF IInv
<1>I. PICK id \in Ids : id = call[u].id
  BY <1>0 DEF Typed, TypeOK, Calls
<1>1. /\ World(s) /\ Cleaned(u) /\ (Bad(id) => Bad(id)') /\ call[s].id \in Ids
      /\ call[u].failed \in BOOLEAN /\ call'[u].failed \in BOOLEAN
  BY <1>0, BadStays DEF Stepped, Advance, Typed, TypeOK, Calls, CleanInv
<1>G. ASSUME call'[u].id = id \/ call'[u] = Idle,
             /\ call'[u].pc = "finish" => ~call'[u].failed
             /\ ~call'[u].failed /\ call'[u].pc \in {"remove", "branch", "finish"}
                  => windows'[id] = {} \/ Bad(id)'
             /\ ~call'[u].failed /\ call'[u].pc \in {"branch", "finish"}
                  => worktree'[id] = 0 \/ Bad(id)'
      PROVE  Cleaned(u)'
  BY <1>G DEF Cleaned, Bad, Idle
<1>3. CASE u # s
  <2>1. call'[u] = call[u]
    BY <1>3 DEF Stepped, Advance
  <2>2. ASSUME Cleaning(u), At(s, "spawn", "worktree") \/ At(s, "spawn", "window"),
               call[s].id = id
        PROVE  Bad(id)
    <3>1. ledger[id].status = "unstarted"
      BY <2>2 DEF At, TakeInv, Taking
    <3>. QED  BY <1>0, <1>I, <2>2, <3>1, CleanedNotUnstarted
  <2>3. Cleaning(u) /\ windows[id] = {} => windows'[id] = {} \/ Bad(id)
    BY <1>1, <2>2 DEF World
  <2>4. Cleaning(u) /\ worktree[id] = 0 => worktree'[id] = 0 \/ Bad(id)
    BY <1>1, <2>2 DEF World
  <2>. QED  BY <1>1, <1>G, <1>I, <2>1, <2>3, <2>4 DEF Cleaned, Cleaning
<1>4. CASE u = s /\ call'[s] = Idle
  BY <1>4 DEF Cleaned, Idle
<1>5. CASE u = s /\ call'[s] # Idle
  <2>1. call'[s].op = call[s].op /\ call'[s].id = id
    BY <1>5, <1>I DEF Stepped, Advance
  <2>2. CASE call[s].op # "spawn" /\ CleanupFlow(s)
    <3>1. windows[id] = {} => windows'[id] = {}
      BY <1>1, <2>2 DEF World, At
    <3>2. worktree[id] = 0 => worktree'[id] = 0
      BY <1>1, <2>2 DEF World, At
    <3>3. call'[s].pc = "finish" => ~call'[s].failed /\ ~call[s].failed
      BY <2>2 DEF CleanupFlow
    <3>4. ~call'[s].failed /\ call'[s].pc \in {"remove", "branch", "finish"}
            => windows'[id] = {} \/ Bad(id)
      BY <1>1, <1>5, <1>I, <2>2, <3>1 DEF CleanupFlow, Cleaned
    <3>5. ~call'[s].failed /\ call'[s].pc \in {"branch", "finish"}
            => worktree'[id] = 0 \/ Bad(id)
      BY <1>1, <1>5, <1>I, <2>2, <3>2 DEF CleanupFlow, Cleaned
    <3>. QED  BY <1>1, <1>5, <1>G, <2>1, <3>3, <3>4, <3>5
  <2>3. CASE ~(call[s].op # "spawn" /\ CleanupFlow(s))
    <3>1. call'[s].pc \notin {"remove", "branch", "finish"}
      BY <1>5, <2>3 DEF Stepped, Flow, SpawnFlow, EntersCleanup
    <3>. QED  BY <1>5, <1>G, <2>1, <3>1
  <2>. QED  BY <2>2, <2>3
<1>. QED  BY <1>3, <1>4, <1>5

LEMMA StepOwned ==
  ASSUME IInv, OwnedInv, NEW s \in Slots, Stepped(s)
  PROVE  OwnedInv'
<1>1. ASSUME NEW id \in Ids, ledger'[id].status \in Active PROVE ledger'[id].owned
  BY <1>1 DEF Stepped, Moves, OwnedInv, Active
<1>2. ASSUME NEW u \in Slots, At(u, "split_request", "add")' PROVE call'[u].prev.owned
  <2>1. CASE u # s
    BY <1>2, <2>1 DEF Stepped, Advance, OwnedInv, At
  <2>2. CASE u = s
    <3>1. call'[s] # Idle /\ call'[s].op = call[s].op
      BY <1>2, <2>2 DEF Stepped, Advance, At, Idle
    <3>. QED
      BY <1>2, <2>2, <3>1 DEF Stepped, Flow, CleanupFlow, EntersCleanup, At
  <2>. QED  BY <2>1, <2>2
<1>. QED  BY <1>1, <1>2 DEF OwnedInv

LEMMA StepOrphan ==
  ASSUME IInv, PlaceOwn, BriefInv, SpawnInv, CleanInv, OrphanInv, NEW s \in Slots, Stepped(s)
  PROVE  OrphanInv'
<1>. SUFFICES ASSUME NEW id \in Ids, ledger'[id].status \notin Active, ~Bad(id)'
              PROVE  NoBrief(id)'
  BY DEF OrphanInv
<1>. DEFINE c == call[s]
<1>0. Typed /\ AddInv
  BY DEF IInv
<1>1. /\ World(s) /\ Moves(s, id) /\ Cleaned(s) /\ (c.op = "spawn" => Spawning(s))
      /\ c.id \in Ids /\ 0 \notin briefed /\ windows[c.id] \subseteq Lives
      /\ At(s, "split_request", "add") => c.prev.status \in Active
      /\ ~Bad(id)
  BY <1>0, BadStays DEF Stepped, CleanInv, SpawnInv, Typed, TypeOK, Calls, AddInv, Lives
<1>2. NoBrief(id)
  <2>1. CASE ledger[id].status \notin Active
    BY <1>1, <2>1 DEF OrphanInv
  <2>2. CASE ledger[id].status \in Active
    <3>1. /\ id = c.id
          /\ At(s, "spawn", "undo_ledger") \/ c.pc = "finish"
      BY <1>1, <2>2 DEF Moves, Active
    <3>2. CASE At(s, "spawn", "undo_ledger")
      BY <1>1, <3>1, <3>2 DEF At, Spawning
    <3>3. CASE c.pc = "finish"
      BY <1>1, <3>1, <3>3 DEF Cleaned, NoBrief
    <3>. QED  BY <3>1, <3>2, <3>3
  <2>. QED  BY <2>1, <2>2
<1>3. CASE briefed' = briefed
  <2>1. c.op = "spawn" => c.g \notin briefed
    BY DEF BriefInv
  <2>2. \A h \in briefed : h \notin windows'[id] /\ worktree'[id] # h
    BY <1>1, <1>2, <2>1 DEF World, NoBrief, At
  <2>. QED  BY <1>3, <2>2 DEF NoBrief
<1>4. CASE At(s, "spawn", "prompt") /\ windows[c.id] # {} /\ briefed' = briefed \cup windows[c.id]
  <2>1. ledger[c.id].status \in Active \/ Bad(c.id)
    BY <1>1, <1>4 DEF At, Spawning
  <2>2. id # c.id
    BY <1>1, <1>4, <2>1 DEF Moves, Active, At
  <2>3. windows'[id] = windows[id] /\ worktree'[id] = worktree[id]
    BY <1>1, <2>2 DEF World
  <2>4. ASSUME NEW h \in windows[c.id] PROVE h \notin windows[id] /\ worktree[id] # h
    <3>1. h \in Lives
      BY <1>1
    <3>. QED  BY <1>1, <2>2, <3>1 DEF PlaceOwn, Place
  <2>. QED  BY <1>2, <1>4, <2>3, <2>4 DEF NoBrief
<1>. QED  BY <1>1, <1>3, <1>4 DEF World

LEMMA StepOne ==
  ASSUME IInv, SpawnInv, OneInv, NEW s \in Slots, Stepped(s)
  PROVE  OneInv'
<1>. SUFFICES ASSUME NEW id \in Ids, Neat(id)' PROVE \A g, h \in windows'[id] : g = h
  BY DEF OneInv
<1>1. Neat(id) /\ World(s)
  BY BadStays DEF Stepped
<1>2. CASE windows'[id] = windows[id] \/ windows'[id] = {}
  BY <1>1, <1>2 DEF OneInv
<1>3. CASE /\ id = call[s].id /\ At(s, "spawn", "window")
           /\ windows'[id] = windows[id] \cup {call[s].g}
  <2>1. windows[id] = {}
    BY <1>1, <1>3 DEF SpawnInv, Spawning, At
  <2>. QED  BY <1>3, <2>1
<1>. QED  BY <1>1, <1>2, <1>3 DEF World

LEMMA StepPair ==
  ASSUME IInv, PathInv, HeldInv, SplitInv, SweepHeld, SpawnInv, CleanInv, PairInv, GoneInv,
         NEW s \in Slots, Stepped(s)
  PROVE  PairInv'
<1>. SUFFICES ASSUME NEW id \in Ids, Neat(id)', ledger'[id].status = "unstarted",
                     NEW g \in windows'[id]
              PROVE  worktree'[id] = g
  BY DEF PairInv
<1>. DEFINE c == call[s]
<1>0. Typed /\ MarkerInv /\ AddInv
  BY DEF IInv
<1>1. /\ World(s) /\ Moves(s, id) /\ Cleaned(s)
      /\ c.op = "spawn" => Spawning(s) /\ c.pc \in SpawnPCs
      /\ Neat(id) /\ ~Bad(id) /\ windows[id] \subseteq Lives /\ 0 \notin Lives
      /\ At(s, "split_request", "add") => c.prev.status \in Active
  BY <1>0, BadStays
     DEF Stepped, CleanInv, SpawnInv, Typed, TypeOK, Calls, Lives, PathInv, Path, AddInv
<1>2. CASE ledger[id].status # "unstarted"
  <2>1. \/ id = c.id /\ At(s, "spawn", "undo_ledger")
        \/ id = c.id /\ c.pc = "finish"
        \/ ledger[id].status = "absent" /\ c.pc = "add"
    BY <1>1, <1>2 DEF Moves, Active, At
  <2>2. windows[id] = {}
    BY <1>1, <2>1 DEF Spawning, Cleaned, GoneInv, Clear, At
  <2>3. windows'[id] = {}
    BY <1>1, <2>1, <2>2 DEF World, At
  <2>. QED  BY <2>3
<1>3. CASE ledger[id].status = "unstarted" /\ (windows'[id] = windows[id] \/ windows'[id] = {})
  <2>1. g \in windows[id] /\ worktree[id] = g
    BY <1>1, <1>3 DEF PairInv
  <2>2. CASE worktree'[id] # worktree[id]
    <3>1. /\ id = c.id
          /\ At(s, "spawn", "undo_worktree") \/ c.pc = "remove" \/ At(s, "archive", "sweep")
      BY <1>1, <2>1, <2>2 DEF World
    <3>2. c.pc # "remove"
      BY <1>0, <1>1, <1>3, <3>1, CleanedNotUnstarted DEF Cleaning
    <3>3. ~At(s, "archive", "sweep")
      BY <1>1, <1>3, <3>1 DEF SweepHeld, Swept, Neat
    <3>4. windows[id] = {}
      BY <1>1, <3>1, <3>2, <3>3 DEF At, Spawning
    <3>. QED  BY <2>1, <3>4
  <2>. QED  BY <2>1, <2>2
<1>4. CASE id = c.id /\ At(s, "spawn", "window") /\ windows'[id] = windows[id] \cup {c.g}
  <2>1. worktree[id] = c.g /\ windows[id] = {}
    BY <1>1, <1>4 DEF At, Spawning
  <2>2. worktree'[id] = worktree[id]
    BY <1>1, <1>4 DEF World, At
  <2>. QED  BY <1>4, <2>1, <2>2
<1>. QED  BY <1>1, <1>2, <1>3, <1>4 DEF World

\* What is clear stays so, unless a spawn of the same task is about to raise its worktree
\* or its window.
LEMMA StepClear ==
  ASSUME NEW s \in Slots, Stepped(s), NEW id \in Ids, Clear(id),
         ~(call[s].id = id /\ (At(s, "spawn", "worktree") \/ At(s, "spawn", "window")))
  PROVE  Clear(id)'
BY DEF Stepped, World, Clear

LEMMA StepGone ==
  ASSUME IInv, TakeInv, CleanInv, GoneInv, KidClear, NEW s \in Slots, Stepped(s)
  PROVE  GoneInv'
<1>. SUFFICES ASSUME NEW id \in Ids, ledger'[id].status \in {"absent", "completed"}, ~Bad(id)'
              PROVE  Clear(id)'
  BY DEF GoneInv
<1>. DEFINE c == call[s]
<1>0. Typed /\ AddInv
  BY DEF IInv
<1>1. /\ World(s) /\ Moves(s, id) /\ Cleaned(s) /\ (c.op = "spawn" => Taking(s))
      /\ ~Bad(id) /\ c.id \in Ids
      /\ At(s, "split_request", "add") => c.prev.status \in Active
  BY <1>0, BadStays DEF Stepped, CleanInv, TakeInv, Typed, TypeOK, Calls, AddInv
<1>3. CASE ledger[id].status \in {"absent", "completed"}
  BY <1>1, <1>3, StepClear DEF GoneInv, Taking, At
<1>4. CASE id = c.id /\ c.pc = "finish"
  <2>1. Clear(id)
    BY <1>1, <1>4 DEF Cleaned, Clear
  <2>. QED  BY <1>4, <2>1, StepClear DEF At
<1>5. CASE id = c.kid /\ At(s, "split", "undo")
  <2>1. Clear(id)
    BY <1>1, <1>5 DEF KidClear, At
  <2>. QED  BY <1>5, <2>1, StepClear DEF At
<1>. QED  BY <1>1, <1>3, <1>4, <1>5 DEF Moves, Active

LEMMA StepKid ==
  ASSUME IInv, GoneInv, KidClear, NEW s \in Slots, Stepped(s)
  PROVE  KidClear'
<1>. SUFFICES ASSUME NEW u \in Slots, call'[u].op = "split", call'[u].pc \in {"parent", "undo"}
              PROVE  \/ windows'[call'[u].kid] = {} /\ worktree'[call'[u].kid] = 0
                     \/ harm'[call'[u].kid] \cap {"crossed", "returned"} # {}
  BY DEF KidClear, Clear, Bad
<1>0. Typed /\ OrchOne
  BY DEF IInv
<1>1. World(s)
  BY DEF Stepped
<1>3. ASSUME NEW id \in Ids, Clear(id) \/ Bad(id), call[s].op # "spawn"
      PROVE  \/ windows'[id] = {} /\ worktree'[id] = 0
             \/ harm'[id] \cap {"crossed", "returned"} # {}
  <2>1. harm[id] \subseteq harm'[id]
    BY <1>1 DEF World
  <2>2. Clear(id) => windows'[id] = {} /\ worktree'[id] = 0
    BY <1>3, StepClear DEF At, Clear
  <2>. QED  BY <1>3, <2>1, <2>2 DEF Bad
<1>4. CASE u # s
  <2>1. call'[u] = call[u]
    BY <1>4 DEF Stepped, Advance
  <2>2. call[s].op # "spawn"
    BY <1>0, <1>4, <2>1, Alone DEF Orch, OrchOps
  <2>3. call[u].kid \in Ids /\ (Clear(call[u].kid) \/ Bad(call[u].kid))
    BY <1>0, <2>1 DEF KidClear, Typed, Shape
  <2>4. PICK kid \in Ids : kid = call[u].kid
    BY <2>3
  <2>. QED  BY <1>3, <2>1, <2>2, <2>3, <2>4
<1>5. CASE u = s
  <2>1. call'[s] # Idle /\ call[s].op = "split"
    BY <1>5 DEF Stepped, Advance, Idle
  <2>2. /\ call'[s].kid = call[s].kid
        /\ \/ call[s].pc = "add" /\ ledger[call[s].kid].status = "absent"
           \/ call[s].pc = "parent"
    BY <1>5, <2>1 DEF Stepped, Flow, CleanupFlow, EntersCleanup
  <2>3. PICK kid \in Ids : kid = call[s].kid
    BY <1>0, <2>2 DEF Typed, Shape
  <2>4. Clear(kid) \/ Bad(kid)
    BY <2>1, <2>2, <2>3 DEF KidClear, GoneInv
  <2>. QED  BY <1>3, <1>5, <2>1, <2>2, <2>3, <2>4
<1>. QED  BY <1>4, <1>5

LEMMA StepReady ==
  ASSUME IInv, TakeInv, SpawnInv, CleanInv, GoneInv, ReadyInv, NEW s \in Slots, Stepped(s)
  PROVE  ReadyInv'
<1>. SUFFICES ASSUME NEW id \in Ids, ledger'[id].status = "unstarted", harm'[id] = {}
              PROVE  Clear(id)' \/ Raising(id)'
  BY DEF ReadyInv
<1>. DEFINE c == call[s]
<1>0. Typed /\ AddInv
  BY DEF IInv
<1>1. /\ World(s) /\ Moves(s, id) /\ Cleaned(s) /\ (c.op = "spawn" => Taking(s) /\ Spawning(s))
      /\ c.id \in Ids
      /\ At(s, "split_request", "add") => c.prev.status \in Active
      /\ harm[id] = {} /\ Neat(id) /\ ~Bad(id)
  BY <1>0, BadStays DEF Stepped, CleanInv, TakeInv, SpawnInv, Typed, TypeOK, Calls, AddInv
<1>3. CASE Raising(id)
  <2>1. PICK u \in Slots : /\ call[u].op = "spawn" /\ call[u].id = id
                           /\ call[u].pc \in {"window", "ledger", "undo_worktree"}
    BY <1>3 DEF Raising
  <2>2. CASE u # s
    BY <2>1, <2>2 DEF Stepped, Advance, Raising
  <2>3. CASE u = s /\ call[s].pc = "undo_worktree"
    <3>1. windows[id] = {}
      BY <1>1, <2>1, <2>3 DEF Spawning
    <3>2. windows'[id] = {} /\ worktree'[id] = 0
      BY <1>1, <2>1, <2>3, <3>1 DEF World, At
    <3>. QED  BY <3>2 DEF Clear
  <2>4. CASE u = s /\ call[s].pc # "undo_worktree"
    <3>1. ledger[id].status = "unstarted"
      BY <1>1, <2>1, <2>4 DEF Taking
    <3>2. SpawnFlow(s)
      BY <2>1, <2>4 DEF Stepped, Flow, SpawnEnds
    <3>3. call'[s].pc \in {"ledger", "undo_worktree"}
      BY <2>1, <2>4, <3>1, <3>2 DEF SpawnFlow
    <3>4. call'[s].op = "spawn" /\ call'[s].id = id
      BY <2>1, <2>4, <3>3 DEF Stepped, Advance, Idle
    <3>. QED  BY <3>3, <3>4 DEF Raising
  <2>. QED  BY <2>2, <2>3, <2>4
<1>4. CASE Clear(id) /\ ~Raising(id)
  <2>1. CASE c.id = id /\ At(s, "spawn", "worktree")
    <3>1. windows'[id] = {}
      BY <1>1, <1>4, <2>1 DEF World, At, Clear
    <3>2. CASE worktree'[id] = worktree[id]
      BY <1>4, <3>1, <3>2 DEF Clear
    <3>3. CASE worktree'[id] # worktree[id]
      <4>1. call'[s].op = "spawn" /\ call'[s].pc = "window"
        BY <1>1, <2>1, <3>3 DEF World, At
      <4>2. call'[s].id = id
        BY <2>1, <4>1 DEF Stepped, Advance, Idle
      <4>. QED  BY <4>1, <4>2 DEF Raising
    <3>. QED  BY <3>2, <3>3
  <2>2. ~(c.id = id /\ At(s, "spawn", "window"))
    BY <1>4 DEF Raising, At
  <2>. QED  BY <1>4, <2>1, <2>2, StepClear
<1>5. CASE ledger[id].status # "unstarted"
  <2>1. /\ Clear(id)
        /\ c.pc \in {"undo_ledger", "finish", "add"}
    <3>1. CASE id = c.id /\ At(s, "spawn", "undo_ledger")
      BY <1>1, <3>1 DEF At, Spawning, Clear
    <3>2. CASE id = c.id /\ c.pc = "finish"
      BY <1>1, <3>2 DEF Cleaned, Clear
    <3>3. CASE ledger[id].status = "absent" /\ c.pc = "add"
      BY <1>1, <3>3 DEF GoneInv
    <3>. QED  BY <1>1, <1>5, <3>1, <3>2, <3>3 DEF Moves, Active, At
  <2>. QED  BY <2>1, StepClear DEF At
<1>6. ledger[id].status = "unstarted" => Clear(id) \/ Raising(id)
  BY <1>1 DEF ReadyInv
<1>. QED  BY <1>3, <1>4, <1>5, <1>6

LEMMA StepStop ==
  ASSUME IInv, HeldInv, StopInv, NEW s \in Slots, Stepped(s)
  PROVE  StopInv'
<1>. SUFFICES ASSUME NEW u \in Slots, Stopping(u)'
              PROVE  /\ ledger'[call'[u].id].status # "in_progress"
                     /\ \A v \in Slots : At(v, "split_request", "add")' /\ call'[v].id = call'[u].id
                                           => call'[v].prev.status # "in_progress"
  BY DEF StopInv
<1>. DEFINE id == call[u].id
<1>0. Typed /\ OrchOne /\ AddInv
  BY DEF IInv
<1>1. call'[u] # Idle /\ call'[u].id = id /\ id \in Ids /\ Moves(s, id)
  <2>1. call'[u] # Idle
    BY DEF Stopping, Cleaning, Idle
  <2>. QED  BY <1>0, <2>1 DEF Stepped, Advance, Typed, TypeOK, Calls
<1>2. /\ At(s, "split_request", "add")' => call'[s].prev = ledger[call[s].id]
      /\ At(s, "split_request", "add")' => call'[s].id = call[s].id
  <2>. SUFFICES ASSUME At(s, "split_request", "add")'
                PROVE  call'[s].prev = ledger[call[s].id] /\ call'[s].id = call[s].id
    OBVIOUS
  <2>1. call'[s] # Idle /\ call'[s].op = call[s].op /\ call'[s].id = call[s].id
    BY DEF Stepped, Advance, At, Idle
  <2>. QED  BY <2>1 DEF Stepped, Flow, CleanupFlow, EntersCleanup, At
<1>. HIDE DEF id
<1>3. ASSUME Stopping(u), ~At(s, "spawn", "ledger")
      PROVE  /\ ledger'[id].status # "in_progress"
             /\ \A v \in Slots : At(v, "split_request", "add")' /\ call'[v].id = id
                                   => call'[v].prev.status # "in_progress"
  <2>1. /\ ledger[id].status # "in_progress"
        /\ \A v \in Slots : At(v, "split_request", "add") /\ call[v].id = id
                              => call[v].prev.status # "in_progress"
    BY <1>3 DEF StopInv, id
  <2>2. ledger'[id].status # "in_progress"
    BY <1>1, <1>3, <2>1 DEF Moves
  <2>3. ASSUME NEW v \in Slots, At(v, "split_request", "add")', call'[v].id = id
        PROVE  call'[v].prev.status # "in_progress"
    <3>1. CASE v = s
      BY <1>2, <2>1, <2>3, <3>1
    <3>2. CASE v # s
      BY <2>1, <2>3, <3>2 DEF Stepped, Advance, At
    <3>. QED  BY <3>1, <3>2
  <2>. QED  BY <2>2, <2>3
<1>4. CASE u # s
  <2>1. Stopping(u)
    BY <1>4 DEF Stepped, Advance, Stopping, Cleaning
  <2>2. Orch(u)
    BY <2>1 DEF HeldInv, Held, Stopping
  <2>3. ~At(s, "spawn", "ledger")
    BY <1>0, <1>4, <2>2, Alone DEF At, Orch, OrchOps
  <2>. QED  BY <1>1, <1>3, <2>1, <2>3
<1>5. CASE u = s /\ CleanupFlow(s)
  <2>1. Stopping(s) /\ ~At(s, "spawn", "ledger")
    BY <1>5 DEF CleanupFlow, Stopping, Cleaning, At
  <2>. QED  BY <1>1, <1>3, <1>5, <2>1
<1>6. CASE u = s /\ EntersCleanup(s)
  <2>1. /\ ledger[id].marker = "none" /\ ledger'[id].status = "blocked"
        /\ ledger[id].status # "split" /\ call'[s].pc = "probe"
    <3>1. ledger[id].marker \in Markers
      BY <1>0, <1>1 DEF Typed, TypeOK, Entries
    <3>. QED  BY <1>6, <3>1 DEF EntersCleanup, StopIntent, Stopping, Markers, id
  <2>2. ASSUME NEW v \in Slots, At(v, "split_request", "add")', call'[v].id = id
        PROVE  FALSE
    <3>1. v # s
      BY <2>1, <2>2 DEF At
    <3>2. At(v, "split_request", "add") /\ call[v].id = id
      BY <2>2, <3>1 DEF Stepped, Advance, At
    <3>. QED  BY <1>0, <2>1, <3>2 DEF AddInv, Splitting
  <2>. QED  BY <1>1, <2>1, <2>2
<1>7. CASE u = s /\ ~CleanupFlow(s) /\ ~EntersCleanup(s)
  <2>1. ~Cleaning(s)'
    <3>1. Flow(s) /\ call'[s] # Idle
      BY <1>1, <1>7 DEF Stepped
    <3>. QED  BY <1>7, <3>1 DEF Flow, SpawnFlow, Cleaning
  <2>. QED  BY <1>7, <2>1 DEF Stopping
<1>. QED  BY <1>4, <1>5, <1>6, <1>7

\* A handler that goes on keeps the invariants.
LEMMA StepLate ==
  ASSUME IInv, LateInv, NEW s \in Slots, Step(s)
  PROVE  LateInv'
<1>1. PathInv /\ HeldInv /\ KidFree /\ SweepHeld /\ TakeInv /\ StopInv
  BY DEF LateInv
<1>2. Stepped(s)
  BY <1>1, StepStepped
<1>3. PathInv' /\ HeldInv' /\ KidFree' /\ SweepHeld' /\ TakeInv' /\ StopInv'
  BY <1>1, <1>2, StepPath, StepHeld, StepArchived, StepTake, StepStop
<1>. QED  BY <1>3 DEF LateInv

LEMMA StepWInv ==
  ASSUME IInv, WInv, NEW s \in Slots, Step(s)
  PROVE  WInv'
<1>1. /\ LateInv /\ PathInv /\ HeldInv /\ SweepHeld /\ TakeInv /\ SplitInv
      /\ PlaceFresh /\ PlaceOwn /\ BriefInv /\ SpawnInv /\ CleanInv /\ OwnedInv /\ OrphanInv
      /\ OneInv /\ PairInv /\ GoneInv /\ KidClear /\ ReadyInv
  BY DEF WInv, LateInv
<1>2. Stepped(s)
  BY <1>1, StepStepped
<1>3. LateInv' /\ SplitInv' /\ PlaceFresh' /\ PlaceOwn' /\ BriefInv'
  BY <1>1, <1>2, StepLate, StepSplitting, StepPlace
<1>4. SpawnInv' /\ CleanInv' /\ OwnedInv' /\ OrphanInv'
  BY <1>1, <1>2, StepSpawn, StepClean, StepOwned, StepOrphan
<1>5. OneInv' /\ PairInv' /\ GoneInv' /\ KidClear' /\ ReadyInv'
  BY <1>1, <1>2, StepOne, StepPair, StepGone, StepKid, StepReady
<1>. QED  BY <1>3, <1>4, <1>5 DEF WInv

-----------------------------------------------------------------------------
(* The other steps *)

LEMMA InitLate == Init => LateInv
<1>. SUFFICES ASSUME Init PROVE LateInv
  OBVIOUS
<1>1. \A s \in Slots : call[s] = Idle
  BY DEF Init
<1>2. PathInv /\ HeldInv /\ KidFree /\ SweepHeld /\ TakeInv /\ StopInv
  BY <1>1 DEF PathInv, Path, HeldInv, KidFree, SweepHeld, TakeInv, StopInv, Stopping, Cleaning,
     At, Idle
<1>. QED  BY <1>2 DEF LateInv

LEMMA InitWInv == Init => WInv
<1>. SUFFICES ASSUME Init PROVE WInv
  OBVIOUS
<1>1. /\ \A s \in Slots : call[s] = Idle
      /\ \A id \in Ids : windows[id] = {} /\ worktree[id] = 0
      /\ briefed = {} /\ lives = 0
      /\ \A id \in Ids : ledger[id].status \in {"absent", "unstarted"}
  BY DEF Init, Unstarted, Absent
<1>2. SplitInv /\ SpawnInv /\ CleanInv
  BY <1>1 DEF SplitInv, SpawnInv, CleanInv, Cleaned, Cleaning, Idle
<1>3. \A id \in Ids, g \in Lives : ~Place(id, g)
  BY <1>1 DEF Place, Idle, Lives
<1>4. PlaceFresh /\ PlaceOwn /\ BriefInv
  BY <1>1, <1>3 DEF PlaceFresh, PlaceOwn, BriefInv, Idle
<1>5. OwnedInv /\ OrphanInv
  BY <1>1 DEF OwnedInv, OrphanInv, NoBrief, Active, At, Idle
<1>6. OneInv /\ PairInv /\ GoneInv /\ KidClear /\ ReadyInv
  BY <1>1 DEF OneInv, PairInv, GoneInv, KidClear, ReadyInv, Clear, Idle
<1>. QED  BY <1>2, <1>4, <1>5, <1>6, InitLate DEF WInv

\* A handler that is called changes nothing but its locals, and the number of lives.
Starts(s, k) ==
  /\ call[s] = Idle /\ call'[s] = k /\ \A u \in Slots \ {s} : call'[u] = call[u]
  /\ k.op \in OrchOps \cup NotifyOps /\ ~k.failed
  /\ k.pc \in {"worktree", "mark", "update", "ids", "retry", "file", "sweep"}
  /\ k.pc = "retry" => k.op \in {"split", "split_request"}
  /\ k.op = "archive" /\ k.pc = "sweep" => ledger[k.id].status = "absent" /\ IsArchived(k.id)
  /\ k.op = "spawn" => /\ k.pc = "worktree" /\ ledger[k.id].status = "unstarted" /\ k.id \in Ids
                       /\ k.g = lives + 1 /\ lives' = lives + 1
  /\ k.op # "spawn" => lives' = lives
  /\ ledger' = ledger /\ archive' = archive /\ windows' = windows /\ worktree' = worktree
  /\ briefed' = briefed /\ life' = life /\ harm' = harm

LEMMA BeganStarts ==
  ASSUME Typed, NEW s \in Slots, Began(s)
  PROVE  \E k : Starts(s, k)
<1>1. PICK op \in OrchOps \cup NotifyOps, id \in Ids, pc \in PCs, g \in 0..MaxLives,
           prev \in Entries : Called(s, op, id, pc, g, prev)
  BY DEF Began
<1>. DEFINE k == [Idle EXCEPT !.op = op, !.id = id, !.pc = pc, !.g = g, !.prev = prev]
<1>2. k.op = op /\ k.pc = pc /\ k.g = g /\ k.id = id /\ k.prev = prev /\ ~k.failed
  BY DEF Idle
<1>3. call' = [call EXCEPT ![s] = k] /\ call[s] = Idle
  BY <1>1 DEF Called, Began
<1>. HIDE DEF k
<1>4. call'[s] = k /\ \A u \in Slots \ {s} : call'[u] = call[u]
  BY <1>3 DEF Typed, TypeOK
<1>5. /\ ledger' = ledger /\ archive' = archive /\ windows' = windows /\ worktree' = worktree
      /\ briefed' = briefed /\ life' = life /\ harm' = harm
  BY <1>1 DEF Called, disk, world, history
<1>6. /\ pc \in {"worktree", "mark", "update", "ids", "retry", "file", "sweep"}
      /\ pc = "retry" => op \in {"split", "split_request"}
      /\ op = "archive" /\ pc = "sweep" => ledger[id].status = "absent" /\ IsArchived(id)
      /\ op = "spawn" => /\ pc = "worktree" /\ ledger[id].status = "unstarted"
                         /\ g = lives + 1 /\ lives' = lives + 1
      /\ op # "spawn" => lives' = lives
  BY <1>1 DEF Called, SpawnBegin
<1>7. Starts(s, k)
  BY <1>2, <1>3, <1>4, <1>5, <1>6 DEF Starts
<1>. QED  BY <1>7

LEMMA BeganLate ==
  ASSUME IInv, LateInv, NEW s \in Slots, Began(s)
  PROVE  LateInv'
<1>0. /\ PathInv /\ HeldInv /\ KidFree /\ SweepHeld /\ TakeInv /\ StopInv /\ Typed
  BY DEF LateInv, IInv
<1>1. PICK k : Starts(s, k)
  BY <1>0, BeganStarts
<1>2. PathInv'
  BY <1>0, <1>1 DEF Starts, PathInv, Path, SpawnPCs, OrchOps, NotifyOps
<1>3. HeldInv'
  BY <1>0, <1>1 DEF Starts, HeldInv, Held, Cleaning, Orch, Over, CompletionRecorded, IsArchived
<1>4. KidFree' /\ SweepHeld'
  BY <1>0, <1>1 DEF Starts, KidFree, SweepHeld, Swept, At, IsArchived
<1>5. TakeInv'
  BY <1>0, <1>1 DEF Starts, TakeInv, Taking
<1>6. StopInv'
  BY <1>0, <1>1 DEF Starts, StopInv, Stopping, Cleaning, At
<1>. QED  BY <1>2, <1>3, <1>4, <1>5, <1>6 DEF LateInv

LEMMA BeganWInv ==
  ASSUME IInv, WInv, NEW s \in Slots, Began(s)
  PROVE  WInv'
<1>0. /\ LateInv /\ SplitInv /\ PlaceFresh /\ PlaceOwn /\ BriefInv /\ SpawnInv /\ CleanInv
      /\ OwnedInv /\ OrphanInv /\ OneInv /\ PairInv /\ GoneInv /\ KidClear /\ ReadyInv /\ Typed
  BY DEF WInv, IInv
<1>1. PICK k : Starts(s, k)
  BY <1>0, BeganStarts
<1>2. LateInv' /\ SplitInv'
  BY <1>0, <1>1, BeganLate DEF Starts, SplitInv, Cleaning, Bad
<1>3. lives \in Nat /\ briefed \subseteq Lives /\ Lives \subseteq Nat
  BY <1>0, MaxLivesAssumption DEF Typed, TypeOK, Lives
<1>4. ASSUME NEW id \in Ids, NEW g \in Lives, Place(id, g)'
      PROVE  Place(id, g) \/ (k.op = "spawn" /\ id = k.id /\ g = lives + 1)
  <2>1. CASE g \in windows'[id] \/ worktree'[id] = g
    BY <1>1, <2>1 DEF Starts, Place
  <2>2. ASSUME NEW u \in Slots, call'[u].op = "spawn", call'[u].id = id, call'[u].g = g
        PROVE  Place(id, g) \/ (k.op = "spawn" /\ id = k.id /\ g = lives + 1)
    BY <1>1, <2>2 DEF Starts, Place
  <2>. QED  BY <1>4, <2>1, <2>2 DEF Place
<1>5. PlaceFresh' /\ PlaceOwn'
  <2>1. PlaceFresh'
    BY <1>0, <1>1, <1>3, <1>4 DEF Starts, PlaceFresh
  <2>2. \A id \in Ids, g \in Lives : Place(id, g) => g # lives + 1
    BY <1>0, <1>3 DEF PlaceFresh
  <2>3. PlaceOwn'
    <3>. SUFFICES ASSUME NEW i \in Ids, NEW j \in Ids, NEW g \in Lives, Place(i, g)', Place(j, g)'
                  PROVE  i = j
      BY DEF PlaceOwn
    <3>1. CASE g = lives + 1
      BY <1>4, <2>2, <3>1
    <3>2. CASE g # lives + 1
      BY <1>0, <1>4, <3>2 DEF PlaceOwn
    <3>. QED  BY <3>1, <3>2
  <2>. QED  BY <2>1, <2>3
<1>6. BriefInv'
  <2>1. \A h \in briefed : h <= lives /\ h # lives + 1
    BY <1>0, <1>3 DEF BriefInv
  <2>. QED  BY <1>0, <1>1, <1>3, <2>1 DEF Starts, BriefInv
<1>7. SpawnInv'
  <2>. SUFFICES ASSUME NEW u \in Slots, call'[u].op = "spawn" PROVE Spawning(u)'
    BY DEF SpawnInv
  <2>1. CASE u # s
    BY <1>0, <1>1, <2>1 DEF Starts, SpawnInv, Spawning, NoBrief, Bad, Neat
  <2>2. CASE u = s
    <3>1. NoBrief(k.id) \/ Bad(k.id)
      BY <1>0, <1>1, <2>2 DEF Starts, OrphanInv, Active
    <3>. QED  BY <1>1, <2>2, <3>1 DEF Starts, Spawning, NoBrief, Bad
  <2>. QED  BY <2>1, <2>2
<1>8. CleanInv'
  BY <1>0, <1>1 DEF Starts, CleanInv, Cleaned, Bad
<1>9. OwnedInv' /\ OrphanInv'
  BY <1>0, <1>1 DEF Starts, OwnedInv, OrphanInv, NoBrief, At, Bad
<1>10. OneInv' /\ PairInv' /\ GoneInv' /\ KidClear'
  BY <1>0, <1>1 DEF Starts, OneInv, PairInv, GoneInv, KidClear, Clear, Bad, Neat
<1>11. ReadyInv'
  <2>1. \A id \in Ids : Raising(id) => Raising(id)'
    BY <1>1 DEF Starts, Raising, Idle
  <2>2. \A id \in Ids : Clear(id) => Clear(id)'
    BY <1>1 DEF Starts, Clear
  <2>. QED  BY <1>0, <1>1, <2>1, <2>2 DEF Starts, ReadyInv
<1>. QED
  BY <1>2, <1>5, <1>6, <1>7, <1>8, <1>9, <1>10, <1>11 DEF WInv

\* create_task takes a number that is in neither ledger nor archive.
Creates(new) ==
  /\ new \in Ids /\ ledger[new].status = "absent" /\ ledger[new].marker = "none"
  /\ ~IsArchived(new)
  /\ ledger'[new] = Unstarted /\ \A id \in Ids \ {new} : ledger'[id] = ledger[id]
  /\ UNCHANGED <<archive, windows, worktree, lives, briefed, life, harm, call>>

LEMMA CreateCreates ==
  ASSUME IInv, CreateTask
  PROVE  \E new \in Ids : Creates(new)
<1>1. PICK new \in Ids : FirstFree(new) /\ Set(new, Unstarted)
  BY DEF CreateTask
<1>2. Creates(new)
  BY <1>1 DEF CreateTask, FirstFree, FreeIds, Set, IInv, MarkerInv, Typed, TypeOK, Creates, world,
     agents, history
<1>. QED  BY <1>2

LEMMA CreateLate ==
  ASSUME IInv, LateInv, NEW new \in Ids, Creates(new)
  PROVE  LateInv'
<1>0. /\ PathInv /\ HeldInv /\ KidFree /\ SweepHeld /\ TakeInv /\ StopInv
      /\ \A s \in Slots : call[s].id \in Ids
  BY DEF LateInv, IInv, Typed, TypeOK, Calls
<1>1. PathInv' /\ KidFree'
  BY <1>0 DEF Creates, PathInv, Path, KidFree, At, IsArchived
<1>2. HeldInv'
  <2>1. \A id \in Ids : Over(id) => Over(id)'
    BY DEF Creates, Over, CompletionRecorded, IsArchived
  <2>2. \A id \in Ids : ledger[id].status \notin Waiting => ledger'[id].status \notin Waiting
    BY DEF Creates, Waiting, Unstarted, Absent
  <2>. QED  BY <1>0, <2>1, <2>2 DEF Creates, HeldInv, Held, Cleaning, Orch
<1>3. SweepHeld'
  BY <1>0 DEF Creates, SweepHeld, Swept, At, IsArchived
<1>4. TakeInv'
  BY <1>0 DEF Creates, TakeInv, Taking
<1>5. StopInv'
  <2>1. Unstarted.status # "in_progress"
    BY DEF Unstarted, Absent
  <2>. QED  BY <1>0, <2>1 DEF Creates, StopInv, Stopping, Cleaning, At
<1>. QED  BY <1>0, <1>1, <1>2, <1>3, <1>4, <1>5 DEF LateInv

LEMMA CreateWInv ==
  ASSUME IInv, WInv, NEW new \in Ids, Creates(new)
  PROVE  WInv'
<1>0. /\ LateInv /\ SplitInv /\ PlaceFresh /\ PlaceOwn /\ BriefInv /\ SpawnInv /\ CleanInv
      /\ OwnedInv /\ OrphanInv /\ OneInv /\ PairInv /\ GoneInv /\ KidClear /\ ReadyInv
      /\ \A s \in Slots : call[s].id \in Ids
  BY DEF WInv, IInv, Typed, TypeOK, Calls
<1>1. LateInv' /\ SplitInv'
  BY <1>0, CreateLate DEF Creates, SplitInv, Cleaning, Splitting, Bad
<1>2. PlaceFresh' /\ PlaceOwn' /\ BriefInv'
  BY <1>0 DEF Creates, PlaceFresh, PlaceOwn, BriefInv, Place
<1>3. SpawnInv' /\ CleanInv'
  BY <1>0 DEF Creates, SpawnInv, Spawning, CleanInv, Cleaned, NoBrief, Active, Bad, Neat
<1>4. OwnedInv' /\ OrphanInv'
  <2>1. Unstarted.status \notin Active
    BY DEF Unstarted, Absent, Active
  <2>2. OwnedInv'
    BY <1>0, <2>1 DEF Creates, OwnedInv, At, Active
  <2>3. OrphanInv'
    BY <1>0, <2>1 DEF Creates, OrphanInv, NoBrief, Active, Bad
  <2>. QED  BY <2>2, <2>3
<1>5. OneInv' /\ GoneInv' /\ KidClear'
  <2>1. Unstarted.status \notin {"absent", "completed"}
    BY DEF Unstarted, Absent
  <2>. QED  BY <1>0, <2>1 DEF Creates, OneInv, GoneInv, KidClear, Clear, Bad, Neat
<1>6. PairInv' /\ ReadyInv'
  <2>1. Clear(new) \/ (Bad(new) /\ ~Neat(new) /\ harm[new] # {})
    BY <1>0 DEF Creates, GoneInv, Bad, Neat
  <2>2. PairInv'
    BY <1>0, <2>1 DEF Creates, PairInv, Clear, Neat
  <2>3. ReadyInv'
    BY <1>0, <2>1 DEF Creates, ReadyInv, Clear, Raising
  <2>. QED  BY <2>2, <2>3
<1>. QED  BY <1>1, <1>2, <1>3, <1>4, <1>5, <1>6 DEF WInv

LEMMA CrashLate ==
  ASSUME Crash
  PROVE  LateInv'
<1>1. \A s \in Slots : call'[s] = Idle
  BY DEF Crash
<1>. QED
  BY <1>1 DEF LateInv, PathInv, Path, HeldInv, KidFree, SweepHeld, TakeInv, StopInv, Stopping,
     Cleaning, At, Idle

LEMMA CrashWInv ==
  ASSUME IInv, WInv, Crash
  PROVE  WInv'
<1>0. /\ PlaceFresh /\ PlaceOwn /\ BriefInv /\ TakeInv /\ OwnedInv /\ OrphanInv /\ OneInv
      /\ PairInv /\ GoneInv /\ ReadyInv /\ harm \in [Ids -> SUBSET Harms]
  BY DEF WInv, LateInv, IInv, Typed, TypeOK
<1>1. /\ \A s \in Slots : call'[s] = Idle
      /\ ledger' = ledger /\ windows' = windows /\ worktree' = worktree /\ lives' = lives
      /\ briefed' = briefed
      /\ \A id \in Ids : harm'[id] = harm[id] \cup {h \in {"left"} : Halfway(id)}
  BY DEF Crash, world, agents
<1>2. \A id \in Ids : /\ Bad(id) => Bad(id)'
                      /\ Neat(id)' => Neat(id)
                      /\ harm'[id] = {} => harm[id] = {} /\ ~Halfway(id)
  BY <1>1 DEF Bad, Neat
<1>3. SplitInv' /\ SpawnInv' /\ CleanInv' /\ KidClear'
  BY <1>1 DEF SplitInv, SpawnInv, CleanInv, Cleaned, KidClear, Cleaning, Idle
<1>4. PlaceFresh' /\ PlaceOwn' /\ BriefInv'
  BY <1>0, <1>1 DEF PlaceFresh, PlaceOwn, BriefInv, Place, Idle
<1>5. OwnedInv' /\ OrphanInv'
  BY <1>0, <1>1, <1>2 DEF OwnedInv, OrphanInv, NoBrief, At, Idle
<1>6. OneInv' /\ PairInv' /\ GoneInv'
  BY <1>0, <1>1, <1>2 DEF OneInv, PairInv, GoneInv, Clear
<1>7. ReadyInv'
  <2>. SUFFICES ASSUME NEW id \in Ids, ledger[id].status = "unstarted", harm'[id] = {}
                PROVE  Clear(id)'
    BY <1>1 DEF ReadyInv
  <2>1. ~Raising(id)
    BY <1>2 DEF Raising, Halfway
  <2>. QED  BY <1>0, <1>1, <1>2, <2>1 DEF ReadyInv, Clear
<1>. QED  BY <1>3, <1>4, <1>5, <1>6, <1>7, CrashLate DEF WInv

LEMMA LostLate ==
  ASSUME LateInv, UNCHANGED <<ledger, archive, life, harm, call>>
  PROVE  LateInv'
BY DEF LateInv, PathInv, Path, HeldInv, Held, KidFree, SweepHeld, Swept, TakeInv, Taking,
   StopInv, Stopping, Cleaning, At, Orch, Over, CompletionRecorded, IsArchived

\* Windows that disappear, or nothing that happens, do no harm.
LEMMA LostWInv ==
  ASSUME IInv, WInv, UNCHANGED <<ledger, archive, worktree, lives, briefed, life, harm, call>>,
         \A id \in Ids : windows'[id] \subseteq windows[id]
  PROVE  WInv'
<1>0. /\ LateInv /\ SplitInv /\ PlaceFresh /\ PlaceOwn /\ BriefInv /\ SpawnInv /\ CleanInv
      /\ OwnedInv /\ OrphanInv /\ OneInv /\ PairInv /\ GoneInv /\ KidClear /\ ReadyInv
      /\ \A s \in Slots : call[s].id \in Ids
      /\ \A s \in Slots : call[s].op = "split" /\ call[s].pc \in {"parent", "undo"}
                             => call[s].kid \in Ids
  BY DEF WInv, IInv, Typed, TypeOK, Calls, Shape
<1>1. \A id \in Ids : Clear(id) => Clear(id)'
  BY DEF Clear
<1>2. \A id \in Ids : NoBrief(id) => NoBrief(id)'
  BY DEF NoBrief
<1>3. LateInv' /\ SplitInv'
  BY <1>0, LostLate DEF SplitInv, Cleaning, Bad
<1>4. PlaceFresh' /\ PlaceOwn' /\ BriefInv'
  BY <1>0 DEF PlaceFresh, PlaceOwn, BriefInv, Place
<1>5. SpawnInv'
  BY <1>0 DEF SpawnInv, Spawning, NoBrief, Bad, Neat
<1>6. CleanInv'
  BY <1>0 DEF CleanInv, Cleaned, Bad
<1>7. OwnedInv' /\ OrphanInv'
  BY <1>0, <1>2 DEF OwnedInv, OrphanInv, At, Bad
<1>8. OneInv' /\ PairInv' /\ GoneInv'
  BY <1>0, <1>1 DEF OneInv, PairInv, GoneInv, Bad, Neat
<1>9. KidClear'
  BY <1>0 DEF KidClear, Clear, Bad
<1>10. ReadyInv'
  BY <1>0, <1>1 DEF ReadyInv, Raising
<1>. QED  BY <1>3, <1>4, <1>5, <1>6, <1>7, <1>8, <1>9, <1>10 DEF WInv

LEMMA NextLate ==
  ASSUME IInv, LateInv, [Next]_vars
  PROVE  LateInv'
<1>1. Typed
  BY DEF IInv
<1>2. CASE \E s \in Slots : Begins(s) \/ Step(s)
  BY <1>1, <1>2, BeginsBegan, BeganLate, StepLate
<1>3. CASE CreateTask
  BY <1>3, CreateCreates, CreateLate
<1>4. CASE Crash
  BY <1>4, CrashLate
<1>5. CASE WindowLost \/ UNCHANGED vars
  BY <1>5, LostLate DEF WindowLost, vars, disk, history
<1>. QED  BY <1>2, <1>3, <1>4, <1>5 DEF Next

LEMMA NextWInv ==
  ASSUME IInv, WInv, [Next]_vars
  PROVE  WInv'
<1>1. Typed /\ windows \in [Ids -> SUBSET Lives]
  BY DEF IInv, Typed, TypeOK
<1>2. CASE \E s \in Slots : Begins(s) \/ Step(s)
  BY <1>1, <1>2, BeginsBegan, BeganWInv, StepWInv
<1>3. CASE CreateTask
  BY <1>3, CreateCreates, CreateWInv
<1>4. CASE Crash
  BY <1>4, CrashWInv
<1>5. CASE WindowLost \/ UNCHANGED vars
  <2>1. UNCHANGED <<ledger, archive, worktree, lives, briefed, life, harm, call>>
    BY <1>5 DEF WindowLost, vars, disk, world, agents, history
  <2>2. \A id \in Ids : windows'[id] \subseteq windows[id]
    BY <1>1, <1>5 DEF WindowLost, Close, vars, world
  <2>. QED  BY <2>1, <2>2, LostWInv
<1>. QED  BY <1>2, <1>3, <1>4, <1>5 DEF Next

-----------------------------------------------------------------------------
(* What is proved of the specification, for one call of the orchestrator agent at a time *)

\* AssignedKeepsWindow: no stop, completion or archiving call kills the window of a worker
\* that took the task after what the call was made for, whatever crashes and fails
\* meanwhile, and however often a worker asks for one split.
THEOREM AssignedStays ==
  ASSUME OneOrchCall
  PROVE  Spec => AssignedKeepsWindow
<1>. DEFINE Excused(s, id) == \/ call[s].op = "spawn" /\ call[s].g = life[id]
                              \/ call[s].prev.branch = life[id]
                              \/ call[s].intent = "split_request"
            Lost(s, id) == /\ life[id] \in windows[id] \ windows'[id]
                           /\ ledger[id].status = "in_progress"
                           /\ call'[s] # call[s] /\ "returned" \notin harm[id]
<1>1. ASSUME IInv, LateInv, [Next]_vars, NEW s \in Slots, NEW id \in Ids, Lost(s, id)
      PROVE  Excused(s, id)
  <2>0. /\ Typed /\ MarkerInv /\ PathInv /\ HeldInv /\ SweepHeld /\ TakeInv /\ StopInv
        /\ call[s].intent \in {"stop", "completed", "split_request"}
    BY <1>1 DEF IInv, LateInv, Typed, TypeOK, Calls
  <2>1. Step(s)
    <3>1. ASSUME NEW u \in Slots, Begins(u) PROVE windows' = windows
      BY <2>0, <3>1, BeginsBegan, BeganStarts DEF Starts
    <3>2. ASSUME NEW u \in Slots, Step(u) PROVE u = s
      BY <1>1, <2>0, <3>2, StepAdvances DEF Advance
    <3>3. CreateTask \/ Crash \/ UNCHANGED vars => windows' = windows
      BY DEF CreateTask, Crash, vars, world
    <3>4. WindowLost => call' = call
      BY DEF WindowLost
    <3>. QED  BY <1>1, <3>1, <3>2, <3>3, <3>4 DEF Next
  <2>2. /\ id = call[s].id
        /\ At(s, "spawn", "undo_kill") \/ call[s].pc = "kill" \/ At(s, "archive", "sweep")
    <3>1. World(s)
      BY <2>0, <2>1, StepWorld
    <3>. QED  BY <1>1, <3>1 DEF World
  <2>3. CASE At(s, "spawn", "undo_kill")
    BY <2>0, <2>2, <2>3 DEF TakeInv, Taking, At
  <2>4. CASE call[s].pc = "kill"
    <3>1. Held(s)
      BY <2>0, <2>4 DEF HeldInv, Cleaning
    <3>2. call[s].intent # "completed"
      BY <1>1, <2>0, <2>2, <3>1 DEF Held, Over, CompletionRecorded, MarkerInv
    <3>3. call[s].intent # "stop"
      BY <1>1, <2>0, <2>2, <2>4 DEF StopInv, Stopping, Cleaning
    <3>. QED  BY <2>0, <3>2, <3>3
  <2>5. CASE At(s, "archive", "sweep")
    BY <1>1, <2>0, <2>2, <2>5 DEF SweepHeld, Swept
  <2>. QED  BY <2>2, <2>3, <2>4, <2>5
<1>2. IInv /\ LateInv /\ [Next]_vars => IInv' /\ LateInv'
  BY NextInv, NextLate
<1>3. IInv /\ LateInv /\ [Next]_vars
        => \A s \in Slots, id \in Ids : Lost(s, id) => Excused(s, id)
  BY <1>1
<1>. QED  BY <1>2, <1>3, InitInv, InitLate, PTL DEF Spec, AssignedKeepsWindow

LEMMA WorkersKept ==
  ASSUME OneOrchCall
  PROVE  Spec => [](IInv /\ WInv)
<1>1. IInv /\ WInv /\ [Next]_vars => IInv' /\ WInv'
  BY NextInv, NextWInv
<1>. QED  BY <1>1, InitInv, InitWInv, PTL DEF Spec

\* OneWindow: whatever fails and crashes, a task has at most one window, because a spawn
\* finds the path of the worktree taken while another one's window is there.  Tasks are
\* left out that a rollback left a window behind of, and those that two split requests at
\* a time, or a number given out again, harmed.
THEOREM WindowIsOne ==
  ASSUME OneOrchCall
  PROVE  Spec => []OneWindow
<1>1. IInv /\ WInv => OneWindow
  <2>. SUFFICES ASSUME IInv, WInv, NEW id \in Ids, Neat(id)
                PROVE  Cardinality(windows[id]) <= 1
    BY DEF OneWindow, Neat
  <2>1. windows[id] = {} \/ Cardinality(windows[id]) = 1
    BY OneOrNone DEF IInv, WInv
  <2>. QED  BY <2>1, FS_EmptySet
<1>. QED  BY <1>1, WorkersKept, PTL

\* NoInvisibleOrphan: a worker that got its task and still has its window or its worktree
\* is the worker of a task that is shown as active and assigned, through crashes, failing
\* commands and rollbacks, and lost windows.
THEOREM NoOrphan ==
  ASSUME OneOrchCall
  PROVE  Spec => []NoInvisibleOrphan
<1>1. IInv /\ WInv => NoInvisibleOrphan
  <2>. SUFFICES ASSUME IInv, WInv, NEW id \in Ids, NEW g \in briefed,
                       harm[id] \subseteq {"left", "adrift"},
                       g \in windows[id] \/ worktree[id] = g
                PROVE  ledger[id].status \in Active /\ ledger[id].owned
    BY DEF NoInvisibleOrphan
  <2>1. ~NoBrief(id) /\ ~Bad(id)
    BY DEF NoBrief, Bad
  <2>. QED  BY <2>1 DEF WInv, OrphanInv, OwnedInv
<1>. QED  BY <1>1, WorkersKept, PTL

\* UnstartedIsClean: a task that went back to unstarted left no window and no worktree that
\* the next spawn would run into, whatever step of the spawn or of the cleanup failed and
\* wherever the server crashed, but for what the property names.
THEOREM UnstartedClean ==
  ASSUME OneOrchCall
  PROVE  Spec => []UnstartedIsClean
<1>1. IInv /\ WInv => UnstartedIsClean
  <2>. SUFFICES ASSUME WInv, NEW id \in Ids, Quiet(id), ledger[id].status = "unstarted",
                       harm[id] = {}
                PROVE  windows[id] = {} /\ worktree[id] = 0
    BY DEF UnstartedIsClean
  <2>1. ~Raising(id)
    BY DEF Quiet, Raising, Idle
  <2>. QED  BY <2>1 DEF WInv, ReadyInv, Clear
<1>. QED  BY <1>1, WorkersKept, PTL
=============================================================================
