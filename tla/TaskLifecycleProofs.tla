------------------------- MODULE TaskLifecycleProofs -------------------------
(***************************************************************************)
(* Theorems about TaskLifecycle, for any number of tasks, workers,         *)
(* handlers in flight, failures and crashes.                               *)
(*                                                                         *)
(* What is recorded as completed stays so because every writer of the      *)
(* ledger checks the status, or the marker, under which it began.  Two do  *)
(* not: a split_request puts back the entry it read when its children      *)
(* cannot be added, and split_task deletes its children without a look.    *)
(* The first is safe because its own marker keeps everybody out until      *)
(* then; the second because only calls of the orchestrator agent start     *)
(* anything on an unstarted task, and it makes one at a time.              *)
(***************************************************************************)
EXTENDS TaskLifecycle, FiniteSetTheorems, TLAPS

\* The orchestrator agent waits for an answer before it makes the next call.
OneOrchCall == OrchCalls <= 1

Orch(s) == call[s].op \in OrchOps
OrchOne == \A s, u \in Slots : Orch(s) /\ Orch(u) => s = u

\* What a handler's locals hold at its control points.
Shape == \A s \in Slots :
  /\ call[s].op = "spawn" => /\ call[s].g \in Lives /\ call[s].intent = "stop"
                             /\ call[s].pc # "retry"
  /\ call[s].pc \in {"add", "parent", "undo"} => call[s].kid \in Ids
  /\ At(s, "split_request", "update") => call[s].kid \in Ids

Typed == TypeOK /\ Shape

MarkerInv == \A id \in Ids : ledger[id].marker # "none" => ledger[id].status = "blocked"

\* An entry that nobody but its split_request changes, unless to finish the split.
Splitting(e) == e.status = "split" \/ (e.status = "blocked" /\ e.marker = "split_request")

AddInv == \A s \in Slots : At(s, "split_request", "add") =>
  /\ call[s].prev.marker = "none" /\ call[s].prev.status \in Active
  /\ Splitting(ledger[call[s].id])
AddOne == \A s, u \in Slots :
  /\ At(s, "split_request", "add") /\ At(u, "split_request", "add")
  /\ call[s].id = call[u].id /\ ledger[call[s].id].status = "blocked"
  => s = u

\* Nobody starts the child of a split_task while its parent is in question.
KidInv == \A s \in Slots :
  call[s].op = "split" /\ call[s].pc \in {"parent", "undo"} => ledger[call[s].kid] = Unstarted
PrevInv == \A s \in Slots :
  call[s].op = "split" /\ call[s].pc \in {"ids", "add", "parent"}
    => call[s].prev.status \in {"unstarted", "in_progress", "blocked"}

\* Nobody starts a task that is archived while its remains are swept.
SweepInv == \A s \in Slots :
  At(s, "archive", "sweep") => ledger[call[s].id].status \in {"absent", "unstarted"}

IInv == /\ Typed /\ OrchOne /\ MarkerInv /\ AddInv /\ AddOne /\ KidInv /\ PrevInv /\ SweepInv

-----------------------------------------------------------------------------
(* What a step does to the handlers' locals *)

\* One handler moves on or returns.  The clauses on control points say which actions
\* lead to those that the invariants speak of.
Advance(s) ==
  /\ call' \in [Slots -> Calls]
  /\ \A u \in Slots \ {s} : call'[u] = call[u]
  /\ \/ call'[s] = Idle
     \/ /\ call'[s].op = call[s].op /\ call'[s].id = call[s].id /\ call'[s].g = call[s].g
        /\ call[s].op = "spawn" => call'[s].intent = call[s].intent
        /\ call'[s].pc # "retry"
        /\ call'[s].pc \in {"add", "parent", "undo"} \/ At(s, "split_request", "update")'
             => call'[s].kid \in Ids
        /\ At(s, "split_request", "add")' => NotifySplit(s)
        /\ call'[s].op = "split" /\ call'[s].pc = "parent" => SplitAdd(s)
        /\ call'[s].op = "split" /\ call'[s].pc = "undo" => SplitParent(s) /\ UNCHANGED ledger
        /\ call'[s].op = "split" /\ call'[s].pc \in {"ids", "add", "parent"}
             => call[s].pc \in {"ids", "add"} /\ call'[s].prev = call[s].prev
        /\ At(s, "archive", "sweep")' => ArchiveFile(s)

\* Control points that need no more than that the handler got there.
Plain == PCs \ {"add", "parent", "undo", "update", "ids", "sweep", "retry"}

LEMMA IdleType == Absent \in Entries /\ Unstarted \in Entries /\ Idle \in Calls
<1>1. Absent \in Entries
  BY MaxLivesAssumption DEF Absent, Entries, Statuses, Markers
<1>2. Unstarted \in Entries
  BY <1>1 DEF Unstarted, Entries, Statuses
<1>3. 0 \in 0..MaxLives /\ 0 \in 0..NumIds /\ 1 \in Ids
  BY MaxLivesAssumption, NumIdsAssumption DEF Ids
<1>. QED  BY <1>1, <1>2, <1>3 DEF Idle, Calls, PCs

LEMMA DoneAdvances ==
  ASSUME Typed, NEW s \in Slots, Done(s)
  PROVE  Advance(s)
BY IdleType DEF Typed, TypeOK, Done, Advance

LEMMA GotoMoves ==
  ASSUME Typed, NEW s \in Slots, NEW p \in PCs,
         Goto(s, p) \/ GotoFailed(s, p)
  PROVE  /\ call' \in [Slots -> Calls] /\ \A u \in Slots \ {s} : call'[u] = call[u]
         /\ call'[s].pc = p
         /\ call'[s].op = call[s].op /\ call'[s].id = call[s].id /\ call'[s].g = call[s].g
         /\ call'[s].prev = call[s].prev /\ call'[s].intent = call[s].intent
         /\ call'[s].reason = call[s].reason /\ call'[s].kid = call[s].kid
<1>1. call[s] \in Calls /\ call \in [Slots -> Calls]
  BY DEF Typed, TypeOK
<1>2. CASE Goto(s, p)
  <2>. DEFINE k == [call[s] EXCEPT !.pc = p]
  <2>1. k \in Calls
    BY <1>1 DEF Calls
  <2>2. /\ k.pc = p /\ k.op = call[s].op /\ k.id = call[s].id /\ k.g = call[s].g
        /\ k.prev = call[s].prev /\ k.intent = call[s].intent /\ k.kid = call[s].kid
        /\ k.reason = call[s].reason
    BY <1>1 DEF Calls
  <2>3. call' = [call EXCEPT ![s] = k]
    BY <1>2 DEF Goto
  <2>. HIDE DEF k
  <2>. QED  BY <1>1, <2>1, <2>2, <2>3
<1>3. CASE GotoFailed(s, p)
  <2>. DEFINE k == [call[s] EXCEPT !.pc = p, !.failed = TRUE]
  <2>1. k \in Calls
    BY <1>1 DEF Calls
  <2>2. /\ k.pc = p /\ k.op = call[s].op /\ k.id = call[s].id /\ k.g = call[s].g
        /\ k.prev = call[s].prev /\ k.intent = call[s].intent /\ k.kid = call[s].kid
        /\ k.reason = call[s].reason
    BY <1>1 DEF Calls
  <2>3. call' = [call EXCEPT ![s] = k]
    BY <1>3 DEF GotoFailed
  <2>. HIDE DEF k
  <2>. QED  BY <1>1, <2>1, <2>2, <2>3
<1>. QED  BY <1>2, <1>3

LEMMA GotoAdvances ==
  ASSUME Typed, NEW s \in Slots, NEW p \in Plain,
         Goto(s, p) \/ GotoFailed(s, p)
  PROVE  Advance(s)
BY GotoMoves DEF Advance, Plain, At

LEMMA SnapshotType ==
  ASSUME NEW e \in Entries
  PROVE  Snapshot(e) \in Entries
BY IdleType DEF Snapshot, Entries, Absent

LEMMA CleanupAdvances ==
  ASSUME Typed, NEW s \in Slots, NEW intent \in {"stop", "completed", "split_request"},
         ToCleanup(s, intent), call[s].op # "spawn", ledger' \in [Ids -> Entries]
  PROVE  Advance(s)
<1>1. /\ call[s] \in Calls /\ call \in [Slots -> Calls]
      /\ ledger[call[s].id] \in Entries /\ ledger'[call[s].id] \in Entries
  BY DEF Typed, TypeOK, Calls
<1>. DEFINE prev == Snapshot(ledger[call[s].id])
            reason == ledger'[call[s].id].reason
<1>2. prev \in Entries /\ reason \in Reasons \cup {"none"}
  BY <1>1, SnapshotType DEF Entries
<1>3. call' = [call EXCEPT ![s].pc = "probe", ![s].intent = intent, ![s].reason = reason,
                           ![s].prev = prev]
  BY DEF ToCleanup
<1>. HIDE DEF prev, reason
<1>4. PICK c \in Calls :
        /\ call' = [call EXCEPT ![s] = c] /\ c.pc = "probe"
        /\ c.op = call[s].op /\ c.id = call[s].id /\ c.g = call[s].g /\ c.prev = prev
  <2>. DEFINE k == [call[s] EXCEPT !.pc = "probe", !.intent = intent, !.reason = reason,
                                   !.prev = prev]
  <2>1. k \in Calls
    BY <1>1, <1>2 DEF Calls, PCs
  <2>2. /\ k.pc = "probe" /\ k.op = call[s].op /\ k.id = call[s].id /\ k.g = call[s].g
        /\ k.prev = prev
    BY <1>1 DEF Calls
  <2>3. call' = [call EXCEPT ![s] = k]
    BY <1>1, <1>3
  <2>. QED  BY <2>1, <2>2, <2>3
<1>5. call' \in [Slots -> Calls] /\ call'[s] = c /\ \A u \in Slots \ {s} : call'[u] = call[u]
  BY <1>1, <1>4
<1>. QED  BY <1>2, <1>4, <1>5 DEF Advance, At

\* What Finished makes of an entry is an entry.
LEMMA FinishedType ==
  ASSUME NEW e \in Entries, NEW intent \in {"stop", "completed", "split_request"}
  PROVE  Finished(e, intent) \in Entries
<1>1. CASE intent = "completed"
  BY <1>1 DEF Finished, Entries, Statuses, Markers
<1>2. CASE intent = "split_request"
  BY <1>2, IdleType DEF Finished, Entries, Statuses, Markers
<1>3. CASE intent = "stop"
  BY <1>3, IdleType DEF Finished
<1>. QED  BY <1>1, <1>2, <1>3

\* Every write of an entry writes an entry.
LEMMA LedgerTyped ==
  ASSUME Typed, NEW s \in Slots, Step(s)
  PROVE  ledger' \in [Ids -> Entries] /\ archive' \in [Ids -> Entries]
<1>. DEFINE c == call[s]
            e == ledger[c.id]
            Writes == UNCHANGED disk \/ (UNCHANGED archive /\ \E x \in Entries, id \in 0..NumIds : Set(id, x))
<1>1. /\ ledger \in [Ids -> Entries] /\ archive \in [Ids -> Entries] /\ c \in Calls
      /\ Ids \subseteq 0..NumIds
  BY NumIdsAssumption DEF Typed, TypeOK, Ids
<1>2. /\ c.id \in Ids /\ c.prev \in Entries /\ c.g \in 0..MaxLives /\ c.kid \in 0..NumIds
      /\ c.intent \in {"stop", "completed", "split_request"}
  BY <1>1 DEF Calls
<1>3. e \in Entries /\ c.prev.branch \in 0..MaxLives /\ 0 \in 0..MaxLives
  <2>1. e \in Entries
    BY <1>1, <1>2
  <2>2. c.prev.branch \in 0..MaxLives
    BY <1>2 DEF Entries
  <2>. QED  BY <2>1, <2>2, MaxLivesAssumption
<1>. HIDE DEF c, e
<1>W. Writes => ledger' \in [Ids -> Entries] /\ archive' \in [Ids -> Entries]
  BY <1>1 DEF Set, disk
<1>. HIDE DEF Writes
<1>4. ASSUME Spawn(s) PROVE Writes
  <2>1. ASSUME SpawnLedger(s) PROVE Writes
    <3>1. [e EXCEPT !.status = "in_progress", !.owned = TRUE, !.branch = c.g] \in Entries
      BY <1>2, <1>3 DEF Entries, Statuses
    <3>. QED  BY <1>1, <1>2, <2>1, <3>1 DEF SpawnLedger, Writes, disk, c, e
  <2>2. ASSUME UndoLedger(s) PROVE Writes
    <3>1. [e EXCEPT !.status = "unstarted", !.owned = FALSE, !.branch = 0] \in Entries
      BY <1>3 DEF Entries, Statuses
    <3>. QED  BY <1>1, <1>2, <2>2, <3>1 DEF UndoLedger, Writes, disk, c, e
  <2>3. CASE ~SpawnLedger(s) /\ ~UndoLedger(s)
    BY <1>4, <2>3 DEF Spawn, SpawnWorktree, SpawnWindow, SpawnRegister, SpawnLaunch,
       SpawnPrompt, UndoKill, UndoWorktree, Writes
  <2>. QED  BY <2>1, <2>2, <2>3
<1>5. ASSUME Cleanup(s) PROVE Writes
  <2>1. ASSUME MarkCleanupPending(s) PROVE Writes
    <3>1. [e EXCEPT !.owned = TRUE, !.branch = c.prev.branch] \in Entries
      BY <1>3 DEF Entries
    <3>. QED  BY <1>1, <1>2, <2>1, <3>1 DEF MarkCleanupPending, Writes, disk, c, e
  <2>2. ASSUME FinishPendingCleanup(s) PROVE Writes
    <3>1. Finished(e, c.intent) \in Entries
      BY <1>2, <1>3, FinishedType
    <3>. QED  BY <1>1, <1>2, <2>2, <3>1 DEF FinishPendingCleanup, Writes, disk, c, e
  <2>3. CASE ~MarkCleanupPending(s) /\ ~FinishPendingCleanup(s)
    BY <1>5, <2>3 DEF Cleanup, CleanupProbe, CleanupKill, CleanupRemove, CleanupBranch, Writes
  <2>. QED  BY <2>1, <2>2, <2>3
<1>6. ASSUME StopMark(s) PROVE Writes
  <2>1. [e EXCEPT !.status = "blocked", !.owned = TRUE] \in Entries
    BY <1>2, <1>3 DEF Entries, Statuses
  <2>. QED  BY <1>1, <1>2, <1>6, <2>1 DEF StopMark, Writes, disk, c, e
<1>7. ASSUME NotifyCompleted(s) PROVE Writes
  <2>1. [e EXCEPT !.status = "blocked", !.marker = "completed"] \in Entries
    BY <1>3, IdleType DEF Entries, Statuses, Markers
  <2>. QED  BY <1>1, <1>2, <1>7, <2>1 DEF NotifyCompleted, Writes, disk, c, e
<1>8. ASSUME NotifyBlocked(s) PROVE Writes
  <2>1. [e EXCEPT !.status = "blocked"] \in Entries
    BY <1>2, <1>3 DEF Entries, Statuses
  <2>. QED  BY <1>1, <1>2, <1>8, <2>1 DEF NotifyBlocked, Writes, disk, c, e
<1>9. ASSUME NotifySplit(s) PROVE Writes
  <2>1. \A r \in Reasons :
          [e EXCEPT !.status = "blocked", !.marker = "split_request", !.reason = r] \in Entries
    BY <1>3 DEF Entries, Statuses, Markers
  <2>. QED  BY <1>1, <1>2, <1>9, <2>1 DEF NotifySplit, Writes, disk, c, e
<1>10. ASSUME NotifySplitAdd(s) \/ SplitAdd(s) \/ SplitUndo(s) PROVE Writes
  BY <1>1, <1>2, <1>10, IdleType DEF NotifySplitAdd, SplitAdd, SplitUndo, Writes, disk, c
<1>11. ASSUME SplitParent(s) PROVE Writes
  <2>1. /\ \A r \in Reasons :
             [e EXCEPT !.status = "blocked", !.marker = "split_request", !.reason = r] \in Entries
        /\ [Absent EXCEPT !.status = "split"] \in Entries
    BY <1>3, IdleType DEF Entries, Statuses, Markers
  <2>. QED  BY <1>1, <1>2, <1>11, <2>1 DEF SplitParent, Writes, disk, c, e
<1>12. ASSUME ChooseIds(s) \/ SplitRetry(s) \/ ArchiveSweep(s) PROVE Writes
  BY <1>12 DEF ChooseIds, SplitRetry, ArchiveSweep, disk, Writes
<1>13. ASSUME ArchiveFile(s) PROVE ledger' \in [Ids -> Entries] /\ archive' \in [Ids -> Entries]
  BY <1>1, <1>2, <1>13, IdleType DEF ArchiveFile, WriteArchive, Set, disk, c
<1>. QED
  BY <1>W, <1>4, <1>5, <1>6, <1>7, <1>8, <1>9, <1>10, <1>11, <1>12, <1>13
     DEF Step, Notify, Split, Archive

\* Every step of a handler is one of these, or leads to a control point named above.
LEMMA StepAdvances ==
  ASSUME Typed, NEW s \in Slots, Step(s)
  PROVE  Advance(s)
<1>. DEFINE Moved == \/ Done(s)
                     \/ \E p \in Plain : Goto(s, p) \/ GotoFailed(s, p)
<1>L. ledger' \in [Ids -> Entries]
  BY LedgerTyped
<1>1. Moved => Advance(s)
  BY DoneAdvances, GotoAdvances
<1>2. ASSUME Spawn(s) PROVE Advance(s)
  <2>1. Moved
    BY <1>2 DEF Spawn, SpawnWorktree, SpawnWindow, SpawnLedger, SpawnRegister, SpawnLaunch,
       SpawnPrompt, UndoKill, UndoWorktree, UndoLedger, SpawnFailed, Plain, PCs
  <2>. QED  BY <1>1, <2>1
<1>3. ASSUME Cleanup(s) PROVE Advance(s)
  <2>1. Moved
    BY <1>3 DEF Cleanup, CleanupProbe, CleanupKill, CleanupRemove, CleanupBranch,
       MarkCleanupPending, FinishPendingCleanup, AfterCleanup, Plain, PCs
  <2>. QED  BY <1>1, <2>1
<1>4. ASSUME StopMark(s) PROVE Advance(s)
  <2>1. StopIntent(ledger[call[s].id]) \in {"stop", "completed", "split_request"}
    BY DEF StopIntent, Typed, TypeOK, Calls, Entries, Markers
  <2>. QED  BY <1>1, <1>4, <1>L, <2>1, CleanupAdvances DEF StopMark, At
<1>5. ASSUME NotifyCompleted(s) PROVE Advance(s)
  BY <1>1, <1>5, <1>L, CleanupAdvances DEF NotifyCompleted, At
<1>6. ASSUME NotifyBlocked(s) PROVE Advance(s)
  BY <1>1, <1>6 DEF NotifyBlocked
<1>7. ASSUME SplitRetry(s) PROVE Advance(s)
  <2>1. call[s].op # "spawn"
    BY <1>7 DEF SplitRetry, Typed, Shape
  <2>. QED  BY <1>1, <1>7, <1>L, <2>1, CleanupAdvances DEF SplitRetry
<1>8. ASSUME ChooseIds(s) PROVE Advance(s)
  <2>1. CASE FreeIds = {} /\ Done(s)
    BY <1>1, <2>1
  <2>2. CASE \E kid \in Ids :
               call' = [call EXCEPT ![s].pc = IF call[s].op = "split" THEN "add" ELSE "update",
                                    ![s].kid = kid]
    <3>1. PICK kid \in Ids :
            call' = [call EXCEPT ![s].pc = IF call[s].op = "split" THEN "add" ELSE "update",
                                 ![s].kid = kid]
      BY <2>2
    <3>. DEFINE k == [call[s] EXCEPT !.pc = IF call[s].op = "split" THEN "add" ELSE "update",
                                     !.kid = kid]
    <3>2. call[s] \in Calls /\ call \in [Slots -> Calls]
      BY DEF Typed, TypeOK
    <3>3. k \in Calls
      <4>1. kid \in 0..NumIds
        BY NumIdsAssumption DEF Ids
      <4>. QED  BY <3>2, <4>1 DEF Calls, PCs
    <3>4. /\ k.op = call[s].op /\ k.id = call[s].id /\ k.g = call[s].g /\ k.prev = call[s].prev
          /\ k.intent = call[s].intent /\ k.kid = kid
          /\ k.pc = IF call[s].op = "split" THEN "add" ELSE "update"
      BY <3>2 DEF Calls
    <3>5. call' = [call EXCEPT ![s] = k]
      BY <3>1
    <3>. HIDE DEF k
    <3>6. call' \in [Slots -> Calls] /\ call'[s] = k /\ \A u \in Slots \ {s} : call'[u] = call[u]
      BY <3>2, <3>3, <3>5
    <3>7. call[s].pc = "ids"
      BY <1>8 DEF ChooseIds
    <3>. QED  BY <3>4, <3>6, <3>7 DEF Advance, At
  <2>. QED  BY <1>8, <2>1, <2>2 DEF ChooseIds
<1>9. ASSUME NotifySplit(s) PROVE Advance(s)
  <2>1. ASSUME NEW r \in Reasons,
               call' = [call EXCEPT ![s].pc = "add", ![s].reason = r,
                                    ![s].prev = ledger[call[s].id]]
        PROVE  Advance(s)
    <3>. DEFINE k == [call[s] EXCEPT !.pc = "add", !.reason = r, !.prev = ledger[call[s].id]]
    <3>1. call[s] \in Calls /\ call \in [Slots -> Calls] /\ ledger[call[s].id] \in Entries
      BY DEF Typed, TypeOK, Calls
    <3>2. k \in Calls
      BY <3>1 DEF Calls, PCs
    <3>3. /\ k.op = call[s].op /\ k.id = call[s].id /\ k.g = call[s].g /\ k.pc = "add"
          /\ k.intent = call[s].intent /\ k.kid = call[s].kid
      BY <3>1 DEF Calls
    <3>4. call' = [call EXCEPT ![s] = k]
      BY <2>1
    <3>. HIDE DEF k
    <3>5. call' \in [Slots -> Calls] /\ call'[s] = k /\ \A u \in Slots \ {s} : call'[u] = call[u]
      BY <3>1, <3>2, <3>4
    <3>6. At(s, "split_request", "update") /\ call[s].kid \in Ids
      BY <1>9 DEF NotifySplit, Typed, Shape
    <3>. QED  BY <1>9, <3>3, <3>5, <3>6 DEF Advance, At
  <2>. QED  BY <1>1, <1>9, <2>1 DEF NotifySplit
<1>10. ASSUME NotifySplitAdd(s) PROVE Advance(s)
  <2>. DEFINE prev == Snapshot(call[s].prev)
  <2>1. CASE call' = [call EXCEPT ![s].pc = "probe", ![s].intent = "split_request",
                                  ![s].prev = prev]
    <3>. DEFINE k == [call[s] EXCEPT !.pc = "probe", !.intent = "split_request", !.prev = prev]
    <3>1. call[s] \in Calls /\ call \in [Slots -> Calls] /\ prev \in Entries
      BY SnapshotType DEF Typed, TypeOK, Calls
    <3>. HIDE DEF prev
    <3>2. k \in Calls
      BY <3>1 DEF Calls, PCs
    <3>3. k.op = call[s].op /\ k.id = call[s].id /\ k.g = call[s].g /\ k.pc = "probe"
      BY <3>1 DEF Calls
    <3>4. call' = [call EXCEPT ![s] = k]
      BY <2>1
    <3>. HIDE DEF k
    <3>5. call' \in [Slots -> Calls] /\ call'[s] = k /\ \A u \in Slots \ {s} : call'[u] = call[u]
      BY <3>1, <3>2, <3>4
    <3>6. call[s].op = "split_request"
      BY <1>10 DEF NotifySplitAdd, At
    <3>. QED  BY <3>3, <3>5, <3>6 DEF Advance, At
  <2>. QED  BY <1>1, <1>10, <2>1 DEF NotifySplitAdd
<1>11. ASSUME SplitAdd(s) PROVE Advance(s)
  <2>1. CASE Goto(s, "parent")
    <3>1. At(s, "split", "add") /\ call[s].kid \in Ids
      BY <1>11 DEF SplitAdd, Typed, Shape, At
    <3>. QED  BY <1>11, <2>1, <3>1, GotoMoves DEF Advance, At, PCs
  <2>. QED  BY <1>1, <1>11, <2>1 DEF SplitAdd
<1>12. ASSUME SplitParent(s) PROVE Advance(s)
  <2>1. At(s, "split", "parent") /\ call[s].kid \in Ids
    BY <1>12 DEF SplitParent, Typed, Shape, At
  <2>2. CASE Goto(s, "undo") /\ UNCHANGED ledger
    BY <1>12, <2>1, <2>2, GotoMoves DEF Advance, At, PCs
  <2>3. CASE ToCleanup(s, "split_request")
    BY <1>L, <2>1, <2>3, CleanupAdvances DEF At
  <2>. QED  BY <1>1, <1>12, <2>2, <2>3 DEF SplitParent
<1>13. ASSUME SplitUndo(s) PROVE Advance(s)
  BY <1>1, <1>13 DEF SplitUndo
<1>14. ASSUME ArchiveFile(s) PROVE Advance(s)
  <2>1. CASE Goto(s, "sweep")
    <3>1. At(s, "archive", "file")
      BY <1>14 DEF ArchiveFile
    <3>. QED  BY <1>14, <2>1, <3>1, GotoMoves DEF Advance, At, PCs
  <2>. QED  BY <1>1, <1>14, <2>1 DEF ArchiveFile
<1>15. ASSUME ArchiveSweep(s) PROVE Advance(s)
  BY <1>1, <1>15 DEF ArchiveSweep
<1>. QED
  BY <1>2, <1>3, <1>4, <1>5, <1>6, <1>7, <1>8, <1>9, <1>10, <1>11, <1>12, <1>13, <1>14, <1>15
     DEF Step, Notify, Split, Archive

-----------------------------------------------------------------------------
(* Types *)

LEMMA InitTyped == Init => Typed
<1>. SUFFICES ASSUME Init PROVE Typed
  OBVIOUS
<1>1. call \in [Slots -> Calls] /\ ledger \in [Ids -> Entries] /\ archive \in [Ids -> Entries]
  BY IdleType DEF Init
<1>2. 0 \in 0..MaxLives /\ 0 \in 0..NumIds /\ lives \in 0..MaxLives
  BY MaxLivesAssumption, NumIdsAssumption DEF Init
<1>3. TypeOK
  BY <1>1, <1>2 DEF Init, TypeOK
<1>4. Shape
  BY DEF Init, Shape, Idle, At
<1>. QED  BY <1>3, <1>4 DEF Typed

\* A handler that moves keeps its shape.
LEMMA AdvanceShape ==
  ASSUME Typed, NEW s \in Slots, Advance(s)
  PROVE  Shape'
BY DEF Advance, Typed, Shape, At, Idle

\* Windows, worktrees, branches and counters.
LEMMA WorldTyped ==
  ASSUME Typed, NEW s \in Slots, Step(s)
  PROVE  /\ registry' \subseteq Ids /\ windows' \in [Ids -> SUBSET Lives]
         /\ worktree' \in [Ids -> 0..MaxLives] /\ branches' \subseteq Lives
         /\ lives' = lives /\ briefed' \subseteq Lives
         /\ life' \in [Ids -> 0..MaxLives] /\ parent' \in [Ids -> 0..NumIds]
         /\ harm' \in [Ids -> SUBSET Harms]
         /\ fails' \in Nat /\ crashes' \in Nat
<1>. DEFINE c == call[s]
<1>1. /\ registry \subseteq Ids /\ windows \in [Ids -> SUBSET Lives]
      /\ worktree \in [Ids -> 0..MaxLives] /\ branches \subseteq Lives
      /\ briefed \subseteq Lives /\ life \in [Ids -> 0..MaxLives]
      /\ parent \in [Ids -> 0..NumIds] /\ harm \in [Ids -> SUBSET Harms]
      /\ fails \in Nat /\ crashes \in Nat
      /\ c \in Calls /\ 0 \in 0..MaxLives
  BY MaxLivesAssumption DEF Typed, TypeOK
<1>2. c.id \in Ids /\ c.id \in 0..NumIds /\ c.g \in 0..MaxLives /\ c.kid \in 0..NumIds
  <2>1. c.id \in Ids /\ c.g \in 0..MaxLives /\ c.kid \in 0..NumIds
    BY <1>1 DEF Calls
  <2>. QED  BY <2>1, NumIdsAssumption DEF Ids
<1>3. c.op = "spawn" => c.g \in Lives
  BY DEF Typed, Shape
<1>. HIDE DEF c
<1>4. /\ fails' \in Nat \/ ~(fails' = fails \/ Fail)
      /\ windows[c.id] \in SUBSET Lives
  BY <1>1, <1>2 DEF Fail
<1>H. \A h \in Harms : Harm(c.id, h) => harm' \in [Ids -> SUBSET Harms]
  BY <1>1, <1>2 DEF Harm
<1>5. ASSUME Spawn(s)
      PROVE  /\ registry' \subseteq Ids /\ windows' \in [Ids -> SUBSET Lives]
             /\ worktree' \in [Ids -> 0..MaxLives] /\ branches' \subseteq Lives
             /\ lives' = lives /\ briefed' \subseteq Lives
             /\ life' \in [Ids -> 0..MaxLives] /\ parent' = parent
             /\ harm' \in [Ids -> SUBSET Harms]
             /\ (fails' = fails \/ Fail) /\ crashes' = crashes
  <2>1. CASE SpawnWorktree(s)
    <3>1. harm' \in [Ids -> SUBSET Harms]
      BY <1>1, <1>H, <2>1 DEF SpawnWorktree, Harms, c
    <3>. QED  BY <1>1, <1>2, <1>3, <2>1, <3>1 DEF SpawnWorktree, At, disk, agents, c
  <2>2. CASE SpawnWindow(s)
    <3>1. windows' \in {windows, [windows EXCEPT ![c.id] = @ \cup {c.g}]}
      BY <2>2 DEF SpawnWindow, c
    <3>2. windows' \in [Ids -> SUBSET Lives]
      BY <1>1, <1>2, <1>3, <2>2, <3>1 DEF SpawnWindow, At, c
    <3>3. harm' \in [Ids -> SUBSET Harms]
      BY <1>1, <1>H, <2>2 DEF SpawnWindow, Harms, c
    <3>. QED  BY <1>1, <2>2, <3>2, <3>3 DEF SpawnWindow, disk, agents
  <2>3. CASE SpawnLedger(s)
    BY <1>1, <1>2, <2>3 DEF SpawnLedger, world, agents, c
  <2>4. CASE SpawnRegister(s)
    BY <1>1, <1>2, <2>4 DEF SpawnRegister, world, agents, history, c
  <2>5. CASE SpawnLaunch(s)
    BY <1>1, <2>5 DEF SpawnLaunch, world, agents, history
  <2>6. CASE SpawnPrompt(s)
    BY <1>1, <1>4, <2>6 DEF SpawnPrompt, world, history, c
  <2>7. CASE UndoKill(s)
    <3>1. windows' \in [Ids -> SUBSET Lives]
      BY <1>1, <1>2, <2>7 DEF UndoKill, KillWindow, Close, c
    <3>2. harm' \in [Ids -> SUBSET Harms]
      BY <1>1, <1>H, <2>7 DEF UndoKill, Harms, c
    <3>. QED  BY <1>1, <2>7, <3>1, <3>2 DEF UndoKill, agents
  <2>8. CASE UndoWorktree(s)
    <3>1. harm' \in [Ids -> SUBSET Harms]
      BY <1>1, <1>H, <2>8 DEF UndoWorktree, Harms, c
    <3>. QED  BY <1>1, <1>2, <2>8, <3>1 DEF UndoWorktree, DeleteIfSafe, agents, c
  <2>9. CASE UndoLedger(s)
    BY <1>1, <2>9 DEF UndoLedger, world, agents, history
  <2>. QED  BY <1>5, <2>1, <2>2, <2>3, <2>4, <2>5, <2>6, <2>7, <2>8, <2>9 DEF Spawn
<1>6. ASSUME Cleanup(s)
      PROVE  /\ registry' \subseteq Ids /\ windows' \in [Ids -> SUBSET Lives]
             /\ worktree' \in [Ids -> 0..MaxLives] /\ branches' \subseteq Lives
             /\ UNCHANGED <<agents, history, crashes>> /\ (fails' = fails \/ Fail)
  <2>1. CASE CleanupKill(s)
    <3>1. windows' \in [Ids -> SUBSET Lives]
      BY <1>1, <1>2, <2>1 DEF CleanupKill, KillWindow, Close, c
    <3>. QED  BY <1>1, <2>1, <3>1 DEF CleanupKill
  <2>2. CASE CleanupRemove(s)
    BY <1>1, <1>2, <2>2 DEF CleanupRemove, RemoveWorktree, c
  <2>3. CASE CleanupBranch(s)
    BY <1>1, <2>3 DEF CleanupBranch, DeleteIfSafe
  <2>4. CASE CleanupProbe(s) \/ MarkCleanupPending(s) \/ FinishPendingCleanup(s)
    BY <1>1, <2>4 DEF CleanupProbe, MarkCleanupPending, FinishPendingCleanup, world
  <2>. QED  BY <1>6, <2>1, <2>2, <2>3, <2>4 DEF Cleanup
<1>7. CASE NotifySplitAdd(s)
  <2>1. harm' \in [Ids -> SUBSET Harms]
    <3>1. ASSUME Harm(c.kid, "returned") PROVE harm' \in [Ids -> SUBSET Harms]
      BY <1>1, <3>1 DEF Harm, Harms
    <3>. QED  BY <1>1, <1>H, <1>7, <3>1 DEF NotifySplitAdd, Harms, c
  <2>. QED  BY <1>1, <1>2, <1>7, <2>1 DEF NotifySplitAdd, world, agents, c
<1>8. CASE SplitAdd(s)
  BY <1>1, <1>2, <1>8 DEF SplitAdd, world, agents, c
<1>9. CASE ArchiveSweep(s)
  <2>1. windows' \in [Ids -> SUBSET Lives]
    BY <1>1, <1>2, <1>9 DEF ArchiveSweep, KillWindow, Close, c
  <2>. QED  BY <1>1, <1>2, <1>9, <2>1 DEF ArchiveSweep, DeleteIfSafe, agents, history, c
<1>10. CASE StopMark(s) \/ NotifyBlocked(s) \/ ChooseIds(s) \/ NotifySplit(s) \/ SplitRetry(s)
            \/ SplitParent(s) \/ SplitUndo(s) \/ ArchiveFile(s)
  BY <1>1, <1>10 DEF StopMark, NotifyBlocked, ChooseIds, NotifySplit, SplitRetry, SplitParent,
     SplitUndo, ArchiveFile, world, agents, history
<1>11. CASE NotifyCompleted(s)
  BY <1>1, <1>11 DEF NotifyCompleted, world, agents, history
<1>12. CASE Spawn(s)
  BY <1>1, <1>4, <1>5, <1>12
<1>13. CASE Cleanup(s)
  BY <1>1, <1>4, <1>6, <1>13 DEF agents, history
<1>. QED
  BY <1>7, <1>8, <1>9, <1>10, <1>11, <1>12, <1>13 DEF Step, Notify, Split, Archive

\* A handler that is called starts with nothing but its task and what it read of it.
Called(s, op, id, pc, g, prev) ==
  /\ call' = [call EXCEPT ![s] = [Idle EXCEPT !.op = op, !.id = id, !.pc = pc, !.g = g,
                                              !.prev = prev]]
  /\ op \in OrchOps => Cardinality({u \in Slots : call[u].op \in OrchOps}) < OrchCalls
  /\ op = "spawn" => SpawnBegin(s, id) /\ g = lives' /\ g \in Lives /\ pc = "worktree"
  /\ op # "spawn" => UNCHANGED lives
  /\ prev \in {Absent, ledger[id], archive[id]}
  /\ pc \in {"worktree", "mark", "update", "ids", "retry", "file", "sweep"}
  /\ ~(op = "split_request" /\ pc = "update")
  /\ pc = "retry" => op \in {"split", "split_request"}
  /\ op = "split" => SplitBegin(s, id) /\ prev = ledger[id]
  /\ op = "archive" /\ pc = "sweep" => ledger[id].status = "absent" /\ IsArchived(id)
  /\ UNCHANGED <<disk, registry, world, briefed, history, fails, crashes>>

Began(s) ==
  /\ call[s] = Idle
  /\ \E op \in OrchOps \cup NotifyOps, id \in Ids, pc \in PCs, g \in 0..MaxLives,
        prev \in Entries : Called(s, op, id, pc, g, prev)

LEMMA BeginsBegan ==
  ASSUME Typed, NEW s \in Slots, Begins(s)
  PROVE  Began(s)
<1>1. /\ ledger \in [Ids -> Entries] /\ archive \in [Ids -> Entries] /\ lives \in 0..MaxLives
      /\ Absent \in Entries /\ 0 \in 0..MaxLives /\ Lives \subseteq 0..MaxLives
  BY IdleType, MaxLivesAssumption DEF Typed, TypeOK, Lives
<1>2. ASSUME NEW op \in OrchOps \cup NotifyOps, NEW id \in Ids, NEW pc \in PCs,
             NEW g \in 0..MaxLives, NEW prev \in Entries,
             call[s] = Idle, Called(s, op, id, pc, g, prev)
      PROVE  Began(s)
  BY <1>2 DEF Began
<1>3. ASSUME NEW id \in Ids, SpawnBegin(s, id) PROVE Began(s)
  <2>1. lives' \in Lives /\ lives' \in 0..MaxLives
    BY <1>1, <1>3, MaxLivesAssumption DEF SpawnBegin, Lives
  <2>2. Called(s, "spawn", id, "worktree", lives', Absent) /\ call[s] = Idle
    BY <1>3, <2>1 DEF SpawnBegin, Begin, Called
  <2>. QED  BY <1>1, <1>2, <2>1, <2>2 DEF OrchOps, PCs
<1>4. ASSUME NEW id \in Ids, StopBegin(s, id) PROVE Began(s)
  <2>1. Called(s, "stop", id, "mark", 0, Absent) /\ call[s] = Idle
    BY <1>4 DEF StopBegin, Begin, Called, agents
  <2>. QED  BY <1>1, <1>2, <2>1 DEF OrchOps, PCs
<1>5. ASSUME NEW id \in Ids, SplitBegin(s, id) PROVE Began(s)
  <2>. DEFINE pc == IF ledger[id].marker = "split_request" THEN "retry" ELSE "ids"
  <2>1. Called(s, "split", id, pc, 0, ledger[id]) /\ call[s] = Idle
    BY <1>5 DEF SplitBegin, Begin, Called, agents
  <2>2. pc \in PCs /\ ledger[id] \in Entries
    BY <1>1 DEF PCs
  <2>. HIDE DEF pc
  <2>. QED  BY <1>1, <1>2, <2>1, <2>2 DEF OrchOps
<1>6. ASSUME NEW id \in Ids, ArchiveBegin(s, id) PROVE Began(s)
  <2>1. CASE Begin(s, "archive", id, "file", 0, ledger[id])
    <3>1. Called(s, "archive", id, "file", 0, ledger[id]) /\ call[s] = Idle
      BY <1>6, <2>1 DEF ArchiveBegin, Begin, Called, agents
    <3>. QED  BY <1>1, <1>2, <3>1 DEF OrchOps, PCs
  <2>2. CASE ledger[id].status = "absent" /\ IsArchived(id)
             /\ Begin(s, "archive", id, "sweep", 0, archive[id])
    <3>1. Called(s, "archive", id, "sweep", 0, archive[id]) /\ call[s] = Idle
      BY <1>6, <2>2 DEF ArchiveBegin, Begin, Called, agents
    <3>. QED  BY <1>1, <1>2, <3>1 DEF OrchOps, PCs
  <2>. QED  BY <1>6, <2>1, <2>2 DEF ArchiveBegin
<1>7. ASSUME NEW id \in Ids, NEW g \in Lives, NEW op \in NotifyOps, NotifyBegin(s, id, g, op)
      PROVE  Began(s)
  <2>. DEFINE pc == IF op # "split_request" THEN "update"
                  ELSE IF ledger[id].marker = op THEN "retry" ELSE "ids"
  <2>1. /\ pc \in PCs /\ pc \in {"update", "retry", "ids"}
        /\ ~(op = "split_request" /\ pc = "update") /\ (pc = "retry" => op = "split_request")
    BY DEF PCs
  <2>2. Begin(s, op, id, pc, g, Absent)
        /\ UNCHANGED <<disk, registry, world, agents, history, fails, crashes>>
    BY <1>7 DEF NotifyBegin
  <2>. HIDE DEF pc
  <2>3. op \notin OrchOps /\ op \notin {"spawn", "split", "archive"}
    BY DEF OrchOps, NotifyOps
  <2>4. Called(s, op, id, pc, g, Absent) /\ call[s] = Idle
    BY <2>1, <2>2, <2>3 DEF Begin, Called, agents
  <2>5. g \in 0..MaxLives /\ op \in OrchOps \cup NotifyOps
    BY <1>1
  <2>. QED  BY <1>1, <1>2, <2>1, <2>4, <2>5
<1>. QED  BY <1>3, <1>4, <1>5, <1>6, <1>7 DEF Begins

LEMMA BeginsKeeps ==
  ASSUME Typed, NEW s \in Slots, Begins(s)
  PROVE  UNCHANGED ledger
<1>1. Began(s)
  BY BeginsBegan
<1>2. PICK op \in OrchOps \cup NotifyOps, id \in Ids, pc \in PCs, g \in 0..MaxLives,
           prev \in Entries : Called(s, op, id, pc, g, prev)
  BY <1>1 DEF Began
<1>. QED  BY <1>2 DEF Called, disk, world

LEMMA BeganTyped ==
  ASSUME Typed, NEW s \in Slots, Began(s)
  PROVE  Typed'
<1>1. PICK op \in OrchOps \cup NotifyOps, id \in Ids, pc \in PCs, g \in 0..MaxLives,
           prev \in Entries : Called(s, op, id, pc, g, prev)
  BY DEF Began
<1>. DEFINE k == [Idle EXCEPT !.op = op, !.id = id, !.pc = pc, !.g = g, !.prev = prev]
<1>2. k \in Calls
  BY IdleType DEF Calls
<1>3. k.op = op /\ k.pc = pc /\ k.g = g /\ k.intent = "stop"
  BY DEF Idle
<1>4. call' = [call EXCEPT ![s] = k]
  BY <1>1 DEF Called
<1>. HIDE DEF k
<1>5. call' \in [Slots -> Calls] /\ call'[s] = k /\ \A u \in Slots \ {s} : call'[u] = call[u]
  BY <1>2, <1>4 DEF Typed, TypeOK
<1>6. Shape'
  BY <1>1, <1>3, <1>5 DEF Called, Typed, Shape, At
<1>7. lives' \in 0..MaxLives
  BY <1>1 DEF Called, Typed, TypeOK
<1>8. TypeOK'
  BY <1>1, <1>5, <1>7 DEF Called, Typed, TypeOK, disk, world, history
<1>. QED  BY <1>6, <1>8 DEF Typed

LEMMA NextTyped == Typed /\ [Next]_vars => Typed'
<1>. SUFFICES ASSUME Typed, [Next]_vars PROVE Typed'
  OBVIOUS
<1>1. ASSUME NEW s \in Slots, Step(s) PROVE Typed'
  <2>1. Advance(s) /\ Shape'
    BY <1>1, StepAdvances, AdvanceShape
  <2>2. call' \in [Slots -> Calls]
    BY <2>1 DEF Advance
  <2>3. lives' \in 0..MaxLives
    BY <1>1, WorldTyped DEF Typed, TypeOK
  <2>4. TypeOK'
    BY <1>1, <2>2, <2>3, LedgerTyped, WorldTyped DEF TypeOK
  <2>. QED  BY <2>1, <2>4 DEF Typed
<1>2. ASSUME NEW s \in Slots, Begins(s) PROVE Typed'
  BY <1>2, BeginsBegan, BeganTyped
<1>3. CASE CreateTask
  <2>1. ledger' \in [Ids -> Entries]
    BY <1>3, IdleType DEF CreateTask, Set, Typed, TypeOK
  <2>. QED
    BY <1>3, <2>1 DEF CreateTask, Typed, TypeOK, Shape, At, world, agents, history
<1>4. CASE Crash
  <2>1. call' \in [Slots -> Calls] /\ Shape'
    BY <1>4, IdleType DEF Crash, Shape, At, Idle
  <2>2. archive' \in [Ids -> Entries]
    BY <1>4 DEF Crash, WriteArchive, Typed, TypeOK, Calls
  <2>3. harm' \in [Ids -> SUBSET Harms]
    BY <1>4 DEF Crash, Harms, Typed, TypeOK
  <2>. QED
    BY <1>4, <2>1, <2>2, <2>3 DEF Crash, Typed, TypeOK, world, agents
<1>5. CASE WindowLost
  <2>1. windows' \in [Ids -> SUBSET Lives]
    BY <1>5 DEF WindowLost, Close, Typed, TypeOK
  <2>. QED
    BY <1>5, <2>1 DEF WindowLost, Fail, Typed, TypeOK, Shape, At, disk, agents, history
<1>6. CASE UNCHANGED vars
  BY <1>6 DEF vars, Typed, TypeOK, Shape, At, disk, world, agents, history
<1>. QED  BY <1>1, <1>2, <1>3, <1>4, <1>5, <1>6 DEF Next

\* Every variable has its type in every reachable state.
THEOREM TypeCorrect == Spec => []TypeOK
<1>1. Typed => TypeOK
  BY DEF Typed
<1>. QED  BY <1>1, InitTyped, NextTyped, PTL DEF Spec

-----------------------------------------------------------------------------
(* What a step does to the ledger *)

Recorded(e) == e.marker = "completed" \/ e.status = "completed"
Waiting == {"absent", "unstarted"}

\* A handler may write this entry for this task.  The exception for an entry that is being
\* split is the split_request that takes its own mark back.
Tame(s, id, new) ==
  LET e == ledger[id] IN
  /\ new.marker # "none" => new.status = "blocked"
  /\ Splitting(e)
       => \/ Splitting(new) /\ (new.status = "blocked" => e.status = "blocked")
          \/ /\ At(s, "split_request", "add") /\ call[s].id = id /\ e.status = "blocked"
             /\ call'[s] = Idle
  /\ ~Orch(s) /\ e = Unstarted => new = Unstarted
  /\ ~Orch(s) /\ e.status \in Waiting => new.status \in Waiting
  /\ Recorded(e) => Recorded(new) \/ (new = Absent /\ archive'[id] # Absent)

TameStep(s) == \A id \in Ids : Tame(s, id, ledger'[id])

LEMMA KeepTame ==
  ASSUME MarkerInv, NEW s \in Slots, UNCHANGED disk
  PROVE  TameStep(s)
BY DEF MarkerInv, disk, TameStep, Tame

LEMMA SetTame ==
  ASSUME Typed, MarkerInv, NEW s \in Slots, NEW id, NEW new, Set(id, new), UNCHANGED archive,
         id \in Ids => Tame(s, id, new)
  PROVE  TameStep(s)
<1>1. ASSUME NEW jd \in Ids PROVE Tame(s, jd, ledger'[jd])
  <2>1. CASE jd = id
    BY <2>1 DEF Set, Typed, TypeOK
  <2>2. CASE jd # id
    <3>1. ledger'[jd] = ledger[jd]
      BY <2>2 DEF Set, Typed, TypeOK
    <3>2. ledger[jd].marker # "none" => ledger[jd].status = "blocked"
      BY DEF MarkerInv
    <3>. QED  BY <3>1, <3>2 DEF Tame
  <2>. QED  BY <2>1, <2>2
<1>. QED  BY <1>1 DEF TameStep

LEMMA StepTame ==
  ASSUME Typed, MarkerInv, AddInv, KidInv, PrevInv, NEW s \in Slots, Step(s)
  PROVE  TameStep(s)
<1>. DEFINE c == call[s]
            e == ledger[c.id]
<1>1. /\ c \in Calls /\ c.id \in Ids /\ e \in Entries /\ c.prev \in Entries
      /\ c.kid \in Ids => ledger[c.kid] \in Entries
  <2>1. c \in Calls
    BY DEF Typed, TypeOK
  <2>2. c.id \in Ids /\ c.prev \in Entries
    BY <2>1 DEF Calls
  <2>. QED  BY <2>1, <2>2 DEF Typed, TypeOK
<1>2. e.marker # "none" => e.status = "blocked"
  BY <1>1 DEF MarkerInv
<1>3. UNCHANGED disk => TameStep(s)
  BY KeepTame
<1>4. ASSUME NEW id, NEW new, Set(id, new), UNCHANGED archive, id \in Ids => Tame(s, id, new)
      PROVE  TameStep(s)
  BY <1>4, SetTame
<1>5. Absent.status = "absent" /\ Absent.marker = "none"
      /\ Unstarted.status = "unstarted" /\ Unstarted.marker = "none"
  BY DEF Absent, Unstarted
<1>. HIDE DEF c, e
<1>6. ASSUME SpawnLedger(s) PROVE TameStep(s)
  <2>. DEFINE new == [e EXCEPT !.status = "in_progress", !.owned = TRUE, !.branch = c.g]
  <2>1. new.status = "in_progress" /\ new.marker = e.marker
    BY <1>1 DEF Entries
  <2>. HIDE DEF new
  <2>2. CASE e.status = "unstarted"
    <3>1. Set(c.id, new) /\ UNCHANGED archive /\ c.op = "spawn" /\ Orch(s)
      BY <1>6, <2>2 DEF SpawnLedger, At, Orch, OrchOps, c, e, new
    <3>2. Tame(s, c.id, new)
      BY <1>2, <2>1, <2>2, <3>1 DEF Tame, Splitting, Recorded, c, e
    <3>. QED  BY <1>4, <3>1, <3>2
  <2>. QED  BY <1>3, <1>6, <2>2 DEF SpawnLedger, disk, c, e
<1>7. ASSUME UndoLedger(s) PROVE TameStep(s)
  <2>. DEFINE new == [e EXCEPT !.status = "unstarted", !.owned = FALSE, !.branch = 0]
  <2>1. new.status = "unstarted" /\ new.marker = e.marker
    BY <1>1 DEF Entries
  <2>. HIDE DEF new
  <2>2. CASE e.status = "in_progress"
    <3>1. Set(c.id, new) /\ UNCHANGED archive /\ Orch(s)
      BY <1>7, <2>2 DEF UndoLedger, At, Orch, OrchOps, c, e, new
    <3>2. Tame(s, c.id, new)
      BY <1>2, <2>1, <2>2, <3>1 DEF Tame, Splitting, Recorded, c, e
    <3>. QED  BY <1>4, <3>1, <3>2
  <2>. QED  BY <1>3, <1>7, <2>2 DEF UndoLedger, disk, c, e
<1>8. ASSUME MarkCleanupPending(s) PROVE TameStep(s)
  <2>. DEFINE new == [e EXCEPT !.owned = TRUE, !.branch = c.prev.branch]
  <2>1. new.status = e.status /\ new.marker = e.marker
    BY <1>1 DEF Entries
  <2>. HIDE DEF new
  <2>2. CASE e.status = "blocked"
    <3>1. Set(c.id, new) /\ UNCHANGED archive
      BY <1>8, <2>2 DEF MarkCleanupPending, c, e, new
    <3>2. Tame(s, c.id, new)
      BY <1>2, <1>5, <2>1, <2>2, <3>1 DEF Tame, Splitting, Recorded, Waiting, c, e
    <3>. QED  BY <1>4, <3>1, <3>2
  <2>. QED  BY <1>3, <1>8, <2>2 DEF MarkCleanupPending, disk, c, e
<1>9. ASSUME FinishPendingCleanup(s) PROVE TameStep(s)
  <2>. DEFINE new == Finished(e, c.intent)
  <2>1. CASE MayFinish(e, c.intent, c.reason)
    <3>1. Set(c.id, new) /\ UNCHANGED archive
      BY <1>9, <2>1 DEF FinishPendingCleanup, c, e
    <3>2. /\ e.status = "blocked" /\ e.marker = (IF c.intent = "stop" THEN "none" ELSE c.intent)
          /\ c.intent \in {"stop", "completed", "split_request"}
      BY <1>1, <2>1 DEF MayFinish, Calls
    <3>3. /\ new.marker = "none"
          /\ c.intent = "completed" => new.status = "completed"
          /\ c.intent = "split_request" => new.status = "split"
          /\ c.intent = "stop" => new.status = "unstarted"
      BY <1>1, <1>5, <3>2 DEF Finished, Entries, Absent
    <3>. HIDE DEF new
    <3>4. Tame(s, c.id, new)
      BY <1>5, <3>2, <3>3 DEF Tame, Splitting, Recorded, Waiting, c, e
    <3>. QED  BY <1>4, <3>1, <3>4
  <2>. QED  BY <1>3, <1>9, <2>1 DEF FinishPendingCleanup, disk, c, e
<1>10. ASSUME StopMark(s) PROVE TameStep(s)
  <2>. DEFINE new == [e EXCEPT !.status = "blocked", !.owned = TRUE]
  <2>1. new.status = "blocked" /\ new.marker = e.marker
    BY <1>1 DEF Entries
  <2>. HIDE DEF new
  <2>2. CASE e.status \in {"in_progress", "blocked", "unstarted"}
    <3>1. Set(c.id, new) /\ UNCHANGED archive /\ Orch(s)
      BY <1>10, <2>2 DEF StopMark, At, Orch, OrchOps, c, e, new
    <3>2. Tame(s, c.id, new)
      BY <1>2, <2>1, <2>2, <3>1 DEF Tame, Splitting, Recorded, c, e
    <3>. QED  BY <1>4, <3>1, <3>2
  <2>. QED  BY <1>3, <1>10, <2>2 DEF StopMark, disk, c, e
<1>11. ASSUME NotifyCompleted(s) PROVE TameStep(s)
  <2>. DEFINE new == [e EXCEPT !.status = "blocked", !.marker = "completed"]
  <2>1. new.status = "blocked" /\ new.marker = "completed"
    BY <1>1 DEF Entries
  <2>. HIDE DEF new
  <2>2. CASE StillAssigned(e, {"none", "completed"}) /\ Set(c.id, new)
    <3>1. UNCHANGED archive
      BY <1>11 DEF NotifyCompleted
    <3>2. Tame(s, c.id, new)
      BY <1>5, <2>1, <2>2 DEF Tame, StillAssigned, Active, Splitting, Recorded, Waiting, c, e
    <3>. QED  BY <1>4, <2>2, <3>1, <3>2
  <2>. QED  BY <1>3, <1>11, <2>2 DEF NotifyCompleted, disk, c, e, new
<1>12. ASSUME NotifyBlocked(s) PROVE TameStep(s)
  <2>. DEFINE new == [e EXCEPT !.status = "blocked"]
  <2>1. new.status = "blocked" /\ new.marker = e.marker
    BY <1>1 DEF Entries
  <2>. HIDE DEF new
  <2>2. CASE StillAssigned(e, {"none"})
    <3>1. Set(c.id, new) /\ UNCHANGED archive
      BY <1>12, <2>2 DEF NotifyBlocked, c, e, new
    <3>2. Tame(s, c.id, new)
      BY <1>5, <2>1, <2>2 DEF Tame, StillAssigned, Active, Splitting, Recorded, Waiting, c, e
    <3>. QED  BY <1>4, <3>1, <3>2
  <2>. QED  BY <1>3, <1>12, <2>2 DEF NotifyBlocked, disk, c, e
<1>. DEFINE split(r) == [e EXCEPT !.status = "blocked", !.marker = "split_request",
                                    !.reason = r]
<1>13. \A r \in Reasons : split(r).status = "blocked" /\ split(r).marker = "split_request"
  BY <1>1 DEF Entries
<1>. HIDE DEF split
<1>14. ASSUME NotifySplit(s) PROVE TameStep(s)
  <2>1. CASE StillAssigned(e, {"none"})
    <3>1. PICK r \in Reasons : Set(c.id, split(r)) /\ UNCHANGED archive
      BY <1>14, <2>1 DEF NotifySplit, c, e, split
    <3>2. Tame(s, c.id, split(r))
      BY <1>5, <1>13, <2>1 DEF Tame, StillAssigned, Active, Splitting, Recorded, Waiting, c, e
    <3>. QED  BY <1>4, <3>1, <3>2
  <2>. QED  BY <1>3, <1>14, <2>1 DEF NotifySplit, disk, c, e
<1>15. ASSUME Set(c.kid, Unstarted), ledger[c.kid].status = "absent", UNCHANGED archive
       PROVE  TameStep(s)
  <2>1. ASSUME c.kid \in Ids PROVE Tame(s, c.kid, Unstarted)
    <3>1. ledger[c.kid].marker = "none"
      BY <1>15, <2>1 DEF MarkerInv
    <3>. QED  BY <1>5, <1>15, <3>1 DEF Tame, Splitting, Recorded, Waiting
  <2>. QED  BY <1>4, <1>15, <2>1
<1>16. ASSUME NotifySplitAdd(s) PROVE TameStep(s)
  <2>1. CASE ledger[c.kid].status = "absent"
    BY <1>15, <1>16, <2>1 DEF NotifySplitAdd, c
  <2>2. CASE ledger[c.kid].status # "absent" /\ e.status = "blocked"
    <3>1. Set(c.id, c.prev) /\ UNCHANGED archive /\ At(s, "split_request", "add") /\ Done(s)
      BY <1>16, <2>2 DEF NotifySplitAdd, c, e
    <3>2. c.prev.marker = "none" /\ e.marker = "split_request"
      BY <2>2, <3>1 DEF AddInv, Splitting, c, e
    <3>3. call'[s] = Idle
      BY <3>1 DEF Done, Typed, TypeOK
    <3>4. Tame(s, c.id, c.prev)
      BY <1>5, <2>2, <3>1, <3>2, <3>3 DEF Tame, Splitting, Recorded, Waiting, c, e
    <3>. QED  BY <1>4, <3>1, <3>4
  <2>. QED  BY <1>3, <1>16, <2>1, <2>2 DEF NotifySplitAdd, disk, c, e
<1>17. ASSUME SplitAdd(s) PROVE TameStep(s)
  BY <1>3, <1>15, <1>17 DEF SplitAdd, disk, c
<1>18. ASSUME SplitParent(s) PROVE TameStep(s)
  <2>. DEFINE done == [Absent EXCEPT !.status = "split"]
  <2>1. done.status = "split" /\ done.marker = "none"
    BY DEF Absent
  <2>. HIDE DEF done
  <2>2. /\ At(s, "split", "parent") /\ Orch(s) /\ UNCHANGED archive
        /\ c.prev.status \in {"unstarted", "in_progress", "blocked"}
    BY <1>18 DEF SplitParent, At, Orch, OrchOps, PrevInv, c
  <2>3. \/ UNCHANGED disk
        \/ /\ e.marker = "none" /\ e.status \in {"unstarted", "in_progress", "blocked"}
           /\ (\E r \in Reasons : Set(c.id, split(r))) \/ Set(c.id, done)
    BY <1>18, <2>2 DEF SplitParent, Active, disk, c, e, split, done
  <2>4. ASSUME e.marker = "none", e.status \in {"unstarted", "in_progress", "blocked"}
        PROVE  (\A r \in Reasons : Tame(s, c.id, split(r))) /\ Tame(s, c.id, done)
    BY <1>13, <2>1, <2>2, <2>4 DEF Tame, Splitting, Recorded, c, e
  <2>. QED  BY <1>3, <1>4, <2>2, <2>3, <2>4
<1>19. ASSUME SplitUndo(s) PROVE TameStep(s)
  <2>1. /\ Set(c.kid, Absent) /\ UNCHANGED archive /\ Orch(s) /\ ledger[c.kid] = Unstarted
    BY <1>19 DEF SplitUndo, At, Orch, OrchOps, KidInv, c
  <2>2. Tame(s, c.kid, Absent)
    BY <1>5, <2>1 DEF Tame, Splitting, Recorded
  <2>. QED  BY <1>4, <2>1, <2>2
<1>20. ASSUME ArchiveFile(s) PROVE TameStep(s)
  <2>1. CASE e.status = "completed" /\ WriteArchive(c.id) /\ Set(c.id, Absent)
    <3>1. /\ archive'[c.id] = IF archive[c.id] = Absent THEN e ELSE archive[c.id]
          /\ \A id \in Ids \ {c.id} : archive'[id] = archive[id] /\ ledger'[id] = ledger[id]
          /\ ledger'[c.id] = Absent
      BY <1>1, <2>1 DEF WriteArchive, Set, Typed, TypeOK, e
    <3>2. archive'[c.id] # Absent
      BY <1>5, <2>1, <3>1
    <3>3. Orch(s)
      BY <1>20 DEF ArchiveFile, At, Orch, OrchOps
    <3>4. Tame(s, c.id, ledger'[c.id])
      BY <1>2, <1>5, <2>1, <3>1, <3>2, <3>3 DEF Tame, Splitting, Recorded, e
    <3>5. ASSUME NEW id \in Ids \ {c.id} PROVE Tame(s, id, ledger'[id])
      <4>1. ledger[id].marker # "none" => ledger[id].status = "blocked"
        BY DEF MarkerInv
      <4>. QED  BY <3>1, <4>1 DEF Tame
    <3>. QED  BY <3>4, <3>5 DEF TameStep
  <2>. QED  BY <1>3, <1>20, <2>1 DEF ArchiveFile, c, e
<1>21. ASSUME ~(SpawnLedger(s) \/ UndoLedger(s)), Spawn(s) PROVE UNCHANGED disk
  BY <1>21 DEF Spawn, SpawnWorktree, SpawnWindow, SpawnRegister, SpawnLaunch, SpawnPrompt,
     UndoKill, UndoWorktree
<1>22. ASSUME ~(MarkCleanupPending(s) \/ FinishPendingCleanup(s)), Cleanup(s)
       PROVE  UNCHANGED disk
  BY <1>22 DEF Cleanup, CleanupProbe, CleanupKill, CleanupRemove, CleanupBranch
<1>23. ASSUME ChooseIds(s) \/ SplitRetry(s) \/ ArchiveSweep(s) PROVE UNCHANGED disk
  BY <1>23 DEF ChooseIds, SplitRetry, ArchiveSweep, disk
<1>. QED
  BY <1>3, <1>6, <1>7, <1>8, <1>9, <1>10, <1>11, <1>12, <1>14, <1>16, <1>17, <1>18, <1>19, <1>20,
     <1>21, <1>22, <1>23 DEF Step, Notify, Split, Archive

-----------------------------------------------------------------------------
(* The invariant *)

LEMMA InitInv == Init => IInv
<1>. SUFFICES ASSUME Init PROVE IInv
  OBVIOUS
<1>1. Typed
  BY InitTyped
<1>2. \A s \in Slots : call[s] = Idle
  BY DEF Init
<1>3. OrchOne /\ AddInv /\ AddOne /\ KidInv /\ PrevInv /\ SweepInv
  BY <1>2 DEF Orch, OrchOps, OrchOne, AddInv, AddOne, KidInv, PrevInv, SweepInv, At, Idle
<1>4. MarkerInv
  BY DEF Init, MarkerInv, Unstarted, Absent
<1>. QED  BY <1>1, <1>3, <1>4 DEF IInv

LEMMA StepInv ==
  ASSUME IInv, NEW s \in Slots, Step(s)
  PROVE  IInv'
<1>1. Typed /\ OrchOne /\ MarkerInv /\ AddInv /\ AddOne /\ KidInv /\ PrevInv /\ SweepInv
  BY DEF IInv
<1>2. Advance(s) /\ TameStep(s) /\ lives' = lives
  BY <1>1, StepAdvances, StepTame, WorldTyped
<1>3. Typed'
  BY <1>1, NextTyped DEF Next
<1>4. \A u \in Slots : call[u].id \in Ids /\ call[u] \in Calls
  BY <1>1 DEF Typed, TypeOK, Calls
<1>5. OrchOne'
  <2>1. \A u \in Slots : Orch(u)' => Orch(u)
    BY <1>2 DEF Advance, Orch, Idle, OrchOps
  <2>. QED  BY <1>1, <2>1 DEF OrchOne
<1>6. MarkerInv'
  BY <1>2 DEF MarkerInv, TameStep, Tame
<1>7. ASSUME At(s, "split_request", "add")'
      PROVE  LET e == ledger[call[s].id] IN
             /\ call'[s].id = call[s].id /\ call'[s].prev = e
             /\ e.status \in Active /\ e.marker = "none"
             /\ ledger'[call[s].id].status = "blocked"
             /\ ledger'[call[s].id].marker = "split_request"
  <2>1. call'[s] # Idle
    BY <1>7 DEF At, Idle
  <2>2. NotifySplit(s) /\ call'[s].id = call[s].id
    BY <1>2, <1>7, <2>1 DEF Advance
  <2>. DEFINE e == ledger[call[s].id]
  <2>3. StillAssigned(e, {"none"})
    BY <2>1, <2>2, <1>1 DEF NotifySplit, Done, Typed, TypeOK
  <2>4. PICK r \in Reasons :
          /\ Set(call[s].id, [e EXCEPT !.status = "blocked", !.marker = "split_request",
                                       !.reason = r])
          /\ call' = [call EXCEPT ![s].pc = "add", ![s].reason = r, ![s].prev = e]
    BY <2>2, <2>3 DEF NotifySplit
  <2>5. e \in Entries /\ call \in [Slots -> Calls] /\ ledger \in [Ids -> Entries]
    BY <1>1, <1>4 DEF Typed, TypeOK
  <2>6. call'[s].prev = e
    <3>. DEFINE k == [call[s] EXCEPT !.pc = "add", !.reason = r, !.prev = e]
    <3>1. k.prev = e
      BY <1>4 DEF Calls
    <3>2. call' = [call EXCEPT ![s] = k]
      BY <2>4
    <3>. HIDE DEF k
    <3>. QED  BY <2>5, <3>1, <3>2
  <2>7. ledger'[call[s].id].status = "blocked" /\ ledger'[call[s].id].marker = "split_request"
    <3>. DEFINE x == [e EXCEPT !.status = "blocked", !.marker = "split_request", !.reason = r]
    <3>1. x.status = "blocked" /\ x.marker = "split_request"
      BY <2>5 DEF Entries
    <3>2. ledger'[call[s].id] = x
      BY <1>4, <2>4, <2>5 DEF Set
    <3>. HIDE DEF x
    <3>. QED  BY <3>1, <3>2
  <2>. QED  BY <2>2, <2>3, <2>6, <2>7 DEF StillAssigned
<1>8. AddInv'
  <2>. SUFFICES ASSUME NEW u \in Slots, At(u, "split_request", "add")'
                PROVE  /\ call'[u].prev.marker = "none" /\ call'[u].prev.status \in Active
                       /\ Splitting(ledger'[call'[u].id])
    BY DEF AddInv, Splitting
  <2>1. CASE u = s
    BY <1>7, <2>1 DEF Splitting
  <2>2. CASE u # s
    <3>1. call'[u] = call[u] /\ At(u, "split_request", "add")
      BY <1>2, <2>2 DEF Advance, At
    <3>2. Splitting(ledger[call[u].id])
      BY <1>1, <3>1 DEF AddInv
    <3>3. ASSUME At(s, "split_request", "add"), call[s].id = call[u].id,
                 ledger[call[u].id].status = "blocked"
          PROVE  FALSE
      BY <1>1, <2>2, <3>1, <3>3 DEF AddOne
    <3>4. Splitting(ledger'[call[u].id])
      BY <1>2, <1>4, <3>2, <3>3 DEF TameStep, Tame
    <3>. QED  BY <1>1, <3>1, <3>4 DEF AddInv
  <2>. QED  BY <2>1, <2>2
<1>9. AddOne'
  <2>. SUFFICES ASSUME NEW u \in Slots, NEW v \in Slots, u # v, u # s,
                       At(u, "split_request", "add")', At(v, "split_request", "add")',
                       call'[u].id = call'[v].id, ledger'[call'[u].id].status = "blocked"
                PROVE  FALSE
    BY DEF AddOne
  <2>1. call'[u] = call[u] /\ At(u, "split_request", "add")
    BY <1>2 DEF Advance, At
  <2>2. Splitting(ledger[call[u].id])
    BY <1>1, <2>1 DEF AddInv
  <2>3. CASE v = s
    BY <1>7, <2>1, <2>2, <2>3 DEF Splitting, Active
  <2>4. CASE v # s
    <3>1. call'[v] = call[v] /\ At(v, "split_request", "add")
      BY <1>2, <2>4 DEF Advance, At
    <3>2. ledger[call[u].id].status = "blocked"
      BY <1>2, <1>4, <2>1, <2>2 DEF TameStep, Tame
    <3>. QED  BY <1>1, <2>1, <3>1, <3>2 DEF AddOne
  <2>. QED  BY <2>3, <2>4
<1>10. KidInv'
  <2>. SUFFICES ASSUME NEW u \in Slots, call'[u].op = "split", call'[u].pc \in {"parent", "undo"}
                PROVE  ledger'[call'[u].kid] = Unstarted
    BY DEF KidInv
  <2>1. CASE u # s
    <3>1. call'[u] = call[u]
      BY <1>2, <2>1 DEF Advance
    <3>2. ~Orch(s)
      BY <1>1, <2>1, <3>1 DEF OrchOne, Orch, OrchOps
    <3>3. call[u].kid \in Ids /\ ledger[call[u].kid] = Unstarted
      BY <1>1, <3>1 DEF Typed, Shape, KidInv
    <3>. QED  BY <1>2, <3>1, <3>2, <3>3 DEF TameStep, Tame
  <2>2. CASE u = s /\ call'[s].pc = "parent"
    <3>1. SplitAdd(s) /\ call'[s] # Idle
      BY <1>2, <2>2 DEF Advance, Idle
    <3>2. Set(call[s].kid, Unstarted) /\ Goto(s, "parent")
      BY <1>1, <3>1 DEF SplitAdd, Done, Typed, TypeOK
    <3>3. call'[s].kid = call[s].kid
      BY <1>1, <3>2, GotoMoves DEF PCs
    <3>4. call[s].kid \in Ids
      BY <1>1, <3>1 DEF SplitAdd, At, Typed, Shape
    <3>. QED  BY <1>1, <2>2, <3>2, <3>3, <3>4 DEF Set, Typed, TypeOK
  <2>3. CASE u = s /\ call'[s].pc = "undo"
    <3>1. SplitParent(s) /\ UNCHANGED ledger
      BY <1>2, <2>3 DEF Advance, Idle
    <3>2. At(s, "split", "parent")
      BY <3>1 DEF SplitParent
    <3>3. Goto(s, "undo")
      <4>1. CASE ToCleanup(s, "split_request")
        <5>. DEFINE reason == ledger'[call[s].id].reason
                    prev == Snapshot(ledger[call[s].id])
                    k == [call[s] EXCEPT !.pc = "probe", !.intent = "split_request",
                                         !.reason = reason, !.prev = prev]
        <5>2. k.pc = "probe" /\ call' = [call EXCEPT ![s] = k]
          BY <1>4, <4>1 DEF ToCleanup, Calls
        <5>. HIDE DEF k
        <5>1. call'[s].pc = "probe"
          BY <1>1, <5>2 DEF Typed, TypeOK
        <5>. QED  BY <2>3, <5>1
      <4>2. CASE Done(s)
        BY <1>1, <2>3, <4>2 DEF Done, Typed, TypeOK, Idle
      <4>. QED  BY <3>1, <4>1, <4>2 DEF SplitParent
    <3>4. call'[s].kid = call[s].kid
      BY <1>1, <3>3, GotoMoves DEF PCs
    <3>. QED  BY <1>1, <2>3, <3>1, <3>2, <3>4 DEF KidInv, At
  <2>. QED  BY <2>1, <2>2, <2>3
<1>11. PrevInv'
  BY <1>1, <1>2 DEF PrevInv, Advance, Idle
<1>12. SweepInv'
  <2>. SUFFICES ASSUME NEW u \in Slots, At(u, "archive", "sweep")'
                PROVE  ledger'[call'[u].id].status \in Waiting
    BY DEF SweepInv, Waiting
  <2>1. CASE u # s
    <3>1. call'[u] = call[u] /\ At(u, "archive", "sweep")
      BY <1>2, <2>1 DEF Advance, At
    <3>2. ~Orch(s)
      BY <1>1, <2>1, <3>1 DEF OrchOne, Orch, OrchOps, At
    <3>3. ledger[call[u].id].status \in Waiting
      BY <1>1, <3>1 DEF SweepInv, Waiting
    <3>. QED  BY <1>2, <1>4, <3>1, <3>2, <3>3 DEF TameStep, Tame
  <2>2. CASE u = s
    <3>1. ArchiveFile(s) /\ call'[s] # Idle /\ call'[s].id = call[s].id
      BY <1>2, <2>2 DEF Advance, At, Idle
    <3>2. \/ Set(call[s].id, Absent)
          \/ UNCHANGED ledger /\ ledger[call[s].id].status = "absent"
      BY <1>1, <3>1 DEF ArchiveFile, Done, Typed, TypeOK, disk
    <3>3. ledger'[call[s].id].status = "absent"
      BY <1>1, <1>4, <3>2 DEF Set, Typed, TypeOK, Absent
    <3>. QED  BY <2>2, <3>1, <3>3 DEF Waiting
  <2>. QED  BY <2>1, <2>2
<1>. QED  BY <1>3, <1>5, <1>6, <1>8, <1>9, <1>10, <1>11, <1>12 DEF IInv

\* Only one call of the orchestrator agent is answered at a time.
LEMMA BeganAlone ==
  ASSUME OneOrchCall, NEW s \in Slots,
         Cardinality({u \in Slots : call[u].op \in OrchOps}) < OrchCalls
  PROVE  \A u \in Slots : ~Orch(u)
<1>. DEFINE S == {u \in Slots : call[u].op \in OrchOps}
<1>1. IsFiniteSet(S)
  BY SlotsAssumption, FS_Subset
<1>2. Cardinality(S) = 0
  BY <1>1, FS_CardinalityType, OrchCallsAssumption DEF OneOrchCall
<1>3. S = {}
  BY <1>1, <1>2, FS_EmptySet
<1>. QED  BY <1>3 DEF Orch

LEMMA BeganInv ==
  ASSUME OneOrchCall, IInv, NEW s \in Slots, Began(s)
  PROVE  IInv'
<1>1. Typed /\ OrchOne /\ MarkerInv /\ AddInv /\ AddOne /\ KidInv /\ PrevInv /\ SweepInv
  BY DEF IInv
<1>2. PICK op \in OrchOps \cup NotifyOps, id \in Ids, pc \in PCs, g \in 0..MaxLives,
           prev \in Entries : Called(s, op, id, pc, g, prev)
  BY DEF Began
<1>. DEFINE k == [Idle EXCEPT !.op = op, !.id = id, !.pc = pc, !.g = g, !.prev = prev]
<1>3. k.op = op /\ k.pc = pc /\ k.g = g /\ k.id = id /\ k.prev = prev
  BY DEF Idle
<1>4. call' = [call EXCEPT ![s] = k]
  BY <1>2 DEF Called
<1>. HIDE DEF k
<1>5. call'[s] = k /\ \A u \in Slots \ {s} : call'[u] = call[u]
  BY <1>1, <1>4 DEF Typed, TypeOK
<1>6. UNCHANGED ledger /\ UNCHANGED archive
  BY <1>2 DEF Called, disk
<1>7. pc \notin {"add", "parent", "undo"}
  BY <1>2 DEF Called
<1>8. Typed'
  BY <1>1, BeganTyped
<1>9. OrchOne'
  <2>1. CASE op \in OrchOps
    <3>1. \A u \in Slots : ~Orch(u)
      BY <1>2, <2>1, BeganAlone DEF Called
    <3>. QED  BY <1>5, <3>1 DEF OrchOne, Orch
  <2>2. CASE op \notin OrchOps
    BY <1>1, <1>3, <1>5, <2>2 DEF OrchOne, Orch
  <2>. QED  BY <2>1, <2>2
<1>10. MarkerInv'
  BY <1>1, <1>6 DEF MarkerInv
<1>11. AddInv' /\ AddOne' /\ KidInv'
  BY <1>1, <1>3, <1>5, <1>6, <1>7 DEF AddInv, AddOne, KidInv, At
<1>12. PrevInv'
  <2>1. op = "split" => prev.status \in {"unstarted", "in_progress", "blocked"}
    BY <1>2 DEF Called, SplitBegin
  <2>. QED  BY <1>1, <1>3, <1>5, <2>1 DEF PrevInv
<1>13. SweepInv'
  <2>1. op = "archive" /\ pc = "sweep" => ledger[id].status = "absent"
    BY <1>2 DEF Called
  <2>. QED  BY <1>1, <1>3, <1>5, <1>6, <2>1 DEF SweepInv, At
<1>. QED  BY <1>8, <1>9, <1>10, <1>11, <1>12, <1>13 DEF IInv

LEMMA NextInv ==
  ASSUME OneOrchCall, IInv, [Next]_vars
  PROVE  IInv'
<1>1. Typed /\ OrchOne /\ MarkerInv /\ AddInv /\ AddOne /\ KidInv /\ PrevInv /\ SweepInv
  BY DEF IInv
<1>2. Typed'
  BY <1>1, NextTyped
<1>3. CASE UNCHANGED <<disk, call, lives>>
  <2>1. UNCHANGED ledger /\ UNCHANGED archive /\ UNCHANGED call /\ UNCHANGED lives
    BY <1>3 DEF disk
  <2>2. OrchOne' /\ MarkerInv' /\ AddInv' /\ AddOne' /\ KidInv' /\ PrevInv' /\ SweepInv'
    BY <1>1, <2>1 DEF OrchOne, Orch, MarkerInv, AddInv, AddOne, KidInv, PrevInv, SweepInv, At
  <2>. QED  BY <1>2, <2>2 DEF IInv
<1>4. CASE CreateTask
  <2>1. PICK new \in Ids : FirstFree(new) /\ Set(new, Unstarted)
    BY <1>4 DEF CreateTask
  <2>2. /\ ledger' = [ledger EXCEPT ![new] = Unstarted] /\ UNCHANGED archive
        /\ UNCHANGED call /\ UNCHANGED lives
        /\ ledger[new].status = "absent" /\ ledger[new].marker = "none"
    BY <1>1, <1>4, <2>1 DEF CreateTask, FirstFree, FreeIds, Set, agents, MarkerInv
  <2>3. \A u \in Slots : call[u].id \in Ids
    BY <1>1 DEF Typed, TypeOK, Calls
  <2>4. /\ ledger'[new] = Unstarted /\ \A id \in Ids \ {new} : ledger'[id] = ledger[id]
        /\ Unstarted.status = "unstarted" /\ Unstarted.marker = "none"
    BY <1>1, <2>2 DEF Typed, TypeOK, Unstarted, Absent
  <2>5. OrchOne' /\ PrevInv' /\ MarkerInv'
    BY <1>1, <2>2, <2>4 DEF OrchOne, Orch, PrevInv, MarkerInv
  <2>6. AddInv' /\ AddOne'
    BY <1>1, <2>2, <2>3, <2>4 DEF AddInv, AddOne, Splitting, At
  <2>7. KidInv'
    <3>1. \A u \in Slots : call[u].pc \in {"parent", "undo"} => call[u].kid \in Ids
      BY <1>1 DEF Typed, Shape
    <3>. QED  BY <1>1, <2>2, <2>4, <3>1 DEF KidInv
  <2>8. SweepInv'
    BY <1>1, <2>2, <2>3, <2>4 DEF SweepInv, At
  <2>. QED  BY <1>2, <2>5, <2>6, <2>7, <2>8 DEF IInv
<1>5. CASE Crash
  <2>1. UNCHANGED ledger /\ UNCHANGED lives /\ \A u \in Slots : call'[u] = Idle
    BY <1>5 DEF Crash, agents
  <2>2. MarkerInv'
    BY <1>1, <2>1 DEF MarkerInv
  <2>3. OrchOne' /\ AddInv' /\ AddOne' /\ KidInv' /\ PrevInv' /\ SweepInv'
    BY <2>1 DEF Orch, OrchOps, OrchOne, AddInv, AddOne, KidInv, PrevInv, SweepInv, At, Idle
  <2>. QED  BY <1>2, <2>2, <2>3 DEF IInv
<1>6. ASSUME WindowLost \/ UNCHANGED vars PROVE UNCHANGED <<disk, call, lives>>
  BY <1>6 DEF WindowLost, vars, agents
<1>. QED  BY <1>3, <1>4, <1>5, <1>6, StepInv, BeginsBegan, BeganInv, <1>1 DEF Next

-----------------------------------------------------------------------------
(* What is recorded as completed *)

\* CompletionSticks: with one call of the orchestrator agent at a time, beside any number of
\* notifications, and whatever fails or crashes, a recorded completion is never taken back.
THEOREM RecordedStays ==
  ASSUME OneOrchCall
  PROVE  Spec => CompletionSticks
<1>1. ASSUME IInv, [Next]_vars, NEW id \in Ids, CompletionRecorded(id)
      PROVE  CompletionRecorded(id)' \/ (ledger'[id] = Absent /\ IsArchived(id)')
  <2>1. ASSUME NEW s \in Slots, Step(s)
        PROVE  CompletionRecorded(id)' \/ (ledger'[id] = Absent /\ IsArchived(id)')
    <3>1. TameStep(s)
      BY <1>1, <2>1, StepTame DEF IInv
    <3>. QED  BY <1>1, <3>1 DEF TameStep, Tame, Recorded, CompletionRecorded, IsArchived
  <2>2. ASSUME NEW s \in Slots, Begins(s) PROVE UNCHANGED ledger
    BY <1>1, <2>2, BeginsKeeps DEF IInv
  <2>3. ASSUME CreateTask PROVE CompletionRecorded(id)'
    <3>1. PICK new \in Ids : FirstFree(new) /\ Set(new, Unstarted)
      BY <2>3 DEF CreateTask
    <3>2. id # new
      BY <1>1, <3>1 DEF IInv, MarkerInv, FirstFree, FreeIds, CompletionRecorded
    <3>. QED  BY <1>1, <3>1, <3>2 DEF Set, IInv, Typed, TypeOK, CompletionRecorded
  <2>4. ASSUME Crash \/ WindowLost \/ UNCHANGED vars PROVE UNCHANGED ledger
    <3>1. CASE Crash
      BY <3>1 DEF Crash
    <3>2. CASE WindowLost
      BY <3>2 DEF WindowLost, disk
    <3>3. CASE UNCHANGED vars
      BY <3>3 DEF vars, disk
    <3>. QED  BY <2>4, <3>1, <3>2, <3>3
  <2>. QED  BY <1>1, <2>1, <2>2, <2>3, <2>4 DEF Next, CompletionRecorded
<1>2. IInv /\ [Next]_vars => IInv'
  BY NextInv
<1>3. IInv /\ [Next]_vars
        => \A id \in Ids : CompletionRecorded(id)
             => CompletionRecorded(id)' \/ (ledger'[id] = Absent /\ IsArchived(id)')
  BY <1>1
<1>. QED  BY <1>2, <1>3, InitInv, PTL DEF Spec, CompletionSticks
=============================================================================
