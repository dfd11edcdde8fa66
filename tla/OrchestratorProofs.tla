------------------------- MODULE OrchestratorProofs -------------------------
(***************************************************************************)
(* Theorems about Orchestrator for every set of callers, every number of   *)
(* drain slots, every queue bound and every number of failures.            *)
(*                                                                         *)
(* The argument: the goroutines that own the draining flag are at most one,*)
(* and the flag is set exactly while there is one.  So starting, a plain   *)
(* boolean, is TRUE exactly while a goroutine is between claimStart and    *)
(* releaseStart, and Close, which sets closed before it waits for starting *)
(* to be FALSE, returns only when nobody touches the window and nobody     *)
(* will.                                                                   *)
(***************************************************************************)
EXTENDS Orchestrator, SequenceTheorems, NaturalsInduction, WellFoundedInduction, TLAPS

\* Control points at which the goroutine has read the head of the queue.
ReadPCs == {"probe", "check", "claim", "killrun", "prep", "reset", "create", "send",
            "prompt", "cleanup", "pop"}

EntryRead == \A t \in Threads : pc[t] \in ReadPCs => entry[t] \in Entries

Typed == TypeOK /\ EntryRead

FlagOwned == draining => \E t \in Threads : Owner(t)

StartClaimed == starting <=> \E t \in Threads : pc[t] \in ClaimedPCs

Closing ==
  /\ closed <=> closer # "open"
  /\ doneClosed => closed
  /\ closer = "returned" => ~starting

-----------------------------------------------------------------------------
(* The queue operators *)

\* A set of positions has a first one.
LEMMA FirstPosition ==
  ASSUME NEW S \in SUBSET Nat, S # {}
  PROVE  \E j \in S : \A k \in S : j <= k
<1>1. IsWellFoundedOn(OpToRel(<, Nat), Nat)
  BY NatLessThanWellFounded
<1>2. PICK j \in S : \A k \in S : ~(<<k, j>> \in OpToRel(<, Nat))
  BY <1>1, WFMin
<1>3. \A k \in S : ~(k < j)
  BY <1>2 DEF OpToRel
<1>. QED  BY <1>3

\* The position removeQueuedAtLocked picks is 0 or a position of the queue.
LEMMA PositionInQueue ==
  ASSUME NEW q \in Seq(Entries), NEW i \in Nat, NEW why
  PROVE  PositionOf(q, i, why) \in 0..Len(q)
<1>. DEFINE Same == {j \in DOMAIN q : q[j].reason = why}
            After == {j \in Same : j >= i}
<1>1. DOMAIN q = 1..Len(q) /\ Len(q) \in Nat
  BY LenProperties
<1>2. Same \in SUBSET Nat /\ After \in SUBSET Nat
  BY <1>1
<1>3. ASSUME NEW S \in SUBSET Nat, S # {}
      PROVE  Min(S) \in S
  BY <1>3, FirstPosition DEF Min
<1>4. PositionOf(q, i, why) =
        IF After # {} THEN Min(After) ELSE IF Same # {} THEN Min(Same) ELSE 0
  BY DEF PositionOf
<1>5. After # {} => Min(After) \in 1..Len(q)
  BY <1>1, <1>2, <1>3
<1>6. Same # {} => Min(Same) \in 1..Len(q)
  BY <1>1, <1>2, <1>3
<1>. QED  BY <1>1, <1>4, <1>5, <1>6

\* removeQueuedAtLocked yields a queue of entries that is not longer.
LEMMA WithoutEntryType ==
  ASSUME NEW q \in Seq(Entries), NEW i \in Nat, NEW why
  PROVE  /\ WithoutEntry(q, i, why) \in Seq(Entries)
         /\ Len(WithoutEntry(q, i, why)) <= Len(q)
<1>. DEFINE p == PositionOf(q, i, why)
<1>1. p \in 0..Len(q) /\ Len(q) \in Nat
  BY PositionInQueue, LenProperties
<1>2. CASE p = 0
  BY <1>1, <1>2 DEF WithoutEntry
<1>3. CASE p # 0
  <2>. DEFINE front == SubSeq(q, 1, p - 1)
              back == SubSeq(q, p + 1, Len(q))
  <2>1. \A j \in 1..(p - 1) : q[j] \in Entries
    BY <1>1, <1>3, ElementOfSeq
  <2>2. \A j \in (p + 1)..Len(q) : q[j] \in Entries
    BY <1>1, <1>3, ElementOfSeq
  <2>3. WithoutEntry(q, i, why) = front \o back
    BY <1>3 DEF WithoutEntry, RemoveAt
  <2>. HIDE DEF p
  <2>4. front \in Seq(Entries) /\ Len(front) = p - 1
    BY <1>1, <1>3, <2>1, SubSeqProperties
  <2>5. back \in Seq(Entries) /\ Len(back) = Len(q) - p
    BY <1>1, <1>3, <2>2, SubSeqProperties
  <2>. HIDE DEF front, back
  <2>6. front \o back \in Seq(Entries) /\ Len(front \o back) = Len(front) + Len(back)
    BY <2>4, <2>5, ConcatProperties
  <2>. QED  BY <1>1, <1>3, <2>3, <2>4, <2>5, <2>6
<1>. QED  BY <1>2, <1>3

-----------------------------------------------------------------------------
(* Types *)

\* The control points a goroutine can go to, and which of them have read the queue.
LEMMA ControlPoints ==
  /\ {"returned", "off", "tick", "done", "peek", "release"} \subseteq PCs \ ReadPCs
  /\ ReadPCs \subseteq PCs
  /\ {"probe", "check", "claim", "killrun", "prep", "reset", "create", "send", "prompt",
      "cleanup", "pop"} \subseteq ReadPCs
  BY DEF PCs, TryPCs, ClaimedPCs, ReadPCs

\* A goroutine moves to a control point at which its entry, if it needs one, is there.
LEMMA MoveTyped ==
  ASSUME Typed, NEW t \in Threads, NEW l \in PCs, pc' = [pc EXCEPT ![t] = l],
         \A u \in Threads \ {t} : entry'[u] = entry[u],
         l \in ReadPCs => entry'[t] \in Entries
  PROVE  pc' \in [Threads -> PCs] /\ EntryRead'
<1>1. pc \in [Threads -> PCs]
  BY DEF Typed, TypeOK
<1>2. \A u \in Threads : pc'[u] = IF u = t THEN l ELSE pc[u]
  BY <1>1
<1>. QED  BY <1>1, <1>2 DEF Typed, EntryRead

LEMMA ReturnTyped ==
  ASSUME Typed, NEW t \in Threads, NEW v \in {"handled", "empty", "err"}, Return(t, v),
         entry' = entry
  PROVE  /\ pc' \in [Threads -> PCs] /\ EntryRead'
         /\ ret' \in [Threads -> {"none", "handled", "empty", "err"}]
<1>1. ret' \in [Threads -> {"none", "handled", "empty", "err"}]
  BY DEF Return, Typed, TypeOK
<1>. DEFINE l == IF pc[t] \in ClaimedPCs THEN "release" ELSE "done"
<1>2. l \in PCs /\ l \notin ReadPCs
  BY ControlPoints
<1>3. pc' = [pc EXCEPT ![t] = l]
  BY DEF Return, Goto
<1>. HIDE DEF l
<1>. QED  BY <1>1, <1>2, <1>3, MoveTyped

LEMMA GotoTyped ==
  ASSUME Typed, NEW t \in Threads, NEW l \in PCs, Goto(t, l), entry' = entry,
         pc[t] \in ReadPCs \/ l \notin ReadPCs
  PROVE  pc' \in [Threads -> PCs] /\ EntryRead'
<1>1. l \in ReadPCs => entry'[t] \in Entries
  BY DEF Typed, EntryRead
<1>. QED  BY <1>1, MoveTyped DEF Goto

-----------------------------------------------------------------------------
\* The initial states are typed.
LEMMA InitTyped == Init => Typed
<1>. SUFFICES ASSUME Init PROVE Typed
  OBVIOUS
<1>1. queued \in Seq(Entries) /\ Len(queued) <= MaxQueued /\ launched \in Seq(Requests)
  BY MaxQueuedAssumption, EmptySeq DEF Init
<1>2. pc \in [Threads -> PCs] /\ \A t \in Threads : pc[t] \in {"new", "off"}
  BY DEF Init, PCs
<1>3. ret \in [Threads -> {"none", "handled", "empty", "err"}] /\ idx \in [Threads -> Nat]
      /\ active \in [Threads -> BOOLEAN] /\ entry \in [Threads -> Entries \cup {NoEntry}]
  BY DEF Init
<1>4. EntryRead
  BY <1>2 DEF EntryRead, ReadPCs
<1>. QED  BY <1>1, <1>2, <1>3, <1>4 DEF Init, Typed, TypeOK

\* Every step preserves the types.
LEMMA NextTyped == Typed /\ [Next]_vars => Typed'
<1>. SUFFICES ASSUME Typed, [Next]_vars PROVE Typed'
  OBVIOUS
<1>. USE MaxQueuedAssumption, MaxFailsAssumption, NoEntryAssumption, ThreadsAssumption
     DEF Typed, TypeOK, shared, window, locals, history
<1>1. ASSUME NEW r \in Requests, TriggerRefused(r) PROVE Typed'
  <2>1. pc' \in [Threads -> PCs] /\ EntryRead'
    BY <1>1, GotoTyped, ControlPoints DEF TriggerRefused, Threads
  <2>. QED  BY <1>1, <2>1 DEF TriggerRefused, Fail
<1>2. ASSUME NEW r \in Requests, TriggerQueued(r) PROVE Typed'
  <2>1. [req |-> r, reason |-> reason[r]] \in Entries
    BY DEF Entries
  <2>2. queued' \in Seq(Entries) /\ Len(queued') = Len(queued) + 1
    BY <1>2, <2>1, AppendProperties DEF TriggerQueued
  <2>3. Len(queued) < MaxQueued /\ Len(queued) \in Nat
    BY <1>2, LenProperties DEF TriggerQueued, QueueFull
  <2>4. Len(queued') <= MaxQueued
    BY <2>2, <2>3
  <2>5. pc' \in [Threads -> PCs] /\ EntryRead'
    BY <1>2, GotoTyped, ControlPoints DEF TriggerQueued, Threads
  <2>6. idx' \in [Threads -> Nat]
    <3>1. idx' = [idx EXCEPT ![r] = Len(queued) + 1]
      BY <1>2 DEF TriggerQueued
    <3>2. Len(queued) + 1 \in Nat /\ idx \in [Threads -> Nat]
      BY <2>3
    <3>. QED  BY <3>1, <3>2
  <2>7. result' \in [Requests -> {"none", "ok", "error"}]
    BY <1>2 DEF TriggerQueued
  <2>8. draining' \in BOOLEAN
    BY <1>2 DEF TriggerQueued
  <2>. QED  BY <1>2, <2>2, <2>4, <2>5, <2>6, <2>7, <2>8 DEF TriggerQueued
<1>3. ASSUME NEW r \in Requests, TriggerReturns(r) PROVE Typed'
  <2>1. queued' \in Seq(Entries) /\ Len(queued') <= Len(queued)
    BY <1>3, WithoutEntryType, LenProperties DEF TriggerReturns, Threads
  <2>2. Len(queued') <= MaxQueued
    BY <2>1, LenProperties
  <2>3. pc' \in [Threads -> PCs] /\ EntryRead'
    <3>1. r \in Threads
      BY DEF Threads
    <3>2. CASE pc' = [pc EXCEPT ![r] = "returned"]
      BY <1>3, <3>1, <3>2, MoveTyped, ControlPoints DEF TriggerReturns
    <3>3. ASSUME NEW d \in Drains, pc' = [pc EXCEPT ![r] = "returned", ![d] = "tick"]
          PROVE  pc' \in [Threads -> PCs] /\ EntryRead'
      <4>1. d \in Threads /\ d # r
        BY ThreadsAssumption DEF Threads
      <4>2. \A u \in Threads :
              pc'[u] = IF u = d THEN "tick" ELSE IF u = r THEN "returned" ELSE pc[u]
        BY <3>1, <3>3, <4>1
      <4>3. \A u \in Threads \ {r} : entry'[u] = entry[u]
        BY <1>3 DEF TriggerReturns
      <4>. QED  BY <3>1, <3>3, <4>1, <4>2, <4>3, ControlPoints DEF EntryRead
    <3>. QED  BY <1>3, <3>2, <3>3 DEF TriggerReturns, HandOver
  <2>4. draining' \in BOOLEAN
    BY <1>3 DEF TriggerReturns, HandOver
  <2>5. /\ ret' \in [Threads -> {"none", "handled", "empty", "err"}]
        /\ idx' \in [Threads -> Nat]
        /\ entry' \in [Threads -> Entries \cup {NoEntry}]
        /\ active' \in [Threads -> BOOLEAN]
        /\ result' \in [Requests -> {"none", "ok", "error"}]
    BY <1>3 DEF TriggerReturns
  <2>. QED  BY <1>3, <2>1, <2>2, <2>3, <2>4, <2>5 DEF TriggerReturns
<1>4. ASSUME NEW t \in Threads, Peek(t) PROVE Typed'
  <2>1. CASE entry' = entry
    <3>1. pc' \in [Threads -> PCs] /\ EntryRead'
          /\ ret' \in [Threads -> {"none", "handled", "empty", "err"}]
      <4>1. CASE \E v \in {"err", "empty"} : Return(t, v)
        BY <2>1, <4>1, ReturnTyped
      <4>2. CASE queued # <<>> /\ entry' = [entry EXCEPT ![t] = Head(queued)]
                 /\ Goto(t, "probe") /\ ret' = ret
        <5>1. entry'[t] \in Entries /\ Head(queued) \in Entries
          BY <4>2, HeadTailProperties
        <5>. QED  BY <2>1, <4>2, <5>1, MoveTyped, ControlPoints DEF Goto
      <4>. QED  BY <1>4, <4>1, <4>2 DEF Peek
    <3>. QED  BY <1>4, <2>1, <3>1 DEF Peek, Fail
  <2>2. CASE /\ queued # <<>> /\ entry' = [entry EXCEPT ![t] = Head(queued)]
             /\ Goto(t, "probe") /\ ret' = ret /\ fails' = fails
    <3>1. Head(queued) \in Entries
      BY <2>2, HeadTailProperties
    <3>2. entry' \in [Threads -> Entries \cup {NoEntry}] /\ entry'[t] \in Entries
          /\ \A u \in Threads \ {t} : entry'[u] = entry[u]
      BY <2>2, <3>1
    <3>3. pc' \in [Threads -> PCs] /\ EntryRead'
      BY <2>2, <3>2, MoveTyped, ControlPoints DEF Goto
    <3>. QED  BY <1>4, <2>2, <3>2, <3>3 DEF Peek
  <2>. QED  BY <1>4, <2>1, <2>2 DEF Peek
<1>5. ASSUME NEW t \in Threads, Probe(t) PROVE Typed'
  <2>1. pc' \in [Threads -> PCs] /\ EntryRead'
        /\ ret' \in [Threads -> {"none", "handled", "empty", "err"}]
    BY <1>5, ReturnTyped, GotoTyped, ControlPoints DEF Probe
  <2>2. active' \in [Threads -> BOOLEAN]
    <3>1. LooksIdle \in BOOLEAN
      BY DEF LooksIdle
    <3>. QED  BY <1>5, <3>1 DEF Probe
  <2>3. runStart' \in {"zero", "set", "expired"}
    BY <1>5 DEF Probe
  <2>. QED  BY <1>5, <2>1, <2>2, <2>3 DEF Probe, Fail
<1>6. ASSUME NEW t \in Threads, Check(t) PROVE Typed'
  <2>1. pc' \in [Threads -> PCs] /\ EntryRead'
        /\ ret' \in [Threads -> {"none", "handled", "empty", "err"}]
    BY <1>6, ReturnTyped, GotoTyped, ControlPoints DEF Check
  <2>. QED  BY <1>6, <2>1 DEF Check, Fail
<1>7. ASSUME NEW t \in Threads, ClaimStart(t) PROVE Typed'
  <2>1. pc' \in [Threads -> PCs] /\ EntryRead'
        /\ ret' \in [Threads -> {"none", "handled", "empty", "err"}]
    <3>1. CASE Return(t, "err")
      BY <1>7, <3>1, ReturnTyped DEF ClaimStart
    <3>2. CASE Goto(t, IF active[t] THEN "killrun" ELSE "prep") /\ ret' = ret
      BY <1>7, <3>2, GotoTyped, ControlPoints DEF ClaimStart
    <3>. QED  BY <1>7, <3>1, <3>2 DEF ClaimStart
  <2>2. starting' \in BOOLEAN
    BY <1>7 DEF ClaimStart
  <2>. QED  BY <1>7, <2>1, <2>2 DEF ClaimStart
<1>8. ASSUME NEW t \in Threads, KillTimedOutRun(t) PROVE Typed'
  <2>1. pc' \in [Threads -> PCs] /\ EntryRead'
        /\ ret' \in [Threads -> {"none", "handled", "empty", "err"}]
    BY <1>8, ReturnTyped, GotoTyped, ControlPoints DEF KillTimedOutRun
  <2>. QED  BY <1>8, <2>1 DEF KillTimedOutRun, KillWindow, Fail
<1>9. ASSUME NEW t \in Threads, Prepare(t) PROVE Typed'
  <2>1. pc' \in [Threads -> PCs] /\ EntryRead'
        /\ ret' \in [Threads -> {"none", "handled", "empty", "err"}]
    BY <1>9, ReturnTyped, GotoTyped, ControlPoints DEF Prepare
  <2>. QED  BY <1>9, <2>1 DEF Prepare, Fail
<1>10. ASSUME NEW t \in Threads, ResetIdleWindow(t) PROVE Typed'
  <2>1. pc' \in [Threads -> PCs] /\ EntryRead'
        /\ ret' \in [Threads -> {"none", "handled", "empty", "err"}]
    BY <1>10, ReturnTyped, GotoTyped, ControlPoints DEF ResetIdleWindow
  <2>. QED  BY <1>10, <2>1 DEF ResetIdleWindow, KillWindow, Fail
<1>11. ASSUME NEW t \in Threads, CreateWindow(t) PROVE Typed'
  <2>1. pc' \in [Threads -> PCs] /\ EntryRead'
        /\ ret' \in [Threads -> {"none", "handled", "empty", "err"}]
    BY <1>11, ReturnTyped, GotoTyped, ControlPoints DEF CreateWindow
  <2>. QED  BY <1>11, <2>1 DEF CreateWindow, Fail
<1>12. ASSUME NEW t \in Threads, SendCommand(t) PROVE Typed'
  <2>1. entry[t] \in Entries /\ entry[t].req \in Requests
    <3>1. pc[t] \in ReadPCs
      BY <1>12, ControlPoints DEF SendCommand
    <3>. QED  BY <3>1 DEF EntryRead, Entries
  <2>2. Append(launched, entry[t].req) \in Seq(Requests)
    BY <2>1, AppendProperties
  <2>3. pc' \in [Threads -> PCs] /\ EntryRead'
    BY <1>12, GotoTyped, ControlPoints DEF SendCommand, MarkRunStarted
  <2>4. /\ launched' \in Seq(Requests) /\ run' \in Requests \cup {NoEntry}
        /\ runStart' \in {"zero", "set", "expired"} /\ fails' \in Nat
    <3>1. fails' \in Nat
      BY <1>12 DEF SendCommand, Fail
    <3>2. CASE MarkRunStarted(t)
      BY <2>1, <2>2, <3>1, <3>2 DEF MarkRunStarted
    <3>3. CASE UNCHANGED <<runStart, history>>
      BY <3>1, <3>3
    <3>. QED  BY <1>12, <3>2, <3>3 DEF SendCommand
  <2>5. win' \in {"none", "shell", "launching", "busy"}
    BY <1>12 DEF SendCommand
  <2>. QED  BY <1>12, <2>3, <2>4, <2>5 DEF SendCommand
<1>13. ASSUME NEW t \in Threads, SendPrompt(t) PROVE Typed'
  <2>1. entry[t] \in Entries /\ entry[t].req \in Requests
    <3>1. pc[t] \in ReadPCs
      BY <1>13, ControlPoints DEF SendPrompt
    <3>. QED  BY <3>1 DEF EntryRead, Entries
  <2>2. Append(launched, entry[t].req) \in Seq(Requests)
    BY <2>1, AppendProperties
  <2>3. pc' \in [Threads -> PCs] /\ EntryRead'
    BY <1>13, GotoTyped, ControlPoints DEF SendPrompt, MarkRunStarted
  <2>4. /\ launched' \in Seq(Requests) /\ run' \in Requests \cup {NoEntry}
        /\ runStart' \in {"zero", "set", "expired"} /\ fails' \in Nat
    <3>1. fails' \in Nat
      BY <1>13 DEF SendPrompt, Fail
    <3>2. CASE MarkRunStarted(t)
      BY <2>1, <2>2, <3>1, <3>2 DEF MarkRunStarted
    <3>3. CASE UNCHANGED <<runStart, history>>
      BY <3>1, <3>3
    <3>. QED  BY <1>13, <3>2, <3>3 DEF SendPrompt
  <2>5. win' \in {"none", "shell", "launching", "busy"}
    BY <1>13 DEF SendPrompt
  <2>. QED  BY <1>13, <2>3, <2>4, <2>5 DEF SendPrompt
<1>14. ASSUME NEW t \in Threads, CleanupStartedWindow(t) PROVE Typed'
  <2>1. pc' \in [Threads -> PCs] /\ EntryRead'
        /\ ret' \in [Threads -> {"none", "handled", "empty", "err"}]
    BY <1>14, ReturnTyped, GotoTyped, ControlPoints DEF CleanupStartedWindow
  <2>. QED  BY <1>14, <2>1 DEF CleanupStartedWindow, KillWindow, Fail
<1>15. ASSUME NEW t \in Threads, PopStarted(t) PROVE Typed'
  <2>1. queued' \in Seq(Entries) /\ Len(queued') <= MaxQueued
    <3>1. CASE queued = <<>>
      BY <1>15, <3>1 DEF PopStarted
    <3>2. CASE queued # <<>>
      BY <1>15, <3>2, HeadTailProperties, LenProperties DEF PopStarted
    <3>. QED  BY <3>1, <3>2
  <2>2. pc' \in [Threads -> PCs] /\ EntryRead'
        /\ ret' \in [Threads -> {"none", "handled", "empty", "err"}]
    BY <1>15, ReturnTyped DEF PopStarted
  <2>. QED  BY <1>15, <2>1, <2>2 DEF PopStarted
<1>16. ASSUME NEW t \in Threads, ReleaseStart(t) PROVE Typed'
  <2>1. pc' \in [Threads -> PCs] /\ EntryRead'
        /\ ret' \in [Threads -> {"none", "handled", "empty", "err"}]
    BY <1>16, ReturnTyped, GotoTyped, ControlPoints DEF ReleaseStart
  <2>. QED  BY <1>16, <2>1 DEF ReleaseStart
<1>17. ASSUME NEW t \in Threads, DrainTick(t) PROVE Typed'
  <2>1. pc' \in [Threads -> PCs] /\ EntryRead'
    BY <1>17, GotoTyped, ControlPoints DEF DrainTick
  <2>. QED  BY <1>17, <2>1 DEF DrainTick
<1>18. ASSUME NEW t \in Threads, DrainContinues(t) PROVE Typed'
  <2>1. pc' \in [Threads -> PCs] /\ EntryRead'
    BY <1>18, MoveTyped, ControlPoints DEF DrainContinues, Goto
  <2>2. /\ ret' \in [Threads -> {"none", "handled", "empty", "err"}]
        /\ entry' \in [Threads -> Entries \cup {NoEntry}]
        /\ active' \in [Threads -> BOOLEAN]
    BY <1>18 DEF DrainContinues
  <2>. QED  BY <1>18, <2>1, <2>2 DEF DrainContinues
<1>19. CASE CloseStep
  BY <1>19 DEF CloseStep, CloseMarks, CloseSignals, CloseReturns, EntryRead
<1>20. CASE Environment
  BY <1>20 DEF Environment, HarnessAppears, HarnessExits, WindowLost, TimeoutElapses,
               KillWindow, Fail, EntryRead
<1>21. CASE UNCHANGED vars
  BY <1>21 DEF vars, EntryRead
<1>. QED
  BY <1>1, <1>2, <1>3, <1>4, <1>5, <1>6, <1>7, <1>8, <1>9, <1>10, <1>11, <1>12, <1>13,
     <1>14, <1>15, <1>16, <1>17, <1>18, <1>19, <1>20, <1>21
     DEF Next, Goroutine, TryStartNext, TriggerReturns

\* Types hold in every reachable state, and the queue never outgrows its bound.
THEOREM TypeCorrect == Spec => []TypeOK
<1>1. Spec => []Typed
  BY InitTyped, NextTyped, PTL DEF Spec
<1>2. Typed => TypeOK
  BY DEF Typed
<1>. QED  BY <1>1, <1>2, PTL
-----------------------------------------------------------------------------
(* The draining flag is a lock, and starting is its claimed part *)

Control == OneOwner /\ FlagOwned /\ NothingStranded /\ StartClaimed /\ Closing

OwnerPCs == TryPCs \cup {"tick", "done"}

\* The variables the control invariant is about, apart from the program counters.
controlVars == <<closed, doneClosed, closer>>

LEMMA ControlPCs ==
  /\ ClaimedPCs \subseteq OwnerPCs
  /\ {"peek", "probe", "check", "claim", "tick", "done"} \subseteq OwnerPCs \ ClaimedPCs
  /\ {"killrun", "prep", "reset", "create", "send", "prompt", "cleanup", "pop", "release"}
       \subseteq ClaimedPCs
  /\ {"new", "returned", "off"} \cap OwnerPCs = {}
  BY DEF OwnerPCs, TryPCs, ClaimedPCs

\* For the owner, starting says whether it has claimed the start.
LEMMA OwnerClaims ==
  ASSUME OneOwner, StartClaimed, NEW t \in Threads, pc[t] \in OwnerPCs
  PROVE  starting <=> pc[t] \in ClaimedPCs
<1>1. ASSUME NEW u \in Threads, pc[u] \in ClaimedPCs PROVE u = t
  BY <1>1, ControlPCs DEF OneOwner, Owner, OwnerPCs
<1>. QED  BY <1>1 DEF StartClaimed

\* The owner moves on and stays the owner; starting follows it.
LEMMA OwnerMoves ==
  ASSUME TypeOK, Control, NEW t \in Threads, pc[t] \in OwnerPCs,
         NEW l \in OwnerPCs, pc' = [pc EXCEPT ![t] = l],
         draining' = draining, UNCHANGED controlVars,
         starting' <=> l \in ClaimedPCs,
         closer = "returned" => ~starting'
  PROVE  Control'
<1>1. pc \in [Threads -> PCs]
  BY DEF TypeOK
<1>2. \A u \in Threads : pc'[u] = IF u = t THEN l ELSE pc[u]
  BY <1>1
<1>3. \A u \in Threads : pc[u] \in OwnerPCs => u = t
  BY DEF Control, OneOwner, Owner, OwnerPCs
<1>4. \A u \in Threads : pc'[u] \in OwnerPCs <=> u = t
  BY <1>2, <1>3
<1>5. draining
  BY DEF Control, OneOwner, Owner, OwnerPCs
<1>6. OneOwner' /\ FlagOwned' /\ NothingStranded'
  BY <1>4, <1>5 DEF OneOwner, FlagOwned, NothingStranded, Owner, OwnerPCs
<1>7. StartClaimed'
  BY <1>2, <1>4, ControlPCs DEF StartClaimed
<1>8. Closing'
  BY DEF Control, Closing, controlVars
<1>. QED  BY <1>6, <1>7, <1>8 DEF Control

\* The owner gives the flag up: nobody owns it then.
LEMMA OwnerLeaves ==
  ASSUME TypeOK, Control, NEW t \in Threads, pc[t] \in OwnerPCs \ ClaimedPCs,
         NEW l \in PCs \ OwnerPCs, pc' = [pc EXCEPT ![t] = l],
         draining' = FALSE, UNCHANGED <<controlVars, starting>>,
         ~closed => queued' = <<>>
  PROVE  Control'
<1>1. pc \in [Threads -> PCs]
  BY DEF TypeOK
<1>2. \A u \in Threads : pc'[u] = IF u = t THEN l ELSE pc[u]
  BY <1>1
<1>3. \A u \in Threads : pc[u] \in OwnerPCs => u = t
  BY DEF Control, OneOwner, Owner, OwnerPCs
<1>4. \A u \in Threads : pc'[u] \notin OwnerPCs
  BY <1>2, <1>3
<1>5. ~starting
  BY OwnerClaims DEF Control
<1>6. OneOwner' /\ FlagOwned' /\ NothingStranded'
  BY <1>4 DEF OneOwner, FlagOwned, NothingStranded, Owner, OwnerPCs, controlVars
<1>7. StartClaimed'
  BY <1>4, <1>5, ControlPCs DEF StartClaimed
<1>8. Closing'
  BY DEF Control, Closing, controlVars
<1>. QED  BY <1>6, <1>7, <1>8 DEF Control

\* A step that changes neither the program counters nor the flags.
LEMMA ControlUnchanged ==
  ASSUME Control, UNCHANGED <<pc, queued, draining, starting, controlVars>>
  PROVE  Control'
  BY DEF Control, OneOwner, FlagOwned, NothingStranded, StartClaimed, Closing, Owner,
         controlVars

\* tryStartNext goes from one control point to the next of the same kind, or returns.
LEMMA GoesOn ==
  ASSUME TypeOK, Control, NEW t \in Threads, NEW k, pc[t] = k, k \in OwnerPCs,
         NEW l \in OwnerPCs, Goto(t, l), l \in ClaimedPCs <=> k \in ClaimedPCs,
         UNCHANGED <<draining, starting, controlVars>>
  PROVE  Control'
<1>1. starting <=> k \in ClaimedPCs
  BY OwnerClaims DEF Control
<1>2. closer = "returned" => ~starting'
  BY DEF Control, Closing
<1>. QED  BY <1>1, <1>2, OwnerMoves DEF Goto

LEMMA ReturnsControl ==
  ASSUME TypeOK, Control, NEW t \in Threads, pc[t] \in OwnerPCs, NEW v, Return(t, v),
         UNCHANGED <<draining, starting, controlVars>>
  PROVE  Control'
<1>. DEFINE l == IF pc[t] \in ClaimedPCs THEN "release" ELSE "done"
<1>1. l \in OwnerPCs /\ (l \in ClaimedPCs <=> pc[t] \in ClaimedPCs)
  BY ControlPCs
<1>2. Goto(t, l)
  BY DEF Return
<1>. HIDE DEF l
<1>. QED  BY <1>1, <1>2, GoesOn

\* The initial states satisfy the control invariant.
LEMMA InitControl == Init => Control
<1>. SUFFICES ASSUME Init PROVE Control
  OBVIOUS
<1>1. \A t \in Threads : pc[t] \notin OwnerPCs
  BY ControlPCs DEF Init
<1>. QED
  BY <1>1, ControlPCs DEF Init, Control, OneOwner, FlagOwned, NothingStranded, StartClaimed,
     Closing, Owner, OwnerPCs

\* Every step preserves it.
LEMMA NextControl == TypeOK /\ Control /\ [Next]_vars => Control'
<1>. SUFFICES ASSUME TypeOK, Control, [Next]_vars PROVE Control'
  OBVIOUS
<1>. USE ControlPCs DEF shared, window, locals, history, controlVars
<1>1. ASSUME NEW r \in Requests, TriggerRefused(r) PROVE Control'
  <2>1. pc' = [pc EXCEPT ![r] = "returned"] /\ pc[r] = "new"
    BY <1>1 DEF TriggerRefused, Goto
  <2>2. \A u \in Threads : (pc'[u] = pc[u]) \/ (u = r /\ pc'[u] = "returned")
    BY <2>1 DEF TypeOK
  <2>3. \A u \in Threads : pc'[u] = pc[u] \/ (pc'[u] \notin OwnerPCs /\ pc[u] \notin OwnerPCs)
    BY <2>1, <2>2
  <2>4. UNCHANGED <<queued, draining, starting, controlVars>>
    BY <1>1 DEF TriggerRefused
  <2>. QED
    BY <2>3, <2>4 DEF Control, OneOwner, FlagOwned, NothingStranded, StartClaimed, Closing,
       Owner, OwnerPCs
<1>2. ASSUME NEW r \in Requests, TriggerQueued(r) PROVE Control'
  <2>1. r \in Threads /\ pc[r] = "new" /\ pc \in [Threads -> PCs]
    BY <1>2 DEF TriggerQueued, Threads, TypeOK
  <2>2. UNCHANGED <<starting, controlVars>>
    BY <1>2 DEF TriggerQueued
  <2>3. CASE draining
    <3>1. pc' = [pc EXCEPT ![r] = "returned"] /\ draining' = draining
      BY <1>2, <2>3 DEF TriggerQueued, SomeoneDrains, Goto
    <3>2. \A u \in Threads : pc'[u] = pc[u] \/ (pc'[u] \notin OwnerPCs /\ pc[u] \notin OwnerPCs)
      BY <2>1, <3>1
    <3>3. PICK t \in Threads : pc[t] \in OwnerPCs
      BY <2>3 DEF Control, FlagOwned, Owner, OwnerPCs
    <3>4. pc'[t] \in OwnerPCs
      BY <3>2, <3>3
    <3>. QED
      BY <2>2, <3>1, <3>2, <3>4 DEF Control, OneOwner, FlagOwned, NothingStranded, StartClaimed,
         Closing, Owner, OwnerPCs
  <2>4. CASE ~draining
    <3>1. pc' = [pc EXCEPT ![r] = "peek"] /\ draining'
      BY <1>2, <2>4 DEF TriggerQueued, SomeoneDrains, Goto
    <3>2. \A u \in Threads : pc[u] \notin OwnerPCs
      BY <2>4 DEF Control, OneOwner, Owner, OwnerPCs
    <3>3. \A u \in Threads : pc'[u] = IF u = r THEN "peek" ELSE pc[u]
      BY <2>1, <3>1
    <3>4. ~starting /\ \A u \in Threads : pc'[u] \notin ClaimedPCs
      BY <3>2, <3>3 DEF Control, StartClaimed
    <3>. QED
      BY <2>1, <2>2, <3>1, <3>2, <3>3, <3>4 DEF Control, OneOwner, FlagOwned, NothingStranded,
         StartClaimed, Closing, Owner, OwnerPCs
  <2>. QED  BY <2>3, <2>4
<1>3. ASSUME NEW r \in Requests, TriggerReturns(r) PROVE Control'
  <2>1. r \in Threads /\ pc[r] = "done" /\ pc \in [Threads -> PCs]
    BY <1>3 DEF TriggerReturns, Threads, TypeOK
  <2>2. UNCHANGED <<starting, controlVars>>
    BY <1>3 DEF TriggerReturns
  <2>3. CASE queued' = <<>>
    <3>1. pc' = [pc EXCEPT ![r] = "returned"] /\ draining' = FALSE
      BY <1>3, <2>3 DEF TriggerReturns, HandOver
    <3>2. "returned" \in PCs \ OwnerPCs
      BY DEF PCs
    <3>. QED  BY <2>1, <2>2, <2>3, <3>1, <3>2, OwnerLeaves
  <2>4. CASE queued' # <<>>
    <3>1. PICK d \in Drains : /\ pc[d] = "off" /\ draining'
                              /\ pc' = [pc EXCEPT ![r] = "returned", ![d] = "tick"]
      BY <1>3, <2>4 DEF TriggerReturns, HandOver
    <3>2. d \in Threads /\ d # r
      BY <3>1, <2>1 DEF Threads
    <3>3. \A u \in Threads :
            pc'[u] = IF u = d THEN "tick" ELSE IF u = r THEN "returned" ELSE pc[u]
      BY <2>1, <3>1, <3>2
    <3>4. \A u \in Threads : pc[u] \in OwnerPCs => u = r
      BY <2>1 DEF Control, OneOwner, Owner, OwnerPCs
    <3>5. \A u \in Threads : pc'[u] \in OwnerPCs <=> u = d
      BY <3>2, <3>3, <3>4
    <3>6. ~starting /\ \A u \in Threads : pc'[u] \notin ClaimedPCs
      BY <2>1, <3>3, <3>4, <3>5, OwnerClaims DEF Control
    <3>. QED
      BY <2>2, <3>1, <3>2, <3>5, <3>6 DEF Control, OneOwner, FlagOwned, NothingStranded,
         StartClaimed, Closing, Owner, OwnerPCs
  <2>. QED  BY <2>3, <2>4
<1>4. ASSUME NEW t \in Threads, Peek(t) PROVE Control'
  BY <1>4, GoesOn, ReturnsControl DEF Peek
<1>5. ASSUME NEW t \in Threads, Probe(t) PROVE Control'
  BY <1>5, GoesOn, ReturnsControl DEF Probe
<1>6. ASSUME NEW t \in Threads, Check(t) PROVE Control'
  BY <1>6, GoesOn, ReturnsControl DEF Check
<1>7. ASSUME NEW t \in Threads, ClaimStart(t) PROVE Control'
  <2>1. CASE Return(t, "err") /\ starting' = starting
    BY <1>7, <2>1, ReturnsControl DEF ClaimStart
  <2>2. CASE ~closed /\ starting' = TRUE /\ Goto(t, IF active[t] THEN "killrun" ELSE "prep")
    <3>1. closer # "returned"
      BY <2>2 DEF Control, Closing
    <3>. QED  BY <1>7, <2>2, <3>1, OwnerMoves DEF ClaimStart, Goto
  <2>. QED  BY <1>7, <2>1, <2>2 DEF ClaimStart, ClaimRefused
<1>8. ASSUME NEW t \in Threads, KillTimedOutRun(t) PROVE Control'
  BY <1>8, GoesOn, ReturnsControl DEF KillTimedOutRun
<1>9. ASSUME NEW t \in Threads, Prepare(t) PROVE Control'
  BY <1>9, GoesOn, ReturnsControl DEF Prepare
<1>10. ASSUME NEW t \in Threads, ResetIdleWindow(t) PROVE Control'
  BY <1>10, GoesOn, ReturnsControl DEF ResetIdleWindow
<1>11. ASSUME NEW t \in Threads, CreateWindow(t) PROVE Control'
  BY <1>11, GoesOn, ReturnsControl DEF CreateWindow
<1>12. ASSUME NEW t \in Threads, SendCommand(t) PROVE Control'
  BY <1>12, GoesOn DEF SendCommand, MarkRunStarted
<1>13. ASSUME NEW t \in Threads, SendPrompt(t) PROVE Control'
  BY <1>13, GoesOn DEF SendPrompt, MarkRunStarted
<1>14. ASSUME NEW t \in Threads, CleanupStartedWindow(t) PROVE Control'
  BY <1>14, ReturnsControl DEF CleanupStartedWindow
<1>15. ASSUME NEW t \in Threads, PopStarted(t) PROVE Control'
  BY <1>15, ReturnsControl DEF PopStarted
<1>16. ASSUME NEW t \in Threads, ReleaseStart(t) PROVE Control'
  BY <1>16, OwnerMoves DEF ReleaseStart, Goto
<1>17. ASSUME NEW t \in Threads, DrainTick(t) PROVE Control'
  <2>1. CASE Goto(t, "peek") /\ draining' = draining
    BY <1>17, <2>1, GoesOn DEF DrainTick
  <2>2. CASE doneClosed /\ draining' = FALSE /\ Goto(t, "off")
    <3>1. closed
      BY <2>2 DEF Control, Closing
    <3>2. "off" \in PCs \ OwnerPCs
      BY DEF PCs
    <3>. QED  BY <1>17, <2>2, <3>1, <3>2, OwnerLeaves DEF DrainTick, Goto
  <2>. QED  BY <1>17, <2>1, <2>2 DEF DrainTick
<1>18. ASSUME NEW t \in Threads, DrainContinues(t) PROVE Control'
  <2>1. CASE Goto(t, "tick") /\ draining' = draining
    BY <1>18, <2>1, GoesOn DEF DrainContinues
  <2>2. CASE DrainStops(t) /\ draining' = FALSE /\ Goto(t, "off")
    <3>1. ~closed => queued' = <<>>
      BY <1>18, <2>2 DEF DrainStops, DrainContinues
    <3>2. "off" \in PCs \ OwnerPCs
      BY DEF PCs
    <3>. QED  BY <1>18, <2>2, <3>1, <3>2, OwnerLeaves DEF DrainContinues, Goto
  <2>. QED  BY <1>18, <2>1, <2>2 DEF DrainContinues
<1>19. CASE CloseMarks
  BY <1>19 DEF CloseMarks, Control, OneOwner, FlagOwned, NothingStranded, StartClaimed, Closing,
     Owner
<1>20. CASE CloseSignals
  BY <1>20 DEF CloseSignals, Control, OneOwner, FlagOwned, NothingStranded, StartClaimed,
     Closing, Owner
<1>21. CASE CloseReturns
  BY <1>21 DEF CloseReturns, Control, OneOwner, FlagOwned, NothingStranded, StartClaimed,
     Closing, Owner
<1>22. CASE Environment
  BY <1>22, ControlUnchanged
     DEF Environment, HarnessAppears, HarnessExits, WindowLost, TimeoutElapses
<1>23. CASE UNCHANGED vars
  BY <1>23, ControlUnchanged DEF vars
<1>. QED
  BY <1>1, <1>2, <1>3, <1>4, <1>5, <1>6, <1>7, <1>8, <1>9, <1>10, <1>11, <1>12, <1>13,
     <1>14, <1>15, <1>16, <1>17, <1>18, <1>19, <1>20, <1>21, <1>22, <1>23
     DEF Next, Goroutine, TryStartNext, CloseStep, TriggerReturns

\* The inductive invariant holds in every reachable state.
THEOREM Invariance == Spec => [](Typed /\ Control)
<1>1. Init => Typed /\ Control
  BY InitTyped, InitControl
<1>2. Typed /\ Control /\ [Next]_vars => (Typed /\ Control)'
  BY NextTyped, NextControl DEF Typed
<1>. QED  BY <1>1, <1>2, PTL DEF Spec

\* draining works as a lock: one goroutine at a time works on the window.
THEOREM MutualExclusion == Spec => []OneOwner
<1>1. Typed /\ Control => OneOwner
  BY DEF Control
<1>. QED  BY <1>1, Invariance, PTL

\* A queue nobody looks at is empty while the orchestrator is open.
THEOREM NoLostTrigger == Spec => []NothingStranded
<1>1. Typed /\ Control => NothingStranded
  BY DEF Control
<1>. QED  BY <1>1, Invariance, PTL

\* After Close returned, no goroutine is between claimStart and releaseStart.
THEOREM CloseIsQuiet == Spec => []QuietAfterClose
<1>1. Typed /\ Control => QuietAfterClose
  BY DEF Control, Closing, StartClaimed, QuietAfterClose
<1>. QED  BY <1>1, Invariance, PTL
-----------------------------------------------------------------------------
(* The refinement: Orchestrator implements TriggerQueue.                   *)
(*                                                                         *)
(* A goroutine at work is the only one that takes anything out of the      *)
(* queue.  So the head it read is the head still when it pops it, and a    *)
(* caller that found nobody at work put its request into an empty queue:   *)
(* the request is the head until it is launched, and what the caller takes *)
(* out of the queue after an error is its own request, though the code     *)
(* looks for it by position and reason.                                    *)

\* A goroutine that read the head of the queue finds it there still.
HeadRead ==
  \A t \in Threads : pc[t] \in ReadPCs => queued # <<>> /\ entry[t] = Head(queued)

\* A caller whose own attempt has not launched anything.
Unserved(r) ==
  \/ pc[r] \in TryPCs \ {"release"}
  \/ pc[r] \in {"release", "done"} /\ ret[r] = "err"

\* Its request is the head of the queue.
OwnIsHead ==
  \A r \in Requests : Unserved(r) =>
    /\ queued # <<>> /\ Head(queued) = [req |-> r, reason |-> reason[r]]
    /\ idx[r] = 1

Answers == \A r \in Requests : result[r] # "none" <=> pc[r] = "returned"

QueueInv == HeadRead /\ OwnIsHead /\ Answers

-----------------------------------------------------------------------------
(* Sequences *)

\* The requests of a queue are a sequence of its length.
LEMMA ReqsType ==
  ASSUME NEW q \in Seq(Entries)
  PROVE  /\ ReqsOf(q) \in Seq(Requests) /\ Len(ReqsOf(q)) = Len(q)
         /\ \A i \in 1..Len(q) : ReqsOf(q)[i] = q[i].req
         /\ ReqsOf(q) = <<>> <=> q = <<>>
<1>1. Len(q) \in Nat /\ DOMAIN q = 1..Len(q) /\ \A i \in 1..Len(q) : q[i] \in Entries
  BY LenProperties, ElementOfSeq
<1>2. \A i \in 1..Len(q) : q[i].req \in Requests
  BY <1>1 DEF Entries
<1>3. ReqsOf(q) \in [1..Len(q) -> Requests]
  BY <1>1, <1>2 DEF ReqsOf
<1>4. ReqsOf(q) \in Seq(Requests) /\ Len(ReqsOf(q)) = Len(q)
  BY <1>1, <1>3, SeqDef, LenProperties
<1>. QED  BY <1>1, <1>3, <1>4, EmptySeq DEF ReqsOf

\* Appending an entry appends its request.
LEMMA ReqsAppend ==
  ASSUME NEW q \in Seq(Entries), NEW e \in Entries
  PROVE  ReqsOf(Append(q, e)) = Append(ReqsOf(q), e.req)
<1>. DEFINE s == ReqsOf(Append(q, e))
            u == Append(ReqsOf(q), e.req)
<1>1. e.req \in Requests /\ ReqsOf(q) \in Seq(Requests) /\ Len(ReqsOf(q)) = Len(q) /\ Len(q) \in Nat
  BY ReqsType, LenProperties DEF Entries
<1>2. Append(q, e) \in Seq(Entries) /\ Len(Append(q, e)) = Len(q) + 1
      /\ \A i \in 1..Len(q) : Append(q, e)[i] = q[i]
      /\ Append(q, e)[Len(q) + 1] = e
  BY AppendProperties
<1>3. s \in Seq(Requests) /\ Len(s) = Len(q) + 1 /\ \A i \in 1..(Len(q) + 1) : s[i] = Append(q, e)[i].req
  BY <1>2, ReqsType
<1>4. u \in Seq(Requests) /\ Len(u) = Len(q) + 1 /\ u[Len(q) + 1] = e.req
      /\ \A i \in 1..Len(q) : u[i] = ReqsOf(q)[i]
  BY <1>1, AppendProperties
<1>5. \A i \in 1..Len(q) : ReqsOf(q)[i] = q[i].req
  BY ReqsType
<1>. HIDE DEF s, u
<1>6. \A i \in 1..(Len(q) + 1) : s[i] = u[i]
  BY <1>1, <1>2, <1>3, <1>4, <1>5
<1>. QED  BY <1>3, <1>4, <1>6, SeqEqual DEF s, u

\* The head and the tail of a queue are those of its requests.
LEMMA ReqsTail ==
  ASSUME NEW q \in Seq(Entries), q # <<>>
  PROVE  /\ ReqsOf(Tail(q)) = Tail(ReqsOf(q))
         /\ Head(ReqsOf(q)) = Head(q).req
<1>. DEFINE s == ReqsOf(Tail(q))
            u == Tail(ReqsOf(q))
<1>1. ReqsOf(q) \in Seq(Requests) /\ Len(ReqsOf(q)) = Len(q) /\ ReqsOf(q) # <<>>
      /\ \A i \in 1..Len(q) : ReqsOf(q)[i] = q[i].req
  BY ReqsType
<1>2. Tail(q) \in Seq(Entries) /\ Len(Tail(q)) = Len(q) - 1 /\ Head(q) = q[1]
      /\ \A i \in 1..Len(Tail(q)) : Tail(q)[i] = q[i + 1]
  BY HeadTailProperties
<1>3. Len(q) \in Nat /\ Len(q) # 0
  BY LenProperties, EmptySeq
<1>4. s \in Seq(Requests) /\ Len(s) = Len(q) - 1 /\ \A i \in 1..(Len(q) - 1) : s[i] = Tail(q)[i].req
  BY <1>2, ReqsType
<1>5. u \in Seq(Requests) /\ Len(u) = Len(q) - 1 /\ Head(ReqsOf(q)) = ReqsOf(q)[1]
      /\ \A i \in 1..(Len(q) - 1) : u[i] = ReqsOf(q)[i + 1]
  BY <1>1, HeadTailProperties
<1>. HIDE DEF s, u
<1>6. \A i \in 1..(Len(q) - 1) : s[i] = u[i]
  BY <1>1, <1>2, <1>3, <1>4, <1>5
<1>7. s = u
  BY <1>4, <1>5, <1>6, SeqEqual
<1>8. Head(ReqsOf(q)) = Head(q).req
  BY <1>1, <1>2, <1>3, <1>5
<1>. QED  BY <1>7, <1>8 DEF s, u

\* A queue without its first entry is its tail.
LEMMA WithoutFirst ==
  ASSUME NEW S, NEW s \in Seq(S), s # <<>>
  PROVE  SubSeq(s, 1, 1 - 1) \o SubSeq(s, 1 + 1, Len(s)) = Tail(s)
<1>1. Tail(s) \in Seq(S) /\ Tail(s) = SubSeq(s, 1 + 1, Len(s))
  BY HeadTailProperties, TailIsSubSeq
<1>2. SubSeq(s, 1, 1 - 1) = <<>>
  BY SubSeqEmpty
<1>. QED  BY <1>1, <1>2, ConcatEmptySeq

\* An entry at the head is the one that removeQueuedAtLocked finds from position 1 on.
LEMMA OwnIsRemoved ==
  ASSUME NEW q \in Seq(Entries), q # <<>>, NEW why, Head(q).reason = why
  PROVE  WithoutEntry(q, 1, why) = Tail(q)
<1>. DEFINE Same == {j \in DOMAIN q : q[j].reason = why}
<1>1. DOMAIN q = 1..Len(q) /\ Len(q) \in Nat /\ Len(q) # 0 /\ Head(q) = q[1]
  BY LenProperties, EmptySeq
<1>2. 1 \in Same /\ \A j \in Same : 1 <= j
  BY <1>1
<1>3. {j \in Same : j >= 1} = Same
  BY <1>1, <1>2
<1>4. Min(Same) = 1
  <2>1. \A j \in Same : j \in Nat
    BY <1>1
  <2>. HIDE DEF Same
  <2>2. Min(Same) = CHOOSE x \in Same : \A y \in Same : x <= y
    BY DEF Min
  <2>. QED  BY <1>2, <2>1, <2>2
<1>5. PositionOf(q, 1, why) = 1
  BY <1>2, <1>3, <1>4 DEF PositionOf
<1>6. RemoveAt(q, 1) = SubSeq(q, 1, 1 - 1) \o SubSeq(q, 1 + 1, Len(q))
  BY DEF RemoveAt
<1>. QED  BY <1>5, <1>6, WithoutFirst DEF WithoutEntry

-----------------------------------------------------------------------------
(* The invariant *)

\* One goroutine moves on and the queue stays what it is.
LEMMA HeadStays ==
  ASSUME TypeOK, QueueInv, NEW t \in Threads, NEW l, pc' = [pc EXCEPT ![t] = l],
         UNCHANGED <<queued, idx, reason, result>>,
         \A u \in Threads \ {t} : entry'[u] = entry[u] /\ ret'[u] = ret[u],
         l \in ReadPCs => queued # <<>> /\ entry'[t] = Head(queued),
         Unserved(t)' => Unserved(t),
         pc[t] # "returned" /\ l # "returned"
  PROVE  QueueInv'
<1>1. \A u \in Threads : pc'[u] = IF u = t THEN l ELSE pc[u]
  BY DEF TypeOK
<1>2. HeadRead'
  BY <1>1 DEF QueueInv, HeadRead
<1>3. \A r \in Requests : Unserved(r)' => Unserved(r)
  BY <1>1 DEF Unserved, Threads
<1>4. OwnIsHead'
  BY <1>3 DEF QueueInv, OwnIsHead
<1>5. Answers'
  BY <1>1 DEF QueueInv, Answers, Threads
<1>. QED  BY <1>2, <1>4, <1>5 DEF QueueInv

\* tryStartNext goes on, or returns, without touching the queue.
LEMMA GoesOnAtHead ==
  ASSUME TypeOK, QueueInv, NEW t \in Threads, NEW k \in ReadPCs, pc[t] = k,
         NEW l \in ReadPCs, Goto(t, l),
         UNCHANGED <<queued, idx, reason, result, entry, ret>>
  PROVE  QueueInv'
<1>1. k \in TryPCs \ {"release"} /\ k # "returned" /\ l # "returned"
  BY DEF ReadPCs, TryPCs, ClaimedPCs
<1>2. queued # <<>> /\ entry'[t] = Head(queued)
  BY DEF QueueInv, HeadRead
<1>. QED  BY <1>1, <1>2, HeadStays DEF Goto, Unserved

LEMMA ReturnsAtHead ==
  ASSUME TypeOK, QueueInv, NEW t \in Threads, pc[t] \in ReadPCs \cup {"peek"}, NEW v, Return(t, v),
         UNCHANGED <<queued, idx, reason, result, entry>>
  PROVE  QueueInv'
<1>. DEFINE l == IF pc[t] \in ClaimedPCs THEN "release" ELSE "done"
<1>1. pc[t] \in TryPCs \ {"release"} /\ pc[t] # "returned" /\ l # "returned" /\ l \notin ReadPCs
  BY DEF ReadPCs, TryPCs, ClaimedPCs
<1>2. pc' = [pc EXCEPT ![t] = l] /\ \A u \in Threads \ {t} : ret'[u] = ret[u]
  BY DEF Return, Goto, TypeOK
<1>. HIDE DEF l
<1>. QED  BY <1>1, <1>2, HeadStays DEF Unserved

\* While nobody has read the queue and no caller is at work, the queue does not matter.
LEMMA NobodyAtHead ==
  ASSUME \A t \in Threads : pc'[t] \notin ReadPCs,
         \A r \in Requests : ~Unserved(r)', Answers'
  PROVE  QueueInv'
  BY DEF QueueInv, HeadRead, OwnIsHead

\* The initial states satisfy the invariant.
LEMMA InitQueue == Init => QueueInv
  BY DEF Init, QueueInv, HeadRead, OwnIsHead, Answers, Unserved, Threads, ReadPCs, TryPCs,
     ClaimedPCs

\* A drain goroutine moves between control points at which it has read nothing.
LEMMA DrainsAtHead ==
  ASSUME TypeOK, QueueInv, NEW t \in Threads, t \notin Requests,
         NEW l \in {"peek", "tick", "off"}, pc' = [pc EXCEPT ![t] = l],
         UNCHANGED <<queued, idx, reason, result>>,
         \A u \in Threads \ {t} : entry'[u] = entry[u] /\ ret'[u] = ret[u]
  PROVE  QueueInv'
<1>1. \A u \in Threads : pc'[u] = IF u = t THEN l ELSE pc[u]
  BY DEF TypeOK
<1>2. HeadRead'
  BY <1>1 DEF QueueInv, HeadRead, ReadPCs
<1>3. \A r \in Requests : Unserved(r)' <=> Unserved(r)
  BY <1>1 DEF Unserved, Threads
<1>4. OwnIsHead' /\ Answers'
  BY <1>1, <1>3 DEF QueueInv, OwnIsHead, Answers, Threads
<1>. QED  BY <1>2, <1>4 DEF QueueInv

\* A step that moves no goroutine and leaves the queue alone.
LEMMA QueueUnchanged ==
  ASSUME QueueInv, UNCHANGED <<pc, ret, queued, entry, idx, reason, result>>
  PROVE  QueueInv'
  BY DEF QueueInv, HeadRead, OwnIsHead, Answers, Unserved

\* Every step preserves it.
LEMMA NextQueue == Typed /\ Control /\ QueueInv /\ [Next]_vars => QueueInv'
<1>. SUFFICES ASSUME Typed, Control, QueueInv, [Next]_vars PROVE QueueInv'
  OBVIOUS
<1>. USE DEF shared, window, locals, history
<1>. TypeOK
  BY DEF Typed
<1>0. /\ {"probe", "check", "claim", "killrun", "prep", "reset", "create", "send", "prompt",
          "cleanup", "pop"} = ReadPCs
      /\ ReadPCs \subseteq OwnerPCs /\ "done" \in OwnerPCs /\ TryPCs \subseteq OwnerPCs
      /\ "release" \in OwnerPCs
  BY DEF ReadPCs, OwnerPCs, TryPCs, ClaimedPCs
<1>1. ASSUME NEW r \in Requests, TriggerRefused(r) PROVE QueueInv'
  <2>1. r \in Threads /\ \A u \in Threads : pc'[u] = IF u = r THEN "returned" ELSE pc[u]
    BY <1>1 DEF TriggerRefused, Goto, Threads, TypeOK
  <2>2. UNCHANGED <<queued, idx, reason, entry, ret>>
    BY <1>1 DEF TriggerRefused
  <2>3. HeadRead' /\ OwnIsHead'
    BY <2>1, <2>2 DEF QueueInv, HeadRead, OwnIsHead, Unserved, ReadPCs, TryPCs, ClaimedPCs, Threads
  <2>4. \A q \in Requests : result'[q] = IF q = r THEN "error" ELSE result[q]
    BY <1>1 DEF TriggerRefused, TypeOK
  <2>5. Answers'
    BY <2>1, <2>4 DEF QueueInv, Answers, Threads
  <2>. QED  BY <2>3, <2>5 DEF QueueInv
<1>2. ASSUME NEW r \in Requests, TriggerQueued(r) PROVE QueueInv'
  <2>. DEFINE e == [req |-> r, reason |-> reason[r]]
  <2>1. r \in Threads /\ pc[r] = "new" /\ e \in Entries /\ queued' = Append(queued, e)
        /\ UNCHANGED <<entry, reason, ret>>
        /\ \A u \in Threads : idx'[u] = IF u = r THEN Len(queued) + 1 ELSE idx[u]
    BY <1>2 DEF TriggerQueued, Threads, Entries, TypeOK
  <2>2. queued' # <<>> /\ (queued = <<>> => Head(queued') = e) /\ (queued # <<>> => Head(queued') = Head(queued))
    <3>1. queued \in Seq(Entries)
      BY DEF TypeOK
    <3>. QED  BY <2>1, <3>1, HeadTailAppend, AppendProperties
  <2>. HIDE DEF e
  <2>3. CASE draining
    <3>1. /\ \A u \in Threads : pc'[u] = IF u = r THEN "returned" ELSE pc[u]
          /\ \A q \in Requests : result'[q] = IF q = r THEN "ok" ELSE result[q]
      BY <1>2, <2>1, <2>3 DEF TriggerQueued, SomeoneDrains, Goto, TypeOK
    <3>2. HeadRead'
      BY <2>1, <2>2, <3>1 DEF QueueInv, HeadRead, ReadPCs
    <3>3. \A q \in Requests : Unserved(q)' => q # r /\ Unserved(q)
      BY <2>1, <3>1 DEF Unserved, TryPCs, ClaimedPCs, Threads
    <3>4. OwnIsHead'
      BY <2>1, <2>2, <3>3 DEF QueueInv, OwnIsHead, Threads
    <3>5. Answers'
      BY <3>1 DEF QueueInv, Answers, Threads
    <3>. QED  BY <3>2, <3>4, <3>5 DEF QueueInv
  <2>4. CASE ~draining
    <3>1. \A u \in Threads : pc[u] \notin OwnerPCs
      BY <2>4 DEF Control, OneOwner, Owner, OwnerPCs
    <3>2. queued = <<>>
      BY <1>2, <3>1 DEF TriggerQueued, Control, NothingStranded, Owner, OwnerPCs
    <3>3. Len(queued) + 1 = 1
      BY <3>2, EmptySeq
    <3>4. result' = result /\ \A u \in Threads : pc'[u] = IF u = r THEN "peek" ELSE pc[u]
      BY <1>2, <2>1, <2>4 DEF TriggerQueued, SomeoneDrains, Goto, TypeOK
    <3>5. HeadRead'
      BY <1>0, <3>1, <3>4 DEF HeadRead, ReadPCs
    <3>6. \A q \in Requests : Unserved(q)' => q = r
      BY <1>0, <3>1, <3>4 DEF Unserved, Threads
    <3>7. OwnIsHead'
      BY <2>1, <2>2, <3>2, <3>3, <3>6 DEF OwnIsHead, e
    <3>8. Answers'
      BY <2>1, <3>4 DEF QueueInv, Answers, Threads
    <3>. QED  BY <3>5, <3>7, <3>8 DEF QueueInv
  <2>. QED  BY <2>3, <2>4
<1>3. ASSUME NEW r \in Requests, TriggerReturns(r) PROVE QueueInv'
  <2>1. r \in Threads /\ pc[r] = "done" /\ pc \in [Threads -> PCs] /\ ret'[r] = "none"
    BY <1>3 DEF TriggerReturns, Threads, TypeOK
  <2>2. \A u \in Threads : pc[u] \in OwnerPCs => u = r
    BY <1>0, <2>1 DEF Control, OneOwner, Owner, OwnerPCs
  <2>3. pc'[r] = "returned" /\ \A u \in Threads \ {r} : pc'[u] = pc[u] \/ (pc'[u] = "tick" /\ u \in Drains)
    BY <1>3, <2>1, ThreadsAssumption DEF TriggerReturns, HandOver, Threads
  <2>4. \A t \in Threads : pc'[t] \notin ReadPCs
    BY <1>0, <2>2, <2>3
  <2>5. \A q \in Requests : ~Unserved(q)'
    BY <1>0, <2>2, <2>3 DEF Unserved, Threads, TryPCs, ClaimedPCs
  <2>6. Answers'
    <3>1. result'[r] # "none" /\ \A q \in Requests \ {r} : result'[q] = result[q]
      BY <1>3 DEF TriggerReturns, TypeOK
    <3>. QED  BY <2>1, <2>3, <3>1, ThreadsAssumption DEF QueueInv, Answers, Threads
  <2>. QED  BY <2>4, <2>5, <2>6, NobodyAtHead
<1>4. ASSUME NEW t \in Threads, Peek(t) PROVE QueueInv'
  <2>1. CASE \E v \in {"err", "empty"} : Return(t, v) /\ entry' = entry
    BY <1>4, <2>1, ReturnsAtHead DEF Peek
  <2>2. CASE queued # <<>> /\ entry' = [entry EXCEPT ![t] = Head(queued)] /\ Goto(t, "probe") /\ ret' = ret
    <3>1. entry'[t] = Head(queued) /\ \A u \in Threads \ {t} : entry'[u] = entry[u]
      BY <2>2 DEF TypeOK
    <3>2. Unserved(t)
      BY <1>4 DEF Peek, Unserved, TryPCs, ClaimedPCs
    <3>. QED  BY <1>4, <2>2, <3>1, <3>2, HeadStays DEF Peek, Goto
  <2>. QED  BY <1>4, <2>1, <2>2 DEF Peek
<1>5. ASSUME NEW t \in Threads, Probe(t) PROVE QueueInv'
  BY <1>0, <1>5, GoesOnAtHead, ReturnsAtHead DEF Probe
<1>6. ASSUME NEW t \in Threads, Check(t) PROVE QueueInv'
  BY <1>0, <1>6, GoesOnAtHead, ReturnsAtHead DEF Check
<1>7. ASSUME NEW t \in Threads, ClaimStart(t) PROVE QueueInv'
  BY <1>0, <1>7, GoesOnAtHead, ReturnsAtHead DEF ClaimStart
<1>8. ASSUME NEW t \in Threads, KillTimedOutRun(t) PROVE QueueInv'
  BY <1>0, <1>8, GoesOnAtHead, ReturnsAtHead DEF KillTimedOutRun
<1>9. ASSUME NEW t \in Threads, Prepare(t) PROVE QueueInv'
  BY <1>0, <1>9, GoesOnAtHead, ReturnsAtHead DEF Prepare
<1>10. ASSUME NEW t \in Threads, ResetIdleWindow(t) PROVE QueueInv'
  BY <1>0, <1>10, GoesOnAtHead, ReturnsAtHead DEF ResetIdleWindow
<1>11. ASSUME NEW t \in Threads, CreateWindow(t) PROVE QueueInv'
  BY <1>0, <1>11, GoesOnAtHead, ReturnsAtHead DEF CreateWindow
<1>12. ASSUME NEW t \in Threads, SendCommand(t) PROVE QueueInv'
  BY <1>0, <1>12, GoesOnAtHead DEF SendCommand, MarkRunStarted
<1>13. ASSUME NEW t \in Threads, SendPrompt(t) PROVE QueueInv'
  BY <1>0, <1>13, GoesOnAtHead DEF SendPrompt, MarkRunStarted
<1>14. ASSUME NEW t \in Threads, CleanupStartedWindow(t) PROVE QueueInv'
  BY <1>0, <1>14, ReturnsAtHead DEF CleanupStartedWindow
<1>15. ASSUME NEW t \in Threads, PopStarted(t) PROVE QueueInv'
  <2>1. /\ pc[t] = "pop" /\ UNCHANGED <<result, reason>>
        /\ \A u \in Threads : pc'[u] = IF u = t THEN "release" ELSE pc[u]
        /\ \A u \in Threads : ret'[u] = IF u = t THEN "handled" ELSE ret[u]
    BY <1>15, ControlPCs DEF PopStarted, Return, Goto, TypeOK
  <2>2. \A u \in Threads : pc[u] \in OwnerPCs => u = t
    BY <1>0, <2>1 DEF Control, OneOwner, Owner, OwnerPCs
  <2>3. \A u \in Threads : pc'[u] \notin ReadPCs
    BY <1>0, <2>1, <2>2
  <2>4. \A q \in Requests : ~Unserved(q)'
    BY <1>0, <2>1, <2>2 DEF Unserved, Threads
  <2>5. Answers'
    BY <2>1 DEF QueueInv, Answers, Threads
  <2>. QED  BY <2>3, <2>4, <2>5, NobodyAtHead
<1>16. ASSUME NEW t \in Threads, ReleaseStart(t) PROVE QueueInv'
  <2>1. "done" \notin ReadPCs
    BY DEF ReadPCs
  <2>2. Unserved(t)' => Unserved(t)
    BY <1>16 DEF ReleaseStart, Goto, Unserved, TryPCs, ClaimedPCs, TypeOK
  <2>. QED  BY <1>16, <2>1, <2>2, HeadStays DEF ReleaseStart, Goto
<1>17. ASSUME NEW t \in Threads, DrainTick(t) PROVE QueueInv'
  <2>1. \E l \in {"peek", "off"} : pc' = [pc EXCEPT ![t] = l]
    BY <1>17 DEF DrainTick, Goto
  <2>2. t \notin Requests
    BY <1>17, ThreadsAssumption DEF DrainTick
  <2>. QED  BY <1>17, <2>1, <2>2, DrainsAtHead DEF DrainTick
<1>18. ASSUME NEW t \in Threads, DrainContinues(t) PROVE QueueInv'
  <2>1. \E l \in {"tick", "off"} : pc' = [pc EXCEPT ![t] = l]
    BY <1>18 DEF DrainContinues, Goto
  <2>2. t \notin Requests
    BY <1>18, ThreadsAssumption DEF DrainContinues
  <2>3. \A u \in Threads \ {t} : entry'[u] = entry[u] /\ ret'[u] = ret[u]
    BY <1>18 DEF DrainContinues, TypeOK
  <2>. QED  BY <1>18, <2>1, <2>2, <2>3, DrainsAtHead DEF DrainContinues
<1>19. CASE CloseStep
  BY <1>19, QueueUnchanged DEF CloseStep, CloseMarks, CloseSignals, CloseReturns
<1>20. CASE Environment
  BY <1>20, QueueUnchanged DEF Environment, HarnessAppears, HarnessExits, WindowLost, TimeoutElapses
<1>21. CASE UNCHANGED vars
  BY <1>21, QueueUnchanged DEF vars
<1>. QED
  BY <1>1, <1>2, <1>3, <1>4, <1>5, <1>6, <1>7, <1>8, <1>9, <1>10, <1>11, <1>12, <1>13,
     <1>14, <1>15, <1>16, <1>17, <1>18, <1>19, <1>20, <1>21
     DEF Next, Goroutine, TryStartNext, TriggerReturns

-----------------------------------------------------------------------------
(* The refinement *)

\* What the callers know of the queue is a sequence of requests, no longer than the queue.
LEMMA PendingType ==
  ASSUME Typed, QueueInv
  PROVE  /\ Popping => queued # <<>>
         /\ Pending \in Seq(Requests) /\ Len(Pending) <= Len(queued)
<1>1. queued \in Seq(Entries)
  BY DEF Typed, TypeOK
<1>2. Popping => queued # <<>>
  BY DEF Popping, QueueInv, HeadRead, ReadPCs
<1>3. CASE Popping
  <2>1. Tail(queued) \in Seq(Entries) /\ Len(Tail(queued)) = Len(queued) - 1 /\ Len(queued) \in Nat
    BY <1>1, <1>2, <1>3, HeadTailProperties, LenProperties
  <2>2. Pending = ReqsOf(Tail(queued))
    BY <1>3 DEF Pending
  <2>3. Pending \in Seq(Requests) /\ Len(Pending) = Len(Tail(queued))
    BY <2>1, <2>2, ReqsType
  <2>. QED  BY <1>2, <2>1, <2>3
<1>4. CASE ~Popping
  BY <1>1, <1>4, ReqsType, LenProperties DEF Pending
<1>. QED  BY <1>2, <1>3, <1>4

\* A step that changes nothing the callers know of.
LEMMA Stutters ==
  ASSUME Popping' <=> Popping, \A r \in Requests : pc'[r] = "new" <=> pc[r] = "new",
         UNCHANGED <<queued, launched, result, closer>>
  PROVE  UNCHANGED Promise!vars
<1>1. Pending' = Pending
  BY DEF Pending
<1>2. Known' = Known
  BY DEF Known
<1>. QED  BY <1>1, <1>2 DEF Promise!vars

\* One goroutine moves on, and is not about to pop the head, before or after.
LEMMA MoveStutters ==
  ASSUME TypeOK, NEW t \in Threads, pc[t] \notin {"pop", "new"}, NEW l, l \notin {"pop", "new"},
         pc' = [pc EXCEPT ![t] = l], UNCHANGED <<queued, launched, result, closer>>
  PROVE  UNCHANGED Promise!vars
<1>1. \A u \in Threads : pc'[u] = IF u = t THEN l ELSE pc[u]
  BY DEF TypeOK
<1>. QED  BY <1>1, Stutters DEF Popping, Threads

LEMMA ReturnStutters ==
  ASSUME TypeOK, NEW t \in Threads, pc[t] \notin {"pop", "new"}, NEW v, Return(t, v),
         UNCHANGED <<queued, launched, result, closer>>
  PROVE  UNCHANGED Promise!vars
  BY MoveStutters DEF Return, Goto

\* While one goroutine is at work, no other one is about to pop the head.
LEMMA OthersDoNotPop ==
  ASSUME OneOwner, NEW t \in Threads, pc[t] \in OwnerPCs, pc[t] # "pop"
  PROVE  ~Popping
  BY ControlPCs DEF Popping, OneOwner, Owner, OwnerPCs

\* The head counts as launched with the successful return of start.
LEMMA Launches ==
  ASSUME Typed, Control, QueueInv, NEW t \in Threads, pc[t] \in {"send", "prompt"},
         MarkRunStarted(t), UNCHANGED <<queued, result, closer>>
  PROVE  Promise!Launch
<1>1. /\ queued \in Seq(Entries) /\ queued # <<>> /\ entry[t] = Head(queued)
      /\ \A u \in Threads : pc'[u] = IF u = t THEN "pop" ELSE pc[u]
  BY DEF Typed, TypeOK, QueueInv, HeadRead, ReadPCs, MarkRunStarted, Goto
<1>2. pc[t] \in ClaimedPCs /\ pc[t] \in OwnerPCs /\ pc[t] # "pop"
  BY ControlPCs
<1>3. closer # "returned"
  BY <1>2 DEF Control, Closing, StartClaimed
<1>4. ~Popping /\ Popping'
  BY <1>1, <1>2, OthersDoNotPop DEF Popping, Control
<1>5. Pending = ReqsOf(queued) /\ Pending' = ReqsOf(Tail(queued))
  BY <1>4 DEF Pending
<1>6. Pending # <<>> /\ Pending' = Tail(Pending) /\ Head(Pending) = entry[t].req
  BY <1>1, <1>5, ReqsType, ReqsTail
<1>7. Known' = Known
  BY <1>1 DEF Known, Threads
<1>. QED  BY <1>3, <1>6, <1>7 DEF Promise!Launch, MarkRunStarted

\* The caller of a request gets its answer; a failing one takes its own request back.
LEMMA Answered ==
  ASSUME Typed, Control, QueueInv, NEW r \in Requests, TriggerReturns(r)
  PROVE  Promise!Accept(r) \/ Promise!Withdraw(r)
<1>1. r \in Threads /\ pc[r] = "done" /\ result[r] = "none" /\ Known[r] = "waiting"
  BY DEF TriggerReturns, Threads, QueueInv, Answers, Known
<1>2. \A u \in Threads : pc[u] \in OwnerPCs => u = r
  BY <1>1, ControlPCs DEF Control, OneOwner, Owner, OwnerPCs
<1>3. pc'[r] = "returned" /\ \A u \in Threads \ {r} : pc'[u] = pc[u] \/ (pc'[u] = "tick" /\ u \in Drains)
  BY <1>1, ThreadsAssumption DEF TriggerReturns, HandOver, Threads, Typed, TypeOK
<1>4. ~Popping /\ ~Popping'
  BY <1>1, <1>2, <1>3, ControlPCs DEF Popping
<1>5. Pending = ReqsOf(queued) /\ Pending' = ReqsOf(queued')
  BY <1>4 DEF Pending
<1>6. launched' = launched /\ closer' = closer
  BY DEF TriggerReturns, history
<1>7. \A q \in Requests \ {r} : result'[q] = result[q] /\ (pc'[q] = "new" <=> pc[q] = "new")
  BY <1>3, ThreadsAssumption DEF TriggerReturns, Threads, Typed, TypeOK
<1>8. CASE ret[r] = "err"
  <2>1. Unserved(r)
    BY <1>1, <1>8 DEF Unserved
  <2>2. queued \in Seq(Entries) /\ queued # <<>> /\ Head(queued).req = r
        /\ Head(queued).reason = reason[r] /\ idx[r] = 1
    BY <2>1 DEF Typed, TypeOK, QueueInv, OwnIsHead
  <2>3. queued' = Tail(queued)
    BY <1>8, <2>2, OwnIsRemoved DEF TriggerReturns
  <2>4. /\ Pending \in Seq(Requests) /\ Pending # <<>> /\ Head(Pending) = r
        /\ Pending' = Tail(Pending)
    BY <1>5, <2>2, <2>3, ReqsType, ReqsTail
  <2>5. Pending' = SubSeq(Pending, 1, 1 - 1) \o SubSeq(Pending, 1 + 1, Len(Pending))
    BY <2>4, WithoutFirst
  <2>6. 1 \in 1..Len(Pending) /\ Pending[1] = r
    BY <2>4, LenProperties, EmptySeq
  <2>7. Known' = [Known EXCEPT ![r] = "refused"]
    <3>1. result'[r] = "error"
      BY <1>8 DEF TriggerReturns, Typed, TypeOK
    <3>. QED  BY <1>7, <3>1 DEF Known
  <2>. QED  BY <1>1, <1>6, <2>5, <2>6, <2>7 DEF Promise!Withdraw
<1>9. CASE ret[r] # "err"
  <2>1. queued' = queued /\ result'[r] = "ok"
    BY <1>9 DEF TriggerReturns, Typed, TypeOK
  <2>2. Known' = [Known EXCEPT ![r] = "accepted"]
    BY <1>7, <2>1 DEF Known
  <2>. QED  BY <1>1, <1>5, <1>6, <2>1, <2>2 DEF Promise!Accept
<1>. QED  BY <1>8, <1>9

\* A request that is queued comes last.
LEMMA Enqueues ==
  ASSUME Typed, Control, QueueInv, NEW r \in Requests, TriggerQueued(r)
  PROVE  Promise!Enqueue(r)
<1>. DEFINE e == [req |-> r, reason |-> reason[r]]
<1>1. /\ r \in Threads /\ pc[r] = "new" /\ result[r] = "none" /\ Known[r] = "new"
      /\ e \in Entries /\ e.req = r /\ queued' = Append(queued, e) /\ queued \in Seq(Entries)
      /\ UNCHANGED <<launched, closer>>
  BY DEF TriggerQueued, Threads, Entries, Typed, TypeOK, QueueInv, Answers, Known, history
<1>. HIDE DEF e
<1>2. PICK l \in {"returned", "peek"} : \A u \in Threads : pc'[u] = IF u = r THEN l ELSE pc[u]
  BY <1>1 DEF TriggerQueued, Goto, Typed, TypeOK
<1>3. Popping' <=> Popping
  BY <1>1, <1>2 DEF Popping
<1>4. Len(Pending) < MaxQueued
  BY <1>1, PendingType, MaxQueuedAssumption, LenProperties DEF TriggerQueued, QueueFull
<1>5. Pending' = Append(Pending, r)
  <2>1. CASE ~Popping
    BY <1>1, <1>3, <2>1, ReqsAppend DEF Pending
  <2>2. CASE Popping
    <3>1. queued # <<>> /\ Tail(queued) \in Seq(Entries)
      BY <1>1, <2>2, PendingType, HeadTailProperties
    <3>2. Tail(queued') = Append(Tail(queued), e)
      BY <1>1, <3>1, HeadTailAppend
    <3>. QED  BY <1>1, <1>3, <2>2, <3>1, <3>2, ReqsAppend DEF Pending
  <2>. QED  BY <2>1, <2>2
<1>6. \E s \in {"waiting", "accepted"} : Known' = [Known EXCEPT ![r] = s]
  <2>1. \A q \in Requests \ {r} : result'[q] = result[q] /\ pc'[q] = pc[q]
    BY <1>2 DEF TriggerQueued, Threads, Typed, TypeOK
  <2>2. result'[r] \in {"none", "ok"} /\ pc'[r] # "new"
    BY <1>1, <1>2 DEF TriggerQueued, Typed, TypeOK
  <2>3. CASE result'[r] = "ok"
    BY <2>1, <2>3 DEF Known
  <2>4. CASE result'[r] = "none"
    BY <2>1, <2>2, <2>4 DEF Known
  <2>. QED  BY <2>2, <2>3, <2>4
<1>. QED  BY <1>1, <1>4, <1>5, <1>6 DEF Promise!Enqueue

\* Every step of the orchestrator is a step of the promise, or changes nothing of it.
LEMMA NextRefines ==
  ASSUME Typed, Control, QueueInv, [Next]_vars
  PROVE  [Promise!Next]_(Promise!vars)
<1>. USE DEF shared, window, locals, history
<1>. TypeOK /\ OneOwner
  BY DEF Typed, Control
<1>. DEFINE Refined == [Promise!Next]_(Promise!vars)
<1>1. ASSUME NEW r \in Requests, TriggerRefused(r) PROVE Promise!Next
  <2>1. /\ r \in Threads /\ Known[r] = "new" /\ UNCHANGED <<queued, launched, closer>>
        /\ \A u \in Threads : pc'[u] = IF u = r THEN "returned" ELSE pc[u]
        /\ \A q \in Requests : result'[q] = IF q = r THEN "error" ELSE result[q]
    BY <1>1 DEF TriggerRefused, Goto, Threads, TypeOK, QueueInv, Answers, Known
  <2>2. pc[r] = "new"
    BY <1>1 DEF TriggerRefused
  <2>3. Pending' = Pending
    BY <2>1, <2>2 DEF Pending, Popping
  <2>4. Known' = [Known EXCEPT ![r] = "refused"]
    BY <2>1 DEF Known, Threads
  <2>5. Promise!Refuse(r)
    BY <2>1, <2>3, <2>4 DEF Promise!Refuse
  <2>. QED  BY <2>5 DEF Promise!Next
<1>2. ASSUME NEW r \in Requests, TriggerQueued(r) PROVE Promise!Next
  BY <1>2, Enqueues DEF Promise!Next
<1>3. ASSUME NEW r \in Requests, TriggerReturns(r) PROVE Promise!Next
  BY <1>3, Answered DEF Promise!Next
<1>4. ASSUME NEW t \in Threads, Peek(t) PROVE Refined
  BY <1>4, MoveStutters, ReturnStutters DEF Peek, Goto
<1>5. ASSUME NEW t \in Threads, Probe(t) PROVE Refined
  BY <1>5, MoveStutters, ReturnStutters DEF Probe, Goto
<1>6. ASSUME NEW t \in Threads, Check(t) PROVE Refined
  BY <1>6, MoveStutters, ReturnStutters DEF Check, Goto
<1>7. ASSUME NEW t \in Threads, ClaimStart(t) PROVE Refined
  BY <1>7, MoveStutters, ReturnStutters DEF ClaimStart, Goto
<1>8. ASSUME NEW t \in Threads, KillTimedOutRun(t) PROVE Refined
  BY <1>8, MoveStutters, ReturnStutters DEF KillTimedOutRun, Goto
<1>9. ASSUME NEW t \in Threads, Prepare(t) PROVE Refined
  BY <1>9, MoveStutters, ReturnStutters DEF Prepare, Goto
<1>10. ASSUME NEW t \in Threads, ResetIdleWindow(t) PROVE Refined
  BY <1>10, MoveStutters, ReturnStutters DEF ResetIdleWindow, Goto
<1>11. ASSUME NEW t \in Threads, CreateWindow(t) PROVE Refined
  BY <1>11, MoveStutters, ReturnStutters DEF CreateWindow, Goto
<1>12. ASSUME NEW t \in Threads, SendCommand(t) PROVE Refined
  <2>1. CASE MarkRunStarted(t)
    BY <1>12, <2>1, Launches DEF SendCommand, Promise!Next
  <2>2. CASE \E l \in {"cleanup", "prompt"} : Goto(t, l) /\ UNCHANGED history
    BY <1>12, <2>2, MoveStutters DEF SendCommand, Goto
  <2>. QED  BY <1>12, <2>1, <2>2 DEF SendCommand
<1>13. ASSUME NEW t \in Threads, SendPrompt(t) PROVE Refined
  <2>1. CASE MarkRunStarted(t)
    BY <1>13, <2>1, Launches DEF SendPrompt, Promise!Next
  <2>2. CASE Goto(t, "cleanup") /\ UNCHANGED history
    BY <1>13, <2>2, MoveStutters DEF SendPrompt, Goto
  <2>. QED  BY <1>13, <2>1, <2>2 DEF SendPrompt
<1>14. ASSUME NEW t \in Threads, CleanupStartedWindow(t) PROVE Refined
  BY <1>14, ReturnStutters DEF CleanupStartedWindow
<1>15. ASSUME NEW t \in Threads, PopStarted(t) PROVE Refined
  <2>1. /\ pc[t] = "pop" /\ UNCHANGED <<result, launched, closer>>
        /\ \A u \in Threads : pc'[u] = IF u = t THEN "release" ELSE pc[u]
    BY <1>15, ControlPCs DEF PopStarted, Return, Goto, TypeOK
  <2>2. \A u \in Threads : pc[u] \in OwnerPCs => u = t
    BY <2>1, ControlPCs DEF OneOwner, Owner, OwnerPCs
  <2>3. Popping /\ ~Popping'
    BY <2>1, <2>2, ControlPCs DEF Popping
  <2>4. queued' = Tail(queued)
    BY <1>15, <2>3, PendingType DEF PopStarted
  <2>5. Pending' = Pending
    BY <2>3, <2>4 DEF Pending
  <2>6. Known' = Known
    BY <2>1 DEF Known, Threads
  <2>. QED  BY <2>1, <2>5, <2>6 DEF Promise!vars
<1>16. ASSUME NEW t \in Threads, ReleaseStart(t) PROVE Refined
  BY <1>16, MoveStutters DEF ReleaseStart, Goto
<1>17. ASSUME NEW t \in Threads, DrainTick(t) PROVE Refined
  BY <1>17, MoveStutters DEF DrainTick, Goto
<1>18. ASSUME NEW t \in Threads, DrainContinues(t) PROVE Refined
  BY <1>18, MoveStutters DEF DrainContinues, Goto
<1>19. CASE CloseStep
  <2>1. Pending' = Pending /\ Known' = Known /\ launched' = launched
    BY <1>19 DEF CloseStep, CloseMarks, CloseSignals, CloseReturns, Pending, Popping, Known
  <2>2. CASE CloseReturns
    BY <2>1, <2>2 DEF CloseReturns, Promise!Stop, Promise!Next
  <2>3. CASE CloseMarks \/ CloseSignals
    BY <2>1, <2>3 DEF CloseMarks, CloseSignals, Promise!vars
  <2>. QED  BY <1>19, <2>2, <2>3 DEF CloseStep
<1>20. CASE Environment
  BY <1>20, Stutters DEF Environment, HarnessAppears, HarnessExits, WindowLost, TimeoutElapses, Popping
<1>21. CASE UNCHANGED vars
  BY <1>21, Stutters DEF vars, Popping
<1>. QED
  BY <1>1, <1>2, <1>3, <1>4, <1>5, <1>6, <1>7, <1>8, <1>9, <1>10, <1>11, <1>12, <1>13,
     <1>14, <1>15, <1>16, <1>17, <1>18, <1>19, <1>20, <1>21
     DEF Next, Goroutine, TryStartNext, TriggerReturns

\* The initial states are initial states of the promise.
LEMMA InitRefines == Init => Promise!Init
<1>. SUFFICES ASSUME Init PROVE Promise!Init
  OBVIOUS
<1>1. ~Popping /\ queued = <<>> /\ launched = <<>> /\ closer # "returned"
  BY DEF Init, Popping
<1>2. Pending = <<>>
  BY <1>1, EmptySeq, ReqsType DEF Pending
<1>3. Known = [r \in Requests |-> "new"]
  BY DEF Init, Known, Threads
<1>. QED  BY <1>1, <1>2, <1>3 DEF Promise!Init

\* Whatever its goroutines, failures and Close do, the orchestrator keeps what it promises its
\* callers: a request that was accepted leaves the queue by being launched, in order, and one
\* that is withdrawn is that of the caller who gets the error.
THEOREM ImplementsTriggerQueue == Spec => KeepsPromise
<1>1. Init => Typed /\ Control /\ QueueInv
  BY InitTyped, InitControl, InitQueue
<1>2. Typed /\ Control /\ QueueInv /\ [Next]_vars => (Typed /\ Control /\ QueueInv)'
  BY NextTyped, NextControl, NextQueue DEF Typed
<1>3. Typed /\ Control /\ QueueInv /\ [Next]_vars => [Promise!Next]_(Promise!vars)
  BY NextRefines
<1>. QED  BY <1>1, <1>2, <1>3, InitRefines, PTL DEF Spec, KeepsPromise, Promise!Spec
=============================================================================
