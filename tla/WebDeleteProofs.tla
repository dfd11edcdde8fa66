--------------------------- MODULE WebDeleteProofs ---------------------------
(***************************************************************************)
(* Theorems about WebDelete, for any number of deletions, any lease that   *)
(* outlasts the wait for a cleanup and its time-out, and any bounds.       *)
(*                                                                         *)
(* The lease argument: a marker that is held is at most MaxWait + Timeout  *)
(* old, which is less than the lease, so no other deletion takes it over;  *)
(* markers are distinct, so a deletion that settles cannot take the marker *)
(* of another for its own; every other writer leaves a marker alone.       *)
(*                                                                         *)
(* What is left of a worker: whatever is there of one belongs to the entry *)
(* or to the spawn in flight, and what a cleanup removed stays away until  *)
(* the round of deletions ends.                                            *)
(***************************************************************************)
EXTENDS WebDelete, TLAPS

Busy(h) == call[h].pc # "idle"

SomeUpdate ==
  \E status \in Statuses \ {"absent", "deleting"}, worker \in Enterable, branch \in BOOLEAN :
    Update(status, worker, branch)

\* Only a deletion in flight has a marker, and no two have the same.
Named == \A h \in Handlers : Busy(h) => call[h].marker \in Marks
Distinct == \A h, k \in Handlers :
              Busy(h) /\ Busy(k) /\ call[h].marker = call[k].marker => h = k

\* A held marker is younger than the lease.
Timely == \A h \in Handlers :
  /\ call[h].pc = "begin" => age[call[h].marker] <= MaxWait
  /\ InCleanup(h) => age[call[h].marker] <= call[h].deadline

\* A spawn that is yet to open its window has counted for one.
Opening == IF spawn.pc \in {"worktree", "window"} THEN 1 ELSE 0
WindowsCounted == windows + Opening <= spawns

IInv == TypeOK /\ Named /\ Distinct /\ Timely /\ OwnsEntry /\ WindowsCounted

-----------------------------------------------------------------------------
(* Lemmas on the parts of a step *)

\* Any entry that is not deleting belongs to nobody.
LEMMA NobodyHolds ==
  ASSUME OwnsEntry, row.status # "deleting"
  PROVE  \A h \in Handlers : ~Holding(h)
BY DEF OwnsEntry, SameDeleteMarker

\* A marker that is held is younger than the lease.
LEMMA HeldIsYoung ==
  ASSUME TypeOK, Named, Timely, NEW h \in Handlers, Holding(h)
  PROVE  age[call[h].marker] < Lease
<1>1. call[h] \in Calls /\ call[h].marker \in Marks
  BY DEF TypeOK, Named, Busy, Holding, InCleanup
<1>2. age[call[h].marker] \in Nat /\ call[h].deadline \in 0..(MaxWait + Timeout)
  BY <1>1, TimesAssumption DEF TypeOK, Calls
<1>3. age[call[h].marker] <= MaxWait \/ age[call[h].marker] <= call[h].deadline
  BY DEF Timely, Holding
<1>. QED  BY <1>2, <1>3, TimesAssumption, LeaseAssumption

\* What says nothing of the deletions, the ages and the entry's marker keeps their part.
LEMMA CallsKept ==
  ASSUME Named, Distinct, Timely, UNCHANGED <<call, age>>
  PROVE  (Named /\ Distinct /\ Timely)'
BY DEF Named, Distinct, Timely, Busy, InCleanup

\* A deletion that takes a step of its own under its marker: h goes to c.
LEMMA StepKeeps ==
  ASSUME IInv, NEW h \in Handlers, NEW c \in Calls, Busy(h),
         c.marker = call[h].marker, c.pc \notin {"idle", "begin"},
         call' = [call EXCEPT ![h] = c],
         c.pc \in {"kill", "remove", "branch"} => Holding(h) /\ age[c.marker] <= c.deadline,
         UNCHANGED <<row, age>>
  PROVE  (Named /\ Distinct /\ Timely /\ OwnsEntry)' /\ call' \in [Handlers -> Calls]
<1>1. call \in [Handlers -> Calls]
  BY DEF IInv, TypeOK
<1>2. \A k \in Handlers : call'[k] = IF k = h THEN c ELSE call[k]
  BY <1>1
<1>3. \A k \in Handlers : Busy(k)' <=> Busy(k)
  BY <1>2 DEF Busy
<1>4. \A k \in Handlers : call'[k].marker = call[k].marker
  BY <1>2
<1>5. (Named /\ Distinct)'
  BY <1>3, <1>4 DEF IInv, Named, Distinct
<1>6. Timely'
  BY <1>2 DEF IInv, Timely, InCleanup
<1>7. \A k \in Handlers : Holding(k)' => Holding(k)
  BY <1>2 DEF Holding, InCleanup
<1>8. OwnsEntry'
  BY <1>4, <1>7 DEF IInv, OwnsEntry, SameDeleteMarker
<1>. QED  BY <1>1, <1>5, <1>6, <1>8

LEMMA IdleType == Idle \in Calls /\ Absent \in Entries /\ Unstarted \in Entries
<1>1. Absent \in Entries
  BY DEF Absent, Entries, Statuses, Workers
<1>2. Unstarted \in Entries
  BY <1>1 DEF Unstarted, Absent, Entries, Statuses, Workers
<1>3. 0 \in 0..(MaxWait + Timeout)
  BY TimesAssumption
<1>4. Idle \in Calls
  BY <1>1, <1>3 DEF Idle, Calls, PCs
<1>. QED  BY <1>1, <1>2, <1>4

LEMMA AgesForgotten ==
  ASSUME age \in [Marks -> 0..Lease], ForgetAges
  PROVE  age' \in [Marks -> 0..Lease]
BY TimesAssumption DEF ForgetAges

\* A deletion that returns.
LEMMA ReturnKeeps ==
  ASSUME IInv, NEW h \in Handlers, Return(h), ForgetAges
  PROVE  (Named /\ Distinct /\ Timely)' /\ call' \in [Handlers -> Calls]
         /\ age' \in [Marks -> 0..Lease]
<1>1. call \in [Handlers -> Calls] /\ Idle \in Calls
  BY IdleType DEF IInv, TypeOK
<1>2. \A k \in Handlers : call'[k] = IF k = h THEN Idle ELSE call[k]
  BY <1>1 DEF Return
<1>3. ~Busy(h)' /\ ~InCleanup(h)' /\ call'[h].pc # "begin"
  BY <1>2 DEF Busy, InCleanup, Idle
<1>4. (Named /\ Distinct)'
  BY <1>2, <1>3 DEF IInv, Named, Distinct, Busy
<1>5. Timely'
  <2>1. \A k \in Handlers : Busy(k)' => age'[call'[k].marker] = age[call'[k].marker]
    <3>1. \A k \in Handlers : Busy(k)' => call'[k].marker \in Marks /\ call'[k].marker \in InUse'
      BY <1>4 DEF Named, InUse
    <3>. QED  BY <3>1 DEF ForgetAges
  <2>2. \A k \in Handlers : (call'[k].pc = "begin" \/ InCleanup(k)') => Busy(k)' /\ k # h
    BY <1>3 DEF Busy, InCleanup
  <2>. QED  BY <1>2, <2>1, <2>2 DEF IInv, Timely, InCleanup
<1>. QED  BY <1>1, <1>2, <1>4, <1>5, AgesForgotten DEF Return, IInv, TypeOK

\* A deletion that settles touches no entry that another deletion owns.
LEMMA SettleKeeps ==
  ASSUME IInv, NEW h \in Handlers, call[h].pc = "settle", Return(h), NEW r \in Entries,
         row' = IF SameDeleteMarker(row, call[h].marker) THEN r ELSE row
  PROVE  OwnsEntry'
<1>1. call \in [Handlers -> Calls]
  BY DEF IInv, TypeOK
<1>2. SUFFICES ASSUME NEW k \in Handlers, Holding(k)'
               PROVE  SameDeleteMarker(row', call'[k].marker)
  BY DEF OwnsEntry
<1>3. k # h /\ call'[k] = call[k]
  BY <1>1, <1>2 DEF Return, Idle, Holding, InCleanup
<1>4. Holding(k) /\ Busy(k) /\ Busy(h)
  BY <1>2, <1>3 DEF Holding, InCleanup, Busy
<1>5. SameDeleteMarker(row, call[k].marker)
  BY <1>4 DEF IInv, OwnsEntry
<1>6. call[k].marker # call[h].marker
  BY <1>3, <1>4 DEF IInv, Distinct
<1>7. ~SameDeleteMarker(row, call[h].marker)
  BY <1>5, <1>6 DEF SameDeleteMarker
<1>. QED  BY <1>3, <1>5, <1>7

\* No deletion is at work on an entry that is written by anybody else.
LEMMA FreeEntry ==
  ASSUME IInv, row.status # "deleting", UNCHANGED call
  PROVE  OwnsEntry'
<1>1. \A h \in Handlers : ~Holding(h)
  BY NobodyHolds DEF IInv
<1>. QED  BY <1>1 DEF OwnsEntry, Holding, InCleanup

LEMMA SameEntry ==
  ASSUME IInv, UNCHANGED <<row, call>>
  PROVE  OwnsEntry'
BY DEF IInv, OwnsEntry, Holding, InCleanup, SameDeleteMarker

-----------------------------------------------------------------------------
(* The inductive invariant *)

\* Initially nobody is at work.
LEMMA InitInv == Init => IInv
<1>. SUFFICES ASSUME Init PROVE IInv
  OBVIOUS
<1>1. TypeOK
  <2>1. age \in [Marks -> 0..Lease] /\ call \in [Handlers -> Calls] /\ row \in Entries
    BY IdleType, TimesAssumption DEF Init
  <2>2. spawn \in [pc : SpawnPCs, taken : BOOLEAN]
    BY DEF Init, NoSpawn, SpawnPCs
  <2>3. tree \in BOOLEAN /\ registry \in BOOLEAN /\ lost \in BOOLEAN
    BY DEF Init
  <2>4. /\ windows \in 0..MaxSpawns /\ spawns \in 0..MaxSpawns
        /\ updates \in 0..MaxUpdates /\ fails \in 0..MaxFails /\ crashes \in 0..MaxCrashes
    BY BoundsAssumption DEF Init
  <2>. QED  BY <2>1, <2>2, <2>3, <2>4 DEF TypeOK
<1>2. \A h \in Handlers : ~Busy(h) /\ ~Holding(h) /\ ~InCleanup(h) /\ call[h].pc # "begin"
  BY DEF Init, Idle, Busy, Holding, InCleanup
<1>3. Named /\ Distinct /\ Timely /\ OwnsEntry
  BY <1>2 DEF Named, Distinct, Timely, OwnsEntry
<1>4. WindowsCounted
  BY DEF Init, WindowsCounted, Opening, NoSpawn
<1>. QED  BY <1>1, <1>3, <1>4 DEF IInv

\* Setting a marker: the entry was nobody's, because it was no marker or an expired one.
LEMMA MarkStep ==
  ASSUME IInv, NEW h \in Handlers, Mark(h)
  PROVE  IInv'
<1>. USE DEF IInv
<1>1. PICK n \in Marks \ InUse :
        /\ row' = [row EXCEPT !.status = "deleting", !.marker = n]
        /\ age' = [age EXCEPT ![n] = 0]
        /\ call' = [call EXCEPT ![h] = [Idle EXCEPT !.pc = "begin", !.marker = n, !.prev = row]]
  BY DEF Mark
<1>. DEFINE c == [Idle EXCEPT !.pc = "begin", !.marker = n, !.prev = row]
<1>2. c \in Calls /\ c.pc = "begin" /\ c.marker = n
  <2>1. Idle \in Calls /\ row \in Entries
    BY IdleType DEF TypeOK
  <2>. QED  BY <2>1 DEF Calls, PCs
<1>3. call \in [Handlers -> Calls] /\ row \in Entries /\ age \in [Marks -> 0..Lease]
  BY DEF TypeOK
<1>. HIDE DEF c
<1>4. \A k \in Handlers : call'[k] = IF k = h THEN c ELSE call[k]
  BY <1>1, <1>3 DEF c
<1>5. \A k \in Handlers : call[k].marker # n
  BY DEF InUse
<1>6. \A k \in Handlers : ~Holding(k)
  <2>1. CASE row.status # "deleting"
    BY <2>1, NobodyHolds
  <2>2. CASE row.status = "deleting"
    <3>1. ~(age[row.marker] < Lease) \/ age[row.marker] \notin Nat
      BY <2>2, TimesAssumption DEF Mark, NeedsCleanup, Expired
    <3>2. SUFFICES ASSUME NEW k \in Handlers, Holding(k) PROVE FALSE
      OBVIOUS
    <3>3. call[k].marker = row.marker /\ call[k].marker \in Marks
      BY <3>2 DEF OwnsEntry, SameDeleteMarker, Named, Busy, Holding, InCleanup
    <3>4. age[row.marker] < Lease /\ age[row.marker] \in Nat
      BY <1>3, <3>2, <3>3, HeldIsYoung, TimesAssumption
    <3>. QED  BY <3>1, <3>4
  <2>. QED  BY <2>1, <2>2
<1>7. TypeOK'
  <2>1. row' \in Entries
    BY <1>1, <1>3 DEF Entries, Statuses
  <2>2. age' \in [Marks -> 0..Lease]
    BY <1>1, <1>3, TimesAssumption
  <2>3. call' \in [Handlers -> Calls]
    BY <1>1, <1>2, <1>3 DEF c
  <2>. QED  BY <2>1, <2>2, <2>3 DEF Mark, TypeOK, world, spawning, history, budget
<1>8. Named'
  BY <1>2, <1>4 DEF Named, Busy
<1>9. Distinct'
  BY <1>2, <1>4, <1>5 DEF Distinct, Busy
<1>10. Timely'
  <2>1. age'[n] = 0
    BY <1>1, <1>3
  <2>2. \A k \in Handlers : k # h => call'[k].pc # "begin" /\ ~InCleanup(k)'
    BY <1>4, <1>6 DEF Holding, InCleanup
  <2>3. call'[h] = c /\ ~InCleanup(h)'
    BY <1>2, <1>4 DEF InCleanup
  <2>. QED  BY <1>2, <2>1, <2>2, <2>3, TimesAssumption DEF Timely
<1>11. OwnsEntry'
  <2>1. row'.status = "deleting" /\ row'.marker = n
    BY <1>1, <1>3 DEF Entries
  <2>2. \A k \in Handlers : Holding(k)' => k = h
    BY <1>4, <1>6 DEF Holding, InCleanup
  <2>. QED  BY <1>2, <1>4, <2>1, <2>2 DEF OwnsEntry, SameDeleteMarker
<1>12. WindowsCounted'
  BY DEF Mark, WindowsCounted, Opening, world, spawning
<1>. QED  BY <1>7, <1>8, <1>9, <1>10, <1>11, <1>12

\* A command of the cleanup: h goes on to the next step.
LEMMA CommandStep ==
  ASSUME IInv, NEW h \in Handlers, NEW this, NEW next, Command(h, this, next),
         <<this, next>> \in {<<"kill", "remove">>, <<"remove", "branch">>, <<"branch", "settle">>}
  PROVE  /\ (Named /\ Distinct /\ Timely /\ OwnsEntry)'
         /\ call' \in [Handlers -> Calls]
         /\ fails' \in 0..MaxFails
<1>. USE DEF IInv
<1>1. call \in [Handlers -> Calls] /\ fails \in 0..MaxFails
  BY DEF TypeOK
<1>2. fails' \in 0..MaxFails
  BY <1>1, BoundsAssumption DEF Command, Fail
<1>3. PICK f \in BOOLEAN : call' = [call EXCEPT ![h] = [call[h] EXCEPT !.pc = next, !.failed = f]]
  <2>1. CASE call' = [call EXCEPT ![h].pc = next, ![h].failed = TRUE]
    BY <1>1, <2>1
  <2>2. CASE Goto(h, next)
    <3>1. call[h].failed \in BOOLEAN
      BY <1>1 DEF Calls
    <3>2. [call[h] EXCEPT !.pc = next, !.failed = call[h].failed] = [call[h] EXCEPT !.pc = next]
      BY <1>1 DEF Calls
    <3>. QED  BY <2>2, <3>1, <3>2 DEF Goto
  <2>. QED  BY <2>1, <2>2 DEF Command
<1>. DEFINE c == [call[h] EXCEPT !.pc = next, !.failed = f]
<1>4. call[h] \in Calls /\ next \in PCs
  BY <1>1 DEF PCs
<1>5. c \in Calls /\ c.marker = call[h].marker /\ c.pc = next /\ c.deadline = call[h].deadline
  BY <1>4 DEF Calls
<1>6. InCleanup(h) /\ Holding(h) /\ Busy(h)
  BY DEF Command, InCleanup, Holding, Busy
<1>7. age[c.marker] <= c.deadline
  BY <1>5, <1>6 DEF Timely
<1>8. next \notin {"idle", "begin"}
  OBVIOUS
<1>. HIDE DEF c
<1>9. call' = [call EXCEPT ![h] = c] /\ UNCHANGED <<row, age>>
  BY <1>3 DEF c, Command
<1>. QED  BY <1>2, <1>5, <1>6, <1>7, <1>8, <1>9, StepKeeps

\* The steps of a deletion after its marker is set.
LEMMA WorkStep ==
  ASSUME IInv, NEW h \in Handlers, Work(h)
  PROVE  IInv'
<1>. USE DEF IInv
<1>1. call \in [Handlers -> Calls] /\ fails \in 0..MaxFails /\ windows \in 0..MaxSpawns
  BY DEF TypeOK
<1>2. Fail => fails' \in 0..MaxFails
  BY <1>1, BoundsAssumption DEF Fail
<1>3. CASE BeginCleanup(h)
  <2>. DEFINE d == age[call[h].marker] + Timeout
              c == [call[h] EXCEPT !.pc = "kill", !.deadline = d]
  <2>1. Busy(h) /\ Holding(h) /\ age[call[h].marker] <= MaxWait
    BY <1>3 DEF BeginCleanup, Busy, Holding, Timely
  <2>2. age[call[h].marker] \in Nat
    BY <2>1, TimesAssumption DEF Named, TypeOK
  <2>3. d \in 0..(MaxWait + Timeout) /\ age[call[h].marker] <= d
    BY <2>1, <2>2, TimesAssumption
  <2>. HIDE DEF d
  <2>4. c \in Calls /\ c.marker = call[h].marker /\ c.pc = "kill" /\ c.deadline = d
    BY <1>1, <2>3 DEF Calls, PCs
  <2>5. call' = [call EXCEPT ![h] = c] /\ UNCHANGED <<row, age>>
    BY <1>1, <1>3 DEF BeginCleanup, d
  <2>. HIDE DEF c
  <2>6. (Named /\ Distinct /\ Timely /\ OwnsEntry)' /\ call' \in [Handlers -> Calls]
    BY <2>1, <2>3, <2>4, <2>5, StepKeeps
  <2>7. UNCHANGED <<world, spawning, history, budget>>
    BY <1>3 DEF BeginCleanup
  <2>8. TypeOK' /\ WindowsCounted'
    BY <2>5, <2>6, <2>7 DEF TypeOK, WindowsCounted, Opening, world, spawning, history, budget
  <2>. QED  BY <2>6, <2>8
<1>4. CASE CleanupKill(h)
  <2>1. /\ (Named /\ Distinct /\ Timely /\ OwnsEntry)'
        /\ call' \in [Handlers -> Calls] /\ fails' \in 0..MaxFails
    BY <1>4, CommandStep DEF CleanupKill
  <2>2. UNCHANGED <<row, age, spawning, history, crashes, tree, registry>>
    BY <1>4 DEF CleanupKill, Command
  <2>3. windows' \in 0..MaxSpawns /\ windows' <= windows
    BY <1>1, <1>4, BoundsAssumption DEF CleanupKill, KillNamed
  <2>4. TypeOK'
    BY <2>1, <2>2, <2>3 DEF TypeOK, spawning, history
  <2>5. WindowsCounted'
    <3>1. Opening' = Opening /\ Opening \in Nat /\ spawns' = spawns
      BY <2>2 DEF Opening, spawning, history
    <3>2. windows \in Nat /\ windows' \in Nat /\ spawns \in Nat
      BY <1>1, <2>3, BoundsAssumption DEF TypeOK
    <3>3. windows + Opening <= spawns
      BY DEF WindowsCounted
    <3>4. windows' + Opening' <= spawns'
      <4>1. \A a, b, o, n \in Nat : a <= b /\ b + o <= n => a + o <= n
        OBVIOUS
      <4>. QED  BY <2>3, <3>1, <3>2, <3>3, <4>1
    <3>. QED  BY <3>4 DEF WindowsCounted
  <2>. QED  BY <2>1, <2>4, <2>5
<1>5. CASE CleanupRemove(h)
  <2>1. /\ (Named /\ Distinct /\ Timely /\ OwnsEntry)'
        /\ call' \in [Handlers -> Calls] /\ fails' \in 0..MaxFails
    BY <1>5, CommandStep DEF CleanupRemove
  <2>2. UNCHANGED <<row, age, spawning, history, crashes, windows, registry>>
    BY <1>5 DEF CleanupRemove, Command
  <2>3. tree' \in BOOLEAN
    BY <1>5 DEF CleanupRemove, TypeOK
  <2>4. TypeOK' /\ WindowsCounted'
    BY <2>1, <2>2, <2>3 DEF TypeOK, WindowsCounted, Opening, spawning, history
  <2>. QED  BY <2>1, <2>4
<1>6. CASE CleanupBranch(h)
  <2>1. /\ (Named /\ Distinct /\ Timely /\ OwnsEntry)'
        /\ call' \in [Handlers -> Calls] /\ fails' \in 0..MaxFails
    BY <1>6, CommandStep DEF CleanupBranch
  <2>2. UNCHANGED <<row, age, spawning, history, crashes, windows, tree>>
    BY <1>6 DEF CleanupBranch, Command
  <2>3. registry' \in BOOLEAN
    BY <1>6 DEF CleanupBranch
  <2>4. TypeOK' /\ WindowsCounted'
    BY <2>1, <2>2, <2>3 DEF TypeOK, WindowsCounted, Opening, spawning, history
  <2>. QED  BY <2>1, <2>4
<1>7. CASE Restore(h) \/ Erase(h)
  <2>1. /\ call[h].pc = "settle" /\ Return(h)
        /\ UNCHANGED <<world, spawning, history, crashes>> /\ ForgetAges
        /\ fails' \in 0..MaxFails
    BY <1>1, <1>2, <1>7 DEF Restore, Erase
  <2>2. PICK r \in Entries :
          row' = IF SameDeleteMarker(row, call[h].marker) THEN r ELSE row
    <3>1. call[h].prev \in Entries /\ row \in Entries /\ Absent \in Entries
      BY <1>1, IdleType DEF TypeOK, Calls
    <3>. QED  BY <1>7, <3>1 DEF Restore, Erase
  <2>3. (Named /\ Distinct /\ Timely)' /\ call' \in [Handlers -> Calls]
        /\ age' \in [Marks -> 0..Lease]
    BY <2>1, ReturnKeeps
  <2>4. OwnsEntry'
    BY <2>1, <2>2, SettleKeeps
  <2>5. row' \in Entries
    BY <2>2 DEF TypeOK
  <2>6. TypeOK' /\ WindowsCounted'
    BY <2>1, <2>3, <2>5 DEF TypeOK, WindowsCounted, Opening, world, spawning, history
  <2>. QED  BY <2>3, <2>4, <2>6
<1>. QED  BY <1>3, <1>4, <1>5, <1>6, <1>7 DEF Work

\* Time: no marker outgrows what its holder allows.
LEMMA TickStep ==
  ASSUME IInv, Tick
  PROVE  IInv'
<1>. USE DEF IInv
<1>1. age \in [Marks -> 0..Lease] /\ call \in [Handlers -> Calls]
  BY DEF TypeOK
<1>2. \A n \in Marks : age'[n] \in 0..Lease /\ age'[n] <= age[n] + 1
  BY <1>1, TimesAssumption DEF Tick
<1>3. age' \in [Marks -> 0..Lease]
  BY <1>2 DEF Tick
<1>4. UNCHANGED <<row, world, spawning, call, history, budget>>
  BY DEF Tick
<1>5. TypeOK' /\ WindowsCounted'
  BY <1>3, <1>4 DEF TypeOK, WindowsCounted, Opening, world, spawning, history, budget
<1>6. Named' /\ Distinct'
  BY <1>4 DEF Named, Distinct, Busy
<1>7. OwnsEntry'
  BY <1>4, SameEntry
<1>8. Timely'
  <2>1. SUFFICES ASSUME NEW h \in Handlers, Holding(h)
                 PROVE  /\ call[h].pc = "begin" => age'[call[h].marker] <= MaxWait
                        /\ InCleanup(h) => age'[call[h].marker] <= call[h].deadline
    BY <1>4 DEF Timely, Holding, InCleanup
  <2>2. call[h].marker \in Marks /\ call[h].deadline \in Nat
    BY <1>1, <2>1, TimesAssumption DEF Named, Busy, Holding, InCleanup, Calls
  <2>3. age[call[h].marker] \in Nat /\ age'[call[h].marker] \in Nat
        /\ age'[call[h].marker] <= age[call[h].marker] + 1
    BY <1>1, <1>2, <2>2, TimesAssumption
  <2>4. call[h].pc = "begin" => age[call[h].marker] < MaxWait
    BY DEF Tick
  <2>5. InCleanup(h) => age[call[h].marker] < call[h].deadline
    BY DEF Tick
  <2>. QED  BY <2>2, <2>3, <2>4, <2>5, TimesAssumption
<1>. QED  BY <1>5, <1>6, <1>7, <1>8

\* The others write no entry that is deleting.
LEMMA OtherStep ==
  ASSUME IInv, UNCHANGED <<age, call>>, row.status # "deleting" \/ UNCHANGED row
  PROVE  (Named /\ Distinct /\ Timely /\ OwnsEntry)'
BY CallsKept, FreeEntry, SameEntry DEF IInv

LEMMA WriterStep ==
  ASSUME IInv, \/ \E h \in Handlers : DeleteAtOnce(h)
               \/ SomeUpdate
               \/ Create
  PROVE  IInv'
<1>1. /\ UNCHANGED <<age, world, spawning, call, budget>>
      /\ row.status # "deleting"
  <2>1. CASE SomeUpdate
    BY <2>1 DEF SomeUpdate, Update, MayUpdate
  <2>. QED  BY <2>1 DEF DeleteAtOnce, Create, Absent
<1>2. row' \in Entries
  <2>1. row \in Entries
    BY DEF IInv, TypeOK
  <2>2. CASE SomeUpdate
    BY <2>1, <2>2, EnterableAssumption DEF SomeUpdate, Update, Entries
  <2>. QED  BY <2>1, <2>2, IdleType DEF DeleteAtOnce, Create
<1>5. lost' \in BOOLEAN /\ updates' \in 0..MaxUpdates
  <2>1. lost \in BOOLEAN /\ updates \in 0..MaxUpdates
    BY DEF IInv, TypeOK
  <2>2. CASE SomeUpdate
    <3>1. lost' \in BOOLEAN /\ updates < MaxUpdates /\ updates' = updates + 1
      BY <2>1, <2>2 DEF SomeUpdate, Update
    <3>. QED  BY <2>1, <3>1, BoundsAssumption
  <2>. QED  BY <2>1, <2>2 DEF DeleteAtOnce, Create, history
<1>3. (Named /\ Distinct /\ Timely /\ OwnsEntry)'
  BY <1>1, OtherStep
<1>4. TypeOK' /\ WindowsCounted'
  BY <1>1, <1>2, <1>5 DEF IInv, TypeOK, WindowsCounted, Opening, world, spawning, budget
<1>. QED  BY <1>3, <1>4 DEF IInv

\* spawn_worker and its rollback: an entry is taken when unstarted, reset when in progress.
LEMMA SpawnStep ==
  ASSUME IInv, Spawn
  PROVE  IInv'
<1>. USE DEF IInv
<1>1. UNCHANGED <<age, call, updates, crashes>> /\ (row.status # "deleting" \/ UNCHANGED row)
  BY DEF Spawn, SpawnBegin, SpawnWorktree, SpawnWindow, SpawnLedger, SpawnRegister,
         SpawnLaunch, UndoWindow, UndoWorktree, UndoLedger, budget, history, world
<1>2. (Named /\ Distinct /\ Timely /\ OwnsEntry)'
  BY <1>1, OtherStep
<1>3. row' \in Entries
  <2>1. row \in Entries
    BY DEF TypeOK
  <2>. QED  BY <2>1 DEF Spawn, SpawnBegin, SpawnWorktree, SpawnWindow, SpawnLedger,
              SpawnRegister, SpawnLaunch, UndoWindow, UndoWorktree, UndoLedger, Entries, Statuses,
              Workers
<1>4. spawn' \in [pc : SpawnPCs, taken : BOOLEAN]
  <2>1. spawn \in [pc : SpawnPCs, taken : BOOLEAN]
    BY DEF TypeOK
  <2>2. NoSpawn \in [pc : SpawnPCs, taken : BOOLEAN]
    BY DEF NoSpawn, SpawnPCs
  <2>3. ASSUME NEW pc \in SpawnPCs, SpawnTo(pc)
        PROVE  spawn' \in [pc : SpawnPCs, taken : BOOLEAN]
    BY <2>1, <2>3 DEF SpawnTo
  <2>4. \A pc \in SpawnPCs : SpawnTo(pc) => spawn' \in [pc : SpawnPCs, taken : BOOLEAN]
    BY <2>3
  <2>5. {"worktree", "window", "ledger", "register", "launch", "undo_window", "undo_worktree",
         "undo_ledger"} \subseteq SpawnPCs
    BY DEF SpawnPCs
  <2>6. CASE SpawnLedger
    <3>1. CASE row.status = "unstarted"
      <4>1. spawn' = [pc |-> "register", taken |-> TRUE]
        BY <2>6, <3>1 DEF SpawnLedger
      <4>. QED  BY <2>5, <4>1
    <3>2. CASE row.status # "unstarted"
      BY <2>4, <2>5, <2>6, <3>2 DEF SpawnLedger
    <3>. QED  BY <3>1, <3>2
  <2>7. CASE UndoWorktree
    BY <2>1, <2>2, <2>5, <2>7 DEF UndoWorktree
  <2>8. CASE SpawnBegin \/ SpawnWorktree \/ SpawnWindow \/ SpawnRegister \/ SpawnLaunch
    BY <2>2, <2>4, <2>5, <2>8
    DEF SpawnBegin, SpawnWorktree, SpawnWindow, SpawnRegister, SpawnLaunch
  <2>9. CASE UndoWindow \/ UndoLedger
    BY <2>2, <2>4, <2>5, <2>9 DEF UndoWindow, UndoLedger
  <2>. QED  BY <2>6, <2>7, <2>8, <2>9 DEF Spawn
<1>5. tree' \in BOOLEAN /\ registry' \in BOOLEAN /\ lost' \in BOOLEAN
  BY DEF TypeOK, Spawn, SpawnBegin, SpawnWorktree, SpawnWindow, SpawnLedger, SpawnRegister,
         SpawnLaunch, UndoWindow, UndoWorktree, UndoLedger, budget, history, world
<1>6. fails' \in 0..MaxFails
  <2>1. fails' = fails \/ Fail
    BY DEF Spawn, SpawnBegin, SpawnWorktree, SpawnWindow, SpawnLedger, SpawnRegister,
           SpawnLaunch, UndoWindow, UndoWorktree, UndoLedger, budget
  <2>. QED  BY <2>1, BoundsAssumption DEF TypeOK, Fail
<1>7. windows' \in 0..MaxSpawns /\ spawns' \in 0..MaxSpawns /\ WindowsCounted'
  <2>1. /\ windows \in 0..MaxSpawns /\ spawns \in 0..MaxSpawns
        /\ windows + (IF spawn.pc \in {"worktree", "window"} THEN 1 ELSE 0) <= spawns
    BY DEF TypeOK, WindowsCounted, Opening
  <2>2. spawn \in [pc : SpawnPCs, taken : BOOLEAN]
    BY DEF TypeOK
  <2>. USE BoundsAssumption DEF WindowsCounted, Opening
  <2>3. CASE SpawnBegin
    BY <2>1, <2>2, <2>3 DEF SpawnBegin, SpawnTo, NoSpawn, world
  <2>4. CASE SpawnWorktree
    BY <2>1, <2>2, <2>4 DEF SpawnWorktree, SpawnTo, NoSpawn
  <2>5. CASE SpawnWindow
    BY <2>1, <2>2, <2>5 DEF SpawnWindow, SpawnTo
  <2>6. CASE SpawnLedger
    BY <2>1, <2>2, <2>6 DEF SpawnLedger, SpawnTo, world
  <2>7. CASE SpawnRegister
    BY <2>1, <2>2, <2>7 DEF SpawnRegister, SpawnTo
  <2>8. CASE SpawnLaunch
    BY <2>1, <2>2, <2>8 DEF SpawnLaunch, SpawnTo, NoSpawn, world
  <2>9. CASE UndoWindow
    BY <2>1, <2>2, <2>9 DEF UndoWindow, SpawnTo, KillNamed
  <2>10. CASE UndoWorktree
    BY <2>1, <2>2, <2>10 DEF UndoWorktree, NoSpawn
  <2>11. CASE UndoLedger
    BY <2>1, <2>2, <2>11 DEF UndoLedger, NoSpawn
  <2>. QED  BY <2>3, <2>4, <2>5, <2>6, <2>7, <2>8, <2>9, <2>10, <2>11 DEF Spawn
<1>8. TypeOK'
  BY <1>1, <1>3, <1>4, <1>5, <1>6, <1>7 DEF TypeOK
<1>. QED  BY <1>2, <1>7, <1>8

\* A crash leaves the entry, its marker and the age of the marker to whoever comes next.
LEMMA CrashStep ==
  ASSUME IInv, Crash
  PROVE  IInv'
<1>. USE DEF IInv
<1>1. \A h \in Handlers : call'[h] = Idle
  BY DEF Crash
<1>2. \A h \in Handlers : ~Busy(h)' /\ ~Holding(h)' /\ ~InCleanup(h)' /\ call'[h].pc # "begin"
  BY <1>1 DEF Busy, Holding, InCleanup, Idle
<1>3. (Named /\ Distinct /\ Timely /\ OwnsEntry)'
  BY <1>2 DEF Named, Distinct, Timely, OwnsEntry
<1>4. call' \in [Handlers -> Calls]
  BY IdleType DEF Crash
<1>5. spawn' \in [pc : SpawnPCs, taken : BOOLEAN] /\ Opening' = 0 /\ Opening \in {0, 1}
  BY DEF Crash, NoSpawn, SpawnPCs, Opening
<1>6. crashes' \in 0..MaxCrashes
  BY BoundsAssumption DEF Crash, TypeOK
<1>7. lost' \in BOOLEAN /\ registry' \in BOOLEAN
  BY DEF Crash, TypeOK
<1>8. UNCHANGED <<row, windows, tree, spawns, updates, fails>> /\ age' \in [Marks -> 0..Lease]
  BY AgesForgotten DEF Crash, TypeOK
<1>9. TypeOK'
  BY <1>4, <1>5, <1>6, <1>7, <1>8 DEF TypeOK
<1>10. windows \in Nat /\ spawns \in Nat
  BY BoundsAssumption DEF TypeOK
<1>11. WindowsCounted'
  <2>. HIDE DEF IInv
  <2>1. windows + Opening <= spawns
    BY DEF IInv, WindowsCounted
  <2>2. windows' + Opening' <= spawns'
    BY <1>5, <1>8, <1>10, <2>1
  <2>. QED  BY <2>2 DEF WindowsCounted
<1>. QED  BY <1>3, <1>9, <1>11

\* The inductive invariant holds in every state.
THEOREM Invariance == Spec => []IInv
<1>1. IInv /\ [Next]_vars => IInv'
  <2>. SUFFICES ASSUME IInv, [Next]_vars PROVE IInv'
    OBVIOUS
  <2>1. CASE \E h \in Handlers : Mark(h)
    BY <2>1, MarkStep
  <2>2. CASE \E h \in Handlers : Work(h)
    BY <2>2, WorkStep
  <2>3. CASE \/ \E h \in Handlers : DeleteAtOnce(h)
             \/ SomeUpdate
             \/ Create
    BY <2>3, WriterStep
  <2>4. CASE Spawn
    BY <2>4, SpawnStep
  <2>5. CASE Tick
    BY <2>5, TickStep
  <2>6. CASE Crash
    BY <2>6, CrashStep
  <2>7. CASE UNCHANGED vars
    <3>1. (Named /\ Distinct /\ Timely /\ OwnsEntry)'
      BY <2>7, CallsKept, SameEntry DEF vars, IInv
    <3>2. TypeOK' /\ WindowsCounted'
      BY <2>7 DEF vars, IInv, TypeOK, WindowsCounted, Opening, world, spawning, history, budget
    <3>. QED  BY <3>1, <3>2 DEF IInv
  <2>. QED  BY <2>1, <2>2, <2>3, <2>4, <2>5, <2>6, <2>7 DEF Next, SomeUpdate
<1>. QED  BY <1>1, InitInv, PTL DEF Spec

-----------------------------------------------------------------------------
(* What is left of a worker *)

\* A spawn in flight has taken the task or not, as its control point says.
SpawnInv ==
  /\ spawn.pc \in {"idle", "worktree", "window", "ledger"} => ~spawn.taken
  /\ spawn.pc \in {"register", "launch", "undo_ledger"} => spawn.taken

\* Control points at which a window, or a worktree, may be of the spawn in flight.
WindowOfSpawn == spawn.pc \in {"ledger", "undo_window"}
TreeOfSpawn ==
  spawn.pc \in {"window", "ledger", "register", "launch", "undo_window", "undo_worktree"}

\* Whatever is there of a worker belongs to the entry or to the spawn in flight.
Accounted == ~lost =>
  /\ windows = 1 => row.worker = "own" \/ WindowOfSpawn
  /\ tree => row.worker = "own" \/ TreeOfSpawn
  /\ registry => row.worker = "own" \/ spawn.taken
  /\ spawn.taken /\ spawn.pc \in {"undo_worktree", "undo_ledger"} => windows # 1
  /\ spawn.pc = "undo_ledger" => ~tree

\* What a cleanup that met no failure has removed stays away, but for the spawn in flight.
Swept(h) == ~lost /\ ~call[h].failed =>
  /\ call[h].pc \in {"remove", "branch", "settle"} /\ windows = 1 => WindowOfSpawn
  /\ call[h].pc \in {"branch", "settle"} /\ tree => TreeOfSpawn
  /\ call[h].pc = "settle" /\ registry => spawn.taken

\* S has the markers that the entry had since it was last not deleting.  Any of them may
\* come back, when a deletion that took over fails and restores what it found.
Round(S) ==
  /\ IF row.status = "deleting" THEN row.marker \in S ELSE S = {}
  /\ \A h \in Handlers : Busy(h) /\ call[h].marker \in S =>
       /\ call[h].prev.worker = row.worker
       /\ call[h].prev.status = "deleting" => call[h].prev.marker \in S
       /\ Swept(h)

SweptInv == SpawnInv /\ Accounted /\ \E S \in SUBSET Marks : Round(S)

SpawnType == spawn \in [pc : SpawnPCs, taken : BOOLEAN]

LEMMA InitSwept == Init => SweptInv
<1>. SUFFICES ASSUME Init PROVE SweptInv
  OBVIOUS
<1>1. SpawnInv /\ Accounted
  BY DEF Init, NoSpawn, SpawnInv, Accounted
<1>2. Round({})
  BY DEF Init, Round, Unstarted, Absent
<1>. QED  BY <1>1, <1>2 DEF SweptInv

LEMMA RoundEnds ==
  ASSUME row'.status # "deleting"
  PROVE  (\E S \in SUBSET Marks : Round(S))'
<1>1. Round({})'
  BY DEF Round
<1>. QED  BY <1>1

\* The same deletions under the same marker, and nothing comes back.
LEMMA RoundGoesOn ==
  ASSUME NEW S \in SUBSET Marks, Round(S), UNCHANGED <<row, call>>,
         \A h \in Handlers : row.status = "deleting" /\ Swept(h) => Swept(h)'
  PROVE  (\E T \in SUBSET Marks : Round(T))'
<1>1. CASE row.status = "deleting"
  <2>1. Round(S)'
    BY <1>1 DEF Round, Busy
  <2>. QED  BY <2>1
<1>2. CASE row.status # "deleting"
  BY <1>2, RoundEnds
<1>. QED  BY <1>1, <1>2

\* A deletion returns, and the entry keeps its worker, and its place in the round.
LEMMA RoundLeft ==
  ASSUME TypeOK, NEW S \in SUBSET Marks, Round(S), NEW h \in Handlers, Return(h),
         UNCHANGED <<world, spawning, lost>>, row'.worker = row.worker,
         row'.status = "deleting" => row.status = "deleting" /\ row'.marker \in S
  PROVE  (\E T \in SUBSET Marks : Round(T))'
<1>1. CASE row'.status # "deleting"
  BY <1>1, RoundEnds
<1>2. CASE row'.status = "deleting"
  <2>1. \A k \in Handlers : call'[k] = IF k = h THEN Idle ELSE call[k]
    BY DEF Return, TypeOK
  <2>2. \A k \in Handlers : k # h /\ Swept(k) => Swept(k)'
    BY <2>1 DEF Swept, WindowOfSpawn, TreeOfSpawn, world, spawning
  <2>3. Round(S)'
    BY <1>2, <2>1, <2>2 DEF Round, Busy, Idle
  <2>. QED  BY <2>3
<1>. QED  BY <1>1, <1>2

\* A cleanup goes on under its marker; what it has removed now is swept.
LEMMA RoundStep ==
  ASSUME NEW S \in SUBSET Marks, Round(S), NEW h \in Handlers, Busy(h), UNCHANGED row,
         call'[h].marker = call[h].marker, call'[h].prev = call[h].prev,
         call[h].prev.worker = row.worker /\ Swept(h) => Swept(h)',
         \A k \in Handlers \ {h} : call'[k] = call[k] /\ (Swept(k) => Swept(k)')
  PROVE  (\E T \in SUBSET Marks : Round(T))'
<1>1. Round(S)'
  BY DEF Round, Busy
<1>. QED  BY <1>1

LEMMA MarkSwept ==
  ASSUME TypeOK, SweptInv, NEW h \in Handlers, Mark(h)
  PROVE  SweptInv'
<1>1. PICK n \in Marks \ InUse :
        /\ row' = [row EXCEPT !.status = "deleting", !.marker = n]
        /\ call' = [call EXCEPT ![h] = [Idle EXCEPT !.pc = "begin", !.marker = n, !.prev = row]]
  BY DEF Mark
<1>2. PICK S \in SUBSET Marks : Round(S)
  BY DEF SweptInv
<1>. DEFINE c == [Idle EXCEPT !.pc = "begin", !.marker = n, !.prev = row]
<1>3. c.pc = "begin" /\ c.marker = n /\ c.prev = row
  BY DEF Idle
<1>. HIDE DEF c
<1>4. \A k \in Handlers : call'[k] = IF k = h THEN c ELSE call[k]
  BY <1>1 DEF c, TypeOK
<1>5. row'.status = "deleting" /\ row'.marker = n /\ row'.worker = row.worker
  BY <1>1 DEF TypeOK, Entries
<1>6. \A k \in Handlers : call[k].marker # n
  BY DEF InUse
<1>7. UNCHANGED <<windows, tree, registry, spawn, spawns, lost>>
  BY DEF Mark, world, spawning, history
<1>8. \A k \in Handlers : k # h /\ Swept(k) => Swept(k)'
  BY <1>4, <1>7 DEF Swept, WindowOfSpawn, TreeOfSpawn
<1>9. Swept(h)'
  BY <1>3, <1>4 DEF Swept
<1>10. (\E T \in SUBSET Marks : Round(T))'
  <2>1. CASE row.status = "deleting"
    <3>1. row.marker \in S
      BY <1>2, <2>1 DEF Round
    <3>2. ASSUME NEW k \in Handlers, Busy(k)', call'[k].marker \in S \cup {n}
          PROVE  /\ call'[k].prev.worker = row'.worker
                 /\ call'[k].prev.status = "deleting" => call'[k].prev.marker \in S \cup {n}
                 /\ Swept(k)'
      <4>1. CASE k = h
        BY <1>3, <1>4, <1>5, <1>9, <3>1, <4>1
      <4>2. CASE k # h
        <5>1. call'[k] = call[k] /\ Busy(k) /\ call[k].marker \in S
          BY <1>4, <1>6, <3>1, <3>2, <4>2 DEF Busy
        <5>. QED  BY <1>2, <1>5, <1>8, <3>1, <4>2, <5>1 DEF Round
      <4>. QED  BY <4>1, <4>2
    <3>3. Round(S \cup {n})'
      BY <1>5, <3>1, <3>2 DEF Round
    <3>. QED  BY <3>3
  <2>2. CASE row.status # "deleting"
    <3>2. ASSUME NEW k \in Handlers, Busy(k)', call'[k].marker \in {n}
          PROVE  /\ call'[k].prev.worker = row'.worker
                 /\ call'[k].prev.status # "deleting"
                 /\ Swept(k)'
      <4>1. k = h
        BY <1>4, <1>6, <3>2
      <4>. QED  BY <1>3, <1>4, <1>5, <1>9, <2>2, <4>1
    <3>3. Round({n})'
      BY <1>5, <3>2 DEF Round
    <3>. QED  BY <3>3
  <2>. QED  BY <2>1, <2>2
<1>11. (SpawnInv /\ Accounted)'
  BY <1>5, <1>7 DEF SweptInv, SpawnInv, Accounted, WindowOfSpawn, TreeOfSpawn
<1>. QED  BY <1>10, <1>11 DEF SweptInv

\* A command that reports no failure has done its work.
LEMMA CommandMoves ==
  ASSUME TypeOK, NEW h \in Handlers, NEW this, NEW next, Command(h, this, next),
         this \in {"kill", "remove", "branch"}
  PROVE  /\ call'[h].pc = next /\ call'[h].marker = call[h].marker
         /\ call'[h].prev = call[h].prev /\ Busy(h)
         /\ ~call'[h].failed => ~call[h].failed /\ fails' = fails
         /\ \A k \in Handlers \ {h} : call'[k] = call[k]
         /\ UNCHANGED <<row, spawn, lost>>
<1>1. call \in [Handlers -> Calls] /\ call[h] \in Calls
  BY DEF TypeOK
<1>2. Busy(h) /\ UNCHANGED <<row, spawn, lost>>
  BY DEF Command, Busy, spawning, history
<1>3. CASE Fail /\ call' = [call EXCEPT ![h].pc = next, ![h].failed = TRUE]
  BY <1>1, <1>2, <1>3 DEF Calls
<1>4. CASE Goto(h, next) /\ UNCHANGED fails
  BY <1>1, <1>2, <1>4 DEF Goto, Calls
<1>. QED  BY <1>3, <1>4 DEF Command

LEMMA WorkSwept ==
  ASSUME TypeOK, SweptInv, NEW h \in Handlers, Work(h)
  PROVE  SweptInv'
<1>1. PICK S \in SUBSET Marks : Round(S)
  BY DEF SweptInv
<1>2. SpawnInv /\ Accounted /\ windows \in Nat
  BY BoundsAssumption DEF SweptInv, TypeOK
<1>3. CASE BeginCleanup(h)
  <2>1. call \in [Handlers -> Calls] /\ call[h] \in Calls
    BY DEF TypeOK
  <2>2. /\ Busy(h) /\ UNCHANGED <<row, windows, tree, registry, spawn, lost>>
        /\ call'[h].pc = "kill" /\ call'[h].marker = call[h].marker
        /\ call'[h].prev = call[h].prev
        /\ \A k \in Handlers \ {h} : call'[k] = call[k]
    BY <1>3, <2>1 DEF BeginCleanup, Busy, Calls, world, spawning, history
  <2>3. (SpawnInv /\ Accounted)'
    BY <1>2, <2>2 DEF SpawnInv, Accounted, WindowOfSpawn, TreeOfSpawn
  <2>4. Swept(h)' /\ \A k \in Handlers \ {h} : Swept(k) => Swept(k)'
    BY <2>2 DEF Swept, WindowOfSpawn, TreeOfSpawn
  <2>. QED  BY <1>1, <2>2, <2>3, <2>4, RoundStep DEF SweptInv
<1>4. CASE CleanupKill(h)
  <2>1. /\ Command(h, "kill", "remove") /\ UNCHANGED <<tree, registry>>
        /\ \/ NamesWorker(call[h].prev) /\ KillNamed
           \/ ~NamesWorker(call[h].prev) /\ UNCHANGED windows
           \/ fails' # fails /\ UNCHANGED windows
    BY <1>4 DEF CleanupKill
  <2>2. windows' = 1 => windows = 1
    BY <1>2, <2>1 DEF KillNamed
  <2>3. /\ call'[h].pc = "remove" /\ call'[h].marker = call[h].marker
        /\ call'[h].prev = call[h].prev /\ Busy(h)
        /\ ~call'[h].failed => fails' = fails
        /\ \A k \in Handlers \ {h} : call'[k] = call[k]
        /\ UNCHANGED <<row, spawn, lost>>
    BY <2>1, CommandMoves
  <2>4. (SpawnInv /\ Accounted)'
    BY <1>2, <2>1, <2>2, <2>3 DEF SpawnInv, Accounted, WindowOfSpawn, TreeOfSpawn
  <2>5. call[h].prev.worker = row.worker => Swept(h)'
    <3>1. CASE NamesWorker(call[h].prev) /\ KillNamed
      BY <1>2, <2>3, <3>1 DEF Swept, KillNamed
    <3>2. CASE ~NamesWorker(call[h].prev) /\ UNCHANGED windows
      <4>1. call[h].prev.worker # "own" /\ (~lost /\ windows = 1 /\ row.worker # "own" => WindowOfSpawn)
        BY <1>2, <3>2 DEF NamesWorker, Accounted
      <4>. QED  BY <2>3, <3>2, <4>1 DEF Swept, WindowOfSpawn
    <3>3. CASE fails' # fails /\ UNCHANGED windows
      BY <2>3, <3>3 DEF Swept
    <3>. QED  BY <2>1, <3>1, <3>2, <3>3
  <2>6. \A k \in Handlers \ {h} : Swept(k) => Swept(k)'
    BY <2>1, <2>2, <2>3 DEF Swept, WindowOfSpawn, TreeOfSpawn
  <2>. QED  BY <1>1, <2>3, <2>4, <2>5, <2>6, RoundStep DEF SweptInv
<1>5. CASE CleanupRemove(h)
  <2>1. Command(h, "remove", "branch") /\ UNCHANGED <<windows, registry>>
        /\ (tree' => tree /\ fails' # fails)
    BY <1>5 DEF CleanupRemove
  <2>2. call[h].pc = "remove"
    BY <2>1 DEF Command
  <2>3. (SpawnInv /\ Accounted)'
    BY <1>2, <2>1, CommandMoves DEF SpawnInv, Accounted, WindowOfSpawn, TreeOfSpawn
  <2>4. (Swept(h) => Swept(h)') /\ \A k \in Handlers \ {h} : Swept(k) => Swept(k)'
    BY <2>1, <2>2, CommandMoves DEF Swept, WindowOfSpawn, TreeOfSpawn
  <2>. QED  BY <1>1, <2>1, <2>3, <2>4, CommandMoves, RoundStep DEF SweptInv
<1>6. CASE CleanupBranch(h)
  <2>1. /\ Command(h, "branch", "settle") /\ UNCHANGED <<windows, tree>>
        /\ registry' = (registry /\ ~NamesWorker(call[h].prev))
    BY <1>6 DEF CleanupBranch
  <2>2. call[h].pc = "branch"
    BY <2>1 DEF Command
  <2>3. (SpawnInv /\ Accounted)'
    BY <1>2, <2>1, CommandMoves DEF SpawnInv, Accounted, WindowOfSpawn, TreeOfSpawn
  <2>4. \A k \in Handlers \ {h} : Swept(k) => Swept(k)'
    BY <2>1, <2>2, CommandMoves DEF Swept, WindowOfSpawn, TreeOfSpawn
  <2>5. call[h].prev.worker = row.worker /\ registry' => row.worker # "own"
    BY <2>1 DEF NamesWorker
  <2>6. call[h].prev.worker = row.worker /\ ~lost /\ registry' => spawn.taken
    BY <1>2, <2>1, <2>5 DEF Accounted
  <2>7. call[h].prev.worker = row.worker /\ Swept(h) => Swept(h)'
    BY <2>1, <2>2, <2>6, CommandMoves DEF Swept, WindowOfSpawn, TreeOfSpawn
  <2>. QED  BY <1>1, <2>1, <2>3, <2>4, <2>7, CommandMoves, RoundStep DEF SweptInv
<1>7. CASE Restore(h) \/ Erase(h)
  <2>1. /\ call[h].pc = "settle" /\ Busy(h) /\ Return(h) /\ UNCHANGED <<world, spawning, lost>>
        /\ UNCHANGED <<windows, tree, registry, spawn>>
    BY <1>7 DEF Restore, Erase, Busy, world, spawning, history
  <2>2. \/ UNCHANGED row
        \/ /\ SameDeleteMarker(row, call[h].marker)
           /\ row' = call[h].prev \/ (row' = Absent /\ ~call[h].failed)
    BY <1>7 DEF Restore, Erase
  <2>3. SpawnInv'
    BY <1>2, <2>1 DEF SpawnInv
  <2>4. CASE UNCHANGED row
    <3>1. Accounted'
      BY <1>2, <2>1, <2>4 DEF Accounted, WindowOfSpawn, TreeOfSpawn
    <3>2. row.status = "deleting" => row.marker \in S
      BY <1>1 DEF Round
    <3>. QED  BY <1>1, <2>1, <2>3, <2>4, <3>1, <3>2, RoundLeft DEF SweptInv
  <2>5. CASE SameDeleteMarker(row, call[h].marker)
    <3>1. /\ row.status = "deleting" /\ call[h].marker \in S
          /\ call[h].prev.worker = row.worker
          /\ call[h].prev.status = "deleting" => call[h].prev.marker \in S
          /\ Swept(h)
      BY <1>1, <2>1, <2>5 DEF Round, SameDeleteMarker
    <3>2. CASE row' = call[h].prev
      <4>1. Accounted'
        BY <1>2, <2>1, <3>1, <3>2 DEF Accounted, WindowOfSpawn, TreeOfSpawn
      <4>. QED  BY <1>1, <2>1, <2>3, <3>1, <3>2, <4>1, RoundLeft DEF SweptInv
    <3>3. CASE row' = Absent /\ ~call[h].failed
      <4>1. row'.status # "deleting" /\ row'.worker = "none"
        BY <3>3 DEF Absent
      <4>2. Accounted'
        BY <1>2, <2>1, <3>1, <3>3, <4>1 DEF Accounted, Swept, WindowOfSpawn, TreeOfSpawn
      <4>. QED  BY <2>3, <4>1, <4>2, RoundEnds DEF SweptInv
    <3>. QED  BY <2>2, <2>4, <3>2, <3>3
  <2>. QED  BY <2>2, <2>4, <2>5
<1>. QED  BY <1>3, <1>4, <1>5, <1>6, <1>7 DEF Work

LEMMA WriterSwept ==
  ASSUME TypeOK, SweptInv,
         \/ \E h \in Handlers : DeleteAtOnce(h)
         \/ SomeUpdate
         \/ Create
  PROVE  SweptInv'
<1>1. UNCHANGED <<windows, tree, registry, spawn>> /\ row \in Entries /\ lost \in BOOLEAN
  BY DEF DeleteAtOnce, SomeUpdate, Update, Create, world, spawning, TypeOK
<1>2. /\ row'.status # "deleting" /\ (lost => lost')
      /\ ~lost' /\ row.worker = "own" => row'.worker = "own"
  <2>1. CASE \E h \in Handlers : DeleteAtOnce(h)
    <3>1. row.status # "deleting" /\ row.worker = "none" /\ row' = Absent /\ lost' = lost
      BY <2>1 DEF DeleteAtOnce, NeedsCleanup, history
    <3>. QED  BY <3>1 DEF Absent
  <2>2. CASE SomeUpdate
    <3>1. PICK status \in Statuses \ {"absent", "deleting"}, worker \in Enterable, branch \in BOOLEAN :
            Update(status, worker, branch)
      BY <2>2 DEF SomeUpdate
    <3>2. row' = [row EXCEPT !.status = status, !.worker = worker, !.branch = branch]
          /\ lost' = (lost \/ (row.worker = "own" /\ worker # "own"))
      BY <3>1 DEF Update
    <3>3. row'.status = status /\ row'.worker = worker
      BY <1>1, <3>2 DEF Entries
    <3>. QED  BY <3>2, <3>3
  <2>3. CASE Create
    <3>1. lost' = lost /\ row.worker = "none"
      BY <2>3 DEF Create, Absent, history
    <3>. QED  BY <2>3, <3>1 DEF Create, Unstarted, Absent
  <2>. QED  BY <2>1, <2>2, <2>3
<1>3. (SpawnInv /\ Accounted)'
  BY <1>1, <1>2 DEF SweptInv, SpawnInv, Accounted, WindowOfSpawn, TreeOfSpawn
<1>. QED  BY <1>2, <1>3, RoundEnds DEF SweptInv

\* A spawn that ends has entered its worker or has taken everything back.
LEMMA SpawnSwept ==
  ASSUME TypeOK, SweptInv, Spawn
  PROVE  SweptInv'
<1>1. SpawnInv /\ Accounted /\ SpawnType /\ windows \in Nat /\ row \in Entries
  BY BoundsAssumption DEF SweptInv, TypeOK, SpawnType
<1>2. UNCHANGED call
  BY DEF Spawn, SpawnBegin, SpawnWorktree, SpawnWindow, SpawnLedger, SpawnRegister,
         SpawnLaunch, UndoWindow, UndoWorktree, UndoLedger
<1>. DEFINE Kept == UNCHANGED row /\ \A h \in Handlers : Swept(h) => Swept(h)'
            Good == (SpawnInv /\ Accounted)' /\ (Kept \/ row'.status # "deleting")
<1>. USE DEF history, SpawnTo, SpawnType, SpawnInv, Accounted, Swept, WindowOfSpawn, TreeOfSpawn
<1>3. ASSUME SpawnBegin PROVE Good
  BY <1>1, <1>2, <1>3 DEF SpawnBegin, world, NoSpawn
<1>4. ASSUME SpawnWorktree PROVE Good
  <2>0. tree \in BOOLEAN /\ lost \in BOOLEAN
    BY DEF TypeOK
  <2>1. UNCHANGED <<row, windows, registry>> /\ spawn.pc = "worktree" /\ ~spawn.taken
    BY <1>1, <1>4 DEF SpawnWorktree
  <2>2. spawn'.pc \in {"window", "idle"} /\ ~spawn'.taken
    <3>1. CASE SpawnTo("window")
      BY <1>1, <2>1, <3>1
    <3>2. CASE spawn' = NoSpawn
      BY <3>2 DEF NoSpawn
    <3>. QED  BY <1>4, <3>1, <3>2 DEF SpawnWorktree
  <2>3. (lost => lost') /\ (~lost' /\ tree' /\ ~tree => spawn'.pc = "window")
    <3>1. CASE tree' = TRUE /\ SpawnTo("window") /\ UNCHANGED lost
      BY <1>1, <3>1
    <3>2. CASE UNCHANGED <<tree, lost>>
      BY <3>2
    <3>3. CASE tree' \in {tree, TRUE} /\ lost' = (lost \/ tree' # tree)
      BY <2>0, <3>3
    <3>. QED  BY <1>4, <3>1, <3>2, <3>3 DEF SpawnWorktree
  <2>4. (SpawnInv /\ Accounted)'
    BY <1>1, <2>1, <2>2, <2>3
  <2>5. Kept
    BY <1>2, <2>1, <2>2, <2>3
  <2>. QED  BY <2>4, <2>5
<1>5. ASSUME SpawnWindow PROVE Good
  <2>1. /\ UNCHANGED <<row, tree, registry>> /\ spawn.pc = "window" /\ spawn'.taken = spawn.taken
        /\ \/ spawn'.pc = "ledger" /\ lost' = lost
           \/ /\ spawn'.pc = "undo_worktree" /\ windows' \in {windows, windows + 1}
              /\ lost' = (lost \/ windows' # windows)
    BY <1>1, <1>5 DEF SpawnWindow
  <2>2. ~lost' => ~lost /\ (spawn'.pc = "ledger" \/ windows' = windows)
    BY <2>1
  <2>3. (SpawnInv /\ Accounted)'
    BY <1>1, <2>1, <2>2
  <2>4. Kept
    BY <1>2, <2>1, <2>2
  <2>. QED  BY <2>3, <2>4
<1>6. ASSUME SpawnLedger PROVE Good
  <2>1. CASE row.status = "unstarted"
    <3>1. /\ row'.status = "in_progress" /\ row'.worker = "own" /\ UNCHANGED lost
          /\ spawn'.pc = "register" /\ spawn'.taken
      <4>1. /\ row' = [row EXCEPT !.status = "in_progress", !.worker = "own", !.branch = TRUE]
            /\ spawn' = [pc |-> "register", taken |-> TRUE] /\ UNCHANGED lost
        BY <1>6, <2>1 DEF SpawnLedger
      <4>2. row'.status = "in_progress" /\ row'.worker = "own"
        BY <1>1, <4>1 DEF Entries
      <4>. QED  BY <4>1, <4>2
    <3>. QED  BY <1>1, <3>1
  <2>2. CASE row.status # "unstarted"
    <3>1. /\ UNCHANGED <<row, windows, tree, registry, lost>> /\ spawn.pc = "ledger"
          /\ spawn'.pc = "undo_window" /\ spawn'.taken = spawn.taken
      BY <1>1, <1>6, <2>2 DEF SpawnLedger, world
    <3>. QED  BY <1>1, <1>2, <3>1
  <2>. QED  BY <2>1, <2>2
<1>7. ASSUME SpawnRegister PROVE Good
  BY <1>1, <1>2, <1>7 DEF SpawnRegister
<1>8. ASSUME SpawnLaunch PROVE Good
  BY <1>1, <1>2, <1>8 DEF SpawnLaunch, world, NoSpawn
<1>9. ASSUME UndoWindow PROVE Good
  BY <1>1, <1>2, <1>9 DEF UndoWindow, KillNamed
<1>10. ASSUME UndoWorktree PROVE Good
  BY <1>1, <1>2, <1>10 DEF UndoWorktree, NoSpawn
<1>11. ASSUME UndoLedger PROVE Good
  BY <1>1, <1>2, <1>11 DEF UndoLedger, NoSpawn, Entries
<1>12. Good
  BY <1>3, <1>4, <1>5, <1>6, <1>7, <1>8, <1>9, <1>10, <1>11 DEF Spawn
<1>13. PICK S \in SUBSET Marks : Round(S)
  BY DEF SweptInv
<1>. HIDE DEF SpawnInv, Accounted, Swept
<1>. QED  BY <1>2, <1>12, <1>13, RoundEnds, RoundGoesOn DEF SweptInv

LEMMA NextSwept == TypeOK /\ SweptInv /\ [Next]_vars => SweptInv'
<1>. SUFFICES ASSUME TypeOK, SweptInv, [Next]_vars PROVE SweptInv'
  OBVIOUS
<1>1. PICK S \in SUBSET Marks : Round(S)
  BY DEF SweptInv
<1>2. ASSUME Tick \/ UNCHANGED vars PROVE SweptInv'
  <2>1. UNCHANGED <<row, call, windows, tree, registry, spawn, lost>>
    BY <1>2 DEF Tick, vars, world, spawning, history
  <2>2. (SpawnInv /\ Accounted)'
    BY <2>1 DEF SweptInv, SpawnInv, Accounted, WindowOfSpawn, TreeOfSpawn
  <2>3. \A h \in Handlers : Swept(h) => Swept(h)'
    BY <2>1 DEF Swept, WindowOfSpawn, TreeOfSpawn
  <2>. QED  BY <1>1, <2>1, <2>2, <2>3, RoundGoesOn DEF SweptInv
<1>3. ASSUME Crash PROVE SweptInv'
  <2>1. /\ UNCHANGED row /\ UNCHANGED windows /\ UNCHANGED tree /\ registry' = FALSE
        /\ spawn' = NoSpawn /\ lost' = (lost \/ spawn # NoSpawn)
        /\ \A h \in Handlers : ~Busy(h)'
    BY <1>3 DEF Crash, Busy, Idle
  <2>2. (SpawnInv /\ Accounted)'
    BY <2>1 DEF SweptInv, SpawnInv, Accounted, WindowOfSpawn, TreeOfSpawn, NoSpawn
  <2>3. Round(S)'
    BY <1>1, <2>1 DEF Round
  <2>. QED  BY <2>2, <2>3 DEF SweptInv
<1>. QED  BY <1>2, <1>3, MarkSwept, WorkSwept, WriterSwept, SpawnSwept DEF Next, SomeUpdate

-----------------------------------------------------------------------------
(* Theorems *)

\* Every variable keeps its type, and windows are no more than spawns.
THEOREM TypeCorrect == Spec => []TypeOK
<1>1. IInv => TypeOK
  BY DEF IInv
<1>. QED  BY <1>1, Invariance, PTL

\* While a deletion cleans up, the entry is its own.
THEOREM EntryIsOwned == Spec => []OwnsEntry
<1>1. IInv => OwnsEntry
  BY DEF IInv
<1>. QED  BY <1>1, Invariance, PTL

\* If the lease outlasts wait and time-out, no two deletions clean up at a time.
THEOREM CleanersExclude == Spec => []OneCleaner
<1>1. IInv => OneCleaner
  <2>. SUFFICES ASSUME IInv, NEW h \in Handlers, NEW k \in Handlers, Holding(h), Holding(k)
                PROVE  h = k
    BY DEF OneCleaner
  <2>1. call[h].marker = row.marker /\ call[k].marker = row.marker
    BY DEF IInv, OwnsEntry, SameDeleteMarker
  <2>2. Busy(h) /\ Busy(k)
    BY DEF Holding, InCleanup, Busy
  <2>. QED  BY <2>1, <2>2 DEF IInv, Distinct
<1>. QED  BY <1>1, Invariance, PTL

\* When the entry is gone and nobody is at work, no worker is left behind.
THEOREM NothingLeftBehind == Spec => []GoneMeansGone
<1>1. SweptInv => GoneMeansGone
  BY DEF SweptInv, SpawnInv, Accounted, WindowOfSpawn, TreeOfSpawn, GoneMeansGone, Quiet, NoSpawn,
     Absent
<1>2. Spec => []SweptInv
  BY InitSwept, NextSwept, TypeCorrect, PTL DEF Spec
<1>. QED  BY <1>1, <1>2, PTL

\* No step but the creation of a task fills an entry that is gone.
THEOREM DeletedStaysDeleted == Spec => StaysDeleted
<1>1. [Next]_vars => [row = Absent /\ row' # Absent => row' = Unstarted]_vars
  <2>. SUFFICES ASSUME Next, row = Absent, row' # Absent PROVE row' = Unstarted
    OBVIOUS
  <2>1. row.status = "absent"
    BY DEF Absent
  <2>2. ~ \E h \in Handlers : DeleteAtOnce(h) \/ Mark(h) \/ Work(h)
    BY <2>1 DEF DeleteAtOnce, Mark, Work, BeginCleanup, CleanupKill, CleanupRemove,
                CleanupBranch, Command, Restore, Erase, SameDeleteMarker
  <2>3. ~ SomeUpdate
    BY <2>1 DEF SomeUpdate, Update, MayUpdate
  <2>4. ~Spawn
    BY <2>1 DEF Spawn, SpawnBegin, SpawnWorktree, SpawnWindow, SpawnLedger, SpawnRegister,
                SpawnLaunch, UndoWindow, UndoWorktree, UndoLedger
  <2>5. ~Tick /\ ~Crash
    BY DEF Tick, Crash
  <2>. QED  BY <2>2, <2>3, <2>4, <2>5 DEF Next, Create, SomeUpdate
<1>. QED  BY <1>1, PTL DEF Spec, StaysDeleted
=============================================================================
