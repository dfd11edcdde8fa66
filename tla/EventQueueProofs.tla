-------------------------- MODULE EventQueueProofs --------------------------
(***************************************************************************)
(* Theorems about EventQueue for any number of callers, any buffer and any *)
(* number of canceled contexts.                                            *)
(*                                                                         *)
(* Run announces itself to all before it waits, and then there is room:    *)
(* no caller waits while Run does.  So the one Signal of a caller that     *)
(* appends an event can only go to Run, though callers and Run wait on one *)
(* condition.                                                              *)
(***************************************************************************)
EXTENDS EventQueue, SequenceTheorems, FiniteSetTheorems, TLAPS

Places == {"new", "waiting", "woken", "returned", "stopped", "process", "parent", "rollback"}

\* waiting counts Run, which is the only one it can count.
PlacesInv ==
  /\ \A p \in Callers : pc[p] \in {"new", "waiting", "woken", "returned"}
  /\ pc[Run] # "returned"
  /\ waiting = IF pc[Run] \in {"waiting", "woken"} THEN 1 ELSE 0

AloneInv == pc[Run] = "waiting" => \A p \in Callers : pc[p] # "waiting"

Waking == PlacesInv /\ AloneInv /\ RunIsAwake /\ HandToHand

\* Run has taken an event and is not done with it.
Processing == pc[Run] \in {"process", "parent", "rollback"}

Queued(p) == \E i \in 1..Len(events) : events[i] = p

\* An event is queued, processed, or in Run's hands, once and in one place.
OnceInv ==
  /\ \A i, j \in 1..Len(events) : events[i] = events[j] => i = j
  /\ \A p \in Callers : Queued(p) => pc[p] = "returned" /\ p \notin processed
  /\ \A p \in processed : pc[p] = "returned"
  /\ Processing => /\ current \in Callers /\ pc[current] = "returned"
                   /\ current \notin processed /\ ~Queued(current)

Splitting == pc[Run] \in {"parent", "rollback"}

\* The children that belong to a split: Run may still take those it has just added back.
Settled == (IF Splitting THEN children \ {current} ELSE children) \ abandoned

ChildrenInv ==
  /\ abandoned \subseteq processed
  /\ Splitting => current \in children
  /\ Settled \subseteq processed
  /\ Settled = {} <=> status # "split"
  /\ \A p, q \in Settled : p = q

IInv == TypeOK /\ Waking /\ OnceInv /\ ChildrenInv

-----------------------------------------------------------------------------
(* The condition variable *)

\* f is pc once the goroutine that calls has moved; some of those that wait are woken.
SomeWake(f) ==
  /\ pc' \in [Threads -> Places]
  /\ \A t \in Threads : pc'[t] = f[t] \/ (f[t] = "waiting" /\ pc'[t] = "woken")

LEMMA SignalWakes ==
  ASSUME NEW f \in [Threads -> Places], Signal(f)
  PROVE  /\ SomeWake(f)
         /\ \A t \in Threads : f[t] = "waiting" /\ (\A u \in Threads \ {t} : f[u] # "waiting")
                                 => pc'[t] = "woken"
  BY DEF Signal, SomeWake, Waiters, Woken, Places

LEMMA BroadcastWakes ==
  ASSUME NEW f \in [Threads -> Places], Broadcast(f)
  PROVE  SomeWake(f) /\ \A t \in Threads : pc'[t] # "waiting"
  BY DEF Broadcast, SomeWake, Waiters, Woken, Places

-----------------------------------------------------------------------------
(* Sequences of events *)

LEMMA Appended ==
  ASSUME NEW q \in Seq(Callers), NEW p \in Callers
  PROVE  /\ Append(q, p) \in Seq(Callers) /\ Len(Append(q, p)) = Len(q) + 1 /\ Len(q) \in Nat
         /\ Append(q, p) # <<>>
         /\ \A i \in 1..Len(q) : Append(q, p)[i] = q[i]
         /\ Append(q, p)[Len(q) + 1] = p
  BY AppendProperties, LenProperties

LEMMA Taken ==
  ASSUME NEW q \in Seq(Callers), q # <<>>
  PROVE  /\ Tail(q) \in Seq(Callers) /\ Len(Tail(q)) = Len(q) - 1 /\ Len(q) \in Nat \ {0}
         /\ Head(q) = q[1] /\ Head(q) \in Callers
         /\ \A i \in 1..(Len(q) - 1) : Tail(q)[i] = q[i + 1]
  BY HeadTailProperties, LenProperties, EmptySeq

-----------------------------------------------------------------------------
\* The initial states satisfy the invariant.
LEMMA InitIInv == Init => IInv
<1>. SUFFICES ASSUME Init PROVE IInv
  OBVIOUS
<1>. USE CallersAssumption, BuffersAssumption
<1>1. events = <<>> /\ Len(events) = 0 /\ events \in Seq(Callers)
  BY EmptySeq DEF Init
<1>2. TypeOK
  <2>1. buffer \in Nat /\ Len(events) <= buffer
    BY <1>1 DEF Init
  <2>2. pc \in [Threads -> Places]
    BY DEF Init, Places
  <2>. QED  BY <1>1, <2>1, <2>2 DEF Init, TypeOK, Threads, Places
<1>3. Waking
  BY DEF Init, Waking, PlacesInv, AloneInv, RunIsAwake, HandToHand, Threads
<1>4. OnceInv
  BY <1>1 DEF Init, OnceInv, Queued, Processing, Threads
<1>5. ChildrenInv
  BY DEF Init, ChildrenInv, Settled, Splitting, Threads
<1>. QED  BY <1>2, <1>3, <1>4, <1>5 DEF IInv

\* A step that leaves the events where they are.
LEMMA OnceStays ==
  ASSUME IInv, UNCHANGED <<events, processed, current>>, Processing' => Processing,
         \A p \in Callers : pc[p] = "returned" => pc'[p] = "returned"
  PROVE  OnceInv'
  BY DEF IInv, TypeOK, OnceInv, Queued

\* A step that leaves the ledger alone, while Run has no children to take back.
LEMMA ChildrenStay ==
  ASSUME IInv, UNCHANGED <<processed, ledger>>, ~Splitting, ~Splitting'
  PROVE  ChildrenInv'
  BY DEF IInv, ChildrenInv, Settled, ledger

\* Goroutines that wait are woken, and nothing else changes but who was told why.
LEMMA WakingStays ==
  ASSUME IInv, SomeWake(pc), UNCHANGED <<queue, waiting, current, processed, ledger>>
  PROVE  Waking' /\ OnceInv' /\ ChildrenInv'
<1>1. \A t \in Threads : pc'[t] = pc[t] \/ (pc[t] = "waiting" /\ pc'[t] = "woken")
  BY DEF SomeWake
<1>2. Run \in Threads /\ Callers \subseteq Threads
  BY DEF Threads
<1>3. Waking'
  BY <1>1, <1>2 DEF IInv, Waking, PlacesInv, AloneInv, RunIsAwake, HandToHand, queue
<1>4. OnceInv'
  BY <1>1, <1>2, OnceStays DEF Processing, queue
<1>5. ChildrenInv'
  BY <1>1, <1>2 DEF IInv, ChildrenInv, Settled, Splitting, ledger
<1>. QED  BY <1>3, <1>4, <1>5

LEMMA EnqueueKeeps ==
  ASSUME IInv, NEW p \in Callers, Enqueue(p)
  PROVE  IInv'
<1>. USE CallersAssumption, BuffersAssumption DEF queue, ledger
<1>1. /\ p \in Threads /\ Run \in Threads /\ p # Run /\ pc \in [Threads -> Places]
      /\ pc[p] \in {"new", "woken"} /\ Callers \subseteq Threads /\ Threads = Callers \cup {Run}
      /\ UNCHANGED <<buffer, closed, waiting, canceled, watched, current, processed, ledger>>
      /\ events \in Seq(Callers) /\ buffer \in Nat /\ Len(events) \in Nat
  BY LenProperties DEF Enqueue, Entering, Threads, IInv, TypeOK, Places
<1>2. ASSUME NEW l \in {"returned", "waiting"}, NEW f, f = [pc EXCEPT ![p] = l], SomeWake(f)
      PROVE  /\ pc' \in [Threads -> Places]
             /\ pc'[p] \in {l, "woken"} /\ (l = "returned" => pc'[p] = "returned")
             /\ \A t \in Threads \ {p} : pc'[t] = pc[t] \/ (pc[t] = "waiting" /\ pc'[t] = "woken")
             /\ (Processing' <=> Processing) /\ (Splitting' <=> Splitting)
             /\ ChildrenInv' /\ PlacesInv'
  <2>1. pc' \in [Threads -> Places] /\ pc'[p] \in {l, "woken"} /\ (l = "returned" => pc'[p] = "returned")
    BY <1>1, <1>2 DEF SomeWake
  <2>2. \A t \in Threads \ {p} : pc'[t] = pc[t] \/ (pc[t] = "waiting" /\ pc'[t] = "woken")
    BY <1>1, <1>2 DEF SomeWake
  <2>3. pc'[Run] = pc[Run] \/ (pc[Run] = "waiting" /\ pc'[Run] = "woken")
    BY <1>1, <2>2
  <2>4. (Processing' <=> Processing) /\ (Splitting' <=> Splitting)
    BY <2>3 DEF Processing, Splitting
  <2>5. ChildrenInv'
    BY <1>1, <2>4 DEF IInv, ChildrenInv, Settled
  <2>6. PlacesInv'
    BY <1>1, <2>1, <2>2, <2>3 DEF IInv, Waking, PlacesInv
  <2>. QED  BY <2>1, <2>2, <2>4, <2>5, <2>6
<1>3. CASE /\ closed \/ p \in canceled
           /\ result' = [result EXCEPT ![p] = IF closed THEN "closed" ELSE "canceled"]
           /\ pc' = [pc EXCEPT ![p] = "returned"] /\ events' = events
  <2>1. SomeWake([pc EXCEPT ![p] = "returned"])
    BY <1>1, <1>3 DEF SomeWake, Places
  <2>2. /\ pc' \in [Threads -> Places] /\ ChildrenInv' /\ PlacesInv' /\ pc'[p] = "returned"
        /\ \A t \in Threads \ {p} : pc'[t] = pc[t]
        /\ (Processing' <=> Processing)
    BY <1>1, <1>2, <1>3, <2>1
  <2>3. TypeOK'
    BY <1>1, <1>3, <2>2 DEF IInv, TypeOK, Places
  <2>4. AloneInv' /\ RunIsAwake' /\ HandToHand'
    BY <1>1, <1>3, <2>2 DEF IInv, Waking, AloneInv, RunIsAwake, HandToHand
  <2>5. OnceInv'
    BY <1>1, <1>3, <2>2, OnceStays
  <2>. QED  BY <2>2, <2>3, <2>4, <2>5 DEF IInv, Waking
<1>4. CASE /\ ~closed /\ p \notin canceled /\ CanAccept
           /\ events' = Append(events, p)
           /\ result' = [result EXCEPT ![p] = "ok"]
           /\ SignalAccepted([pc EXCEPT ![p] = "returned"])
  <2>. DEFINE f == [pc EXCEPT ![p] = "returned"]
  <2>1. f \in [Threads -> Places] /\ f[p] = "returned" /\ \A t \in Threads \ {p} : f[t] = pc[t]
    BY <1>1 DEF Places
  <2>2. Signal(f)
    BY <1>4 DEF SignalAccepted
  <2>3. SomeWake(f)
        /\ (f[Run] = "waiting" /\ (\A u \in Threads \ {Run} : f[u] # "waiting") => pc'[Run] = "woken")
    <3>. HIDE DEF f
    <3>1. f \in [Threads -> Places]
      BY <2>1
    <3>2. /\ SomeWake(f)
          /\ \A t \in Threads : f[t] = "waiting" /\ (\A u \in Threads \ {t} : f[u] # "waiting")
                                 => pc'[t] = "woken"
      BY <2>2, <3>1, SignalWakes
    <3>. QED  BY <1>1, <3>2
  <2>4. /\ pc' \in [Threads -> Places] /\ ChildrenInv' /\ PlacesInv' /\ pc'[p] = "returned"
        /\ \A t \in Threads \ {p} : pc'[t] = pc[t] \/ (pc[t] = "waiting" /\ pc'[t] = "woken")
        /\ (Processing' <=> Processing)
    BY <1>1, <1>2, <2>3
  <2>5. pc[Run] = "waiting" => pc'[Run] = "woken"
    BY <1>1, <2>1, <2>3 DEF IInv, Waking, AloneInv
  <2>. HIDE DEF f
  <2>6. pc'[Run] # "waiting"
    BY <1>1, <2>4, <2>5
  <2>7. AloneInv' /\ RunIsAwake'
    BY <2>6 DEF AloneInv, RunIsAwake
  <2>8. HandToHand'
    <3>1. CASE buffer = 0
      <4>1. pc[Run] \in {"waiting", "woken"}
        BY <1>4, <3>1 DEF CanAccept, IInv, Waking, PlacesInv
      <4>. QED  BY <1>1, <2>4, <2>5, <4>1 DEF HandToHand
    <3>. QED  BY <1>1, <3>1 DEF HandToHand
  <2>9. /\ events' \in Seq(Callers) /\ Len(events') = Len(events) + 1
        /\ \A i \in 1..Len(events) : events'[i] = events[i]
        /\ events'[Len(events) + 1] = p
    BY <1>1, <1>4, Appended
  <2>10. Len(events') <= buffer \/ (buffer = 0 /\ Len(events') = 1)
    <3>1. CASE buffer = 0
      <4>1. Len(events) = 0
        BY <1>4, <3>1, EmptySeq DEF CanAccept
      <4>. QED  BY <2>9, <3>1, <4>1
    <3>2. CASE buffer # 0
      <4>1. Len(events) < buffer
        BY <1>4, <3>2 DEF CanAccept
      <4>. QED  BY <1>1, <2>9, <4>1
    <3>. QED  BY <3>1, <3>2
  <2>11. TypeOK'
    <3>1. result' \in [Callers -> {"none", "ok", "closed", "canceled"}]
      BY <1>4 DEF IInv, TypeOK
    <3>. QED  BY <1>1, <2>4, <2>9, <2>10, <3>1 DEF IInv, TypeOK, Places
  <2>12. ~Queued(p) /\ p \notin processed /\ (Processing => current # p)
    BY <1>1 DEF IInv, OnceInv
  <2>13. \A q \in Callers : Queued(q)' => Queued(q) \/ q = p
    BY <1>1, <2>9 DEF Queued
  <2>14. \A i, j \in 1..Len(events') : events'[i] = events'[j] => i = j
    BY <1>1, <2>9, <2>12 DEF IInv, OnceInv, Queued
  <2>15. \A q \in Callers : pc[q] = "returned" => pc'[q] = "returned"
    BY <1>1, <2>4
  <2>16. OnceInv'
    BY <1>1, <2>4, <2>12, <2>13, <2>14, <2>15 DEF IInv, TypeOK, OnceInv
  <2>. QED  BY <2>4, <2>7, <2>8, <2>11, <2>16 DEF IInv, Waking
<1>5. CASE /\ ~closed /\ p \notin canceled /\ ~CanAccept
           /\ pc' = [pc EXCEPT ![p] = "waiting"] /\ UNCHANGED <<events, result>>
  <2>1. SomeWake([pc EXCEPT ![p] = "waiting"])
    BY <1>1, <1>5 DEF SomeWake, Places
  <2>2. /\ pc' \in [Threads -> Places] /\ ChildrenInv' /\ PlacesInv'
        /\ \A t \in Threads \ {p} : pc'[t] = pc[t]
        /\ (Processing' <=> Processing)
    BY <1>1, <1>2, <1>5, <2>1
  <2>3. TypeOK'
    BY <1>1, <1>5, <2>2 DEF IInv, TypeOK, Places
  <2>4. pc[Run] # "waiting"
    <3>1. SUFFICES ASSUME pc[Run] = "waiting" PROVE CanAccept
      BY <1>5
    <3>2. waiting = 1 /\ events = <<>> /\ Len(events) = 0
      BY <3>1, EmptySeq DEF IInv, Waking, PlacesInv, RunIsAwake
    <3>. QED  BY <1>1, <3>2 DEF CanAccept
  <2>5. AloneInv' /\ RunIsAwake' /\ HandToHand'
    BY <1>1, <1>5, <2>2, <2>4 DEF IInv, Waking, AloneInv, RunIsAwake, HandToHand
  <2>6. OnceInv'
    BY <1>1, <1>5, <2>2, OnceStays
  <2>. QED  BY <2>2, <2>3, <2>5, <2>6 DEF IInv, Waking
<1>. QED  BY <1>3, <1>4, <1>5 DEF Enqueue

LEMMA TakeKeeps ==
  ASSUME IInv, NEW t \in Threads, Take(t)
  PROVE  IInv'
<1>. USE CallersAssumption, BuffersAssumption DEF queue, ledger
<1>. DEFINE still == IF pc[t] = "woken" THEN waiting - 1 ELSE waiting
<1>1. /\ t = Run /\ Run \in Threads /\ pc \in [Threads -> Places] /\ pc[Run] \in {"new", "woken"}
      /\ Callers \subseteq Threads /\ Threads = Callers \cup {Run} /\ Run \notin Callers
      /\ UNCHANGED <<buffer, closed, result, canceled, watched, processed, ledger>>
      /\ events \in Seq(Callers) /\ buffer \in Nat /\ ~Processing /\ ~Splitting
  BY DEF Take, Entering, Threads, IInv, TypeOK, Places, Processing, Splitting
<1>2. still = 0
  BY <1>1 DEF IInv, Waking, PlacesInv
<1>. HIDE DEF still
<1>3. CASE pc' = [pc EXCEPT ![t] = "stopped"] /\ waiting' = still /\ UNCHANGED <<events, current>>
  <2>1. /\ pc' \in [Threads -> Places] /\ pc'[Run] = "stopped"
        /\ \A p \in Callers : pc'[p] = pc[p]
    BY <1>1, <1>3 DEF Places
  <2>2. TypeOK'
    BY <1>1, <1>2, <1>3, <2>1 DEF IInv, TypeOK, Places
  <2>3. Waking'
    BY <1>1, <1>2, <1>3, <2>1 DEF IInv, Waking, PlacesInv, AloneInv, RunIsAwake, HandToHand
  <2>4. OnceInv' /\ ChildrenInv'
    BY <1>1, <1>3, <2>1, OnceStays, ChildrenStay DEF Processing, Splitting
  <2>. QED  BY <2>2, <2>3, <2>4 DEF IInv
<1>4. CASE /\ ~Exhausted /\ events = <<>> /\ waiting' = still + 1 /\ Announce(t)
           /\ UNCHANGED <<events, current>>
  <2>1. /\ pc' \in [Threads -> Places] /\ pc'[Run] = "waiting"
        /\ \A p \in Callers : pc'[p] = IF pc[p] = "waiting" THEN "woken" ELSE pc[p]
    BY <1>1, <1>4 DEF Announce, Woken, Waiters, Places
  <2>2. TypeOK'
    BY <1>1, <1>2, <1>4, <2>1 DEF IInv, TypeOK, Places
  <2>3. PlacesInv'
    BY <1>1, <1>2, <1>4, <2>1 DEF IInv, Waking, PlacesInv
  <2>4. AloneInv' /\ RunIsAwake' /\ HandToHand'
    BY <1>1, <1>4, <2>1 DEF AloneInv, RunIsAwake, HandToHand, Exhausted
  <2>5. OnceInv' /\ ChildrenInv'
    BY <1>1, <1>4, <2>1, OnceStays, ChildrenStay DEF Processing, Splitting
  <2>. QED  BY <2>2, <2>3, <2>4, <2>5 DEF IInv, Waking
<1>5. CASE /\ events # <<>> /\ waiting' = still
           /\ current' = Head(events) /\ events' = Tail(events)
           /\ Signal([pc EXCEPT ![t] = "process"])
  <2>. DEFINE f == [pc EXCEPT ![t] = "process"]
  <2>1. f \in [Threads -> Places] /\ f[Run] = "process" /\ \A p \in Callers : f[p] = pc[p]
    BY <1>1 DEF Places
  <2>. HIDE DEF f
  <2>2. SomeWake(f)
    <3>1. Signal(f)
      BY <1>5 DEF f
    <3>. QED  BY <2>1, <3>1, SignalWakes
  <2>3. /\ pc' \in [Threads -> Places] /\ pc'[Run] = "process"
        /\ \A p \in Callers : pc'[p] = pc[p] \/ (pc[p] = "waiting" /\ pc'[p] = "woken")
    BY <1>1, <2>1, <2>2 DEF SomeWake
  <2>4. /\ events' \in Seq(Callers) /\ Len(events') = Len(events) - 1 /\ Len(events) \in Nat \ {0}
        /\ current' = events[1] /\ current' \in Callers
        /\ \A i \in 1..(Len(events) - 1) : events'[i] = events[i + 1]
    BY <1>1, <1>5, Taken
  <2>5. TypeOK'
    BY <1>1, <1>2, <1>5, <2>3, <2>4 DEF IInv, TypeOK, Places
  <2>6. PlacesInv' /\ AloneInv' /\ RunIsAwake'
    BY <1>1, <1>2, <1>5, <2>3 DEF IInv, Waking, PlacesInv, AloneInv, RunIsAwake
  <2>7. HandToHand'
    <3>1. ASSUME buffer = 0 PROVE events' = <<>>
      <4>1. Len(events') = 0
        BY <2>4, <3>1 DEF IInv, TypeOK
      <4>. QED  BY <2>4, <4>1, EmptySeq
    <3>. QED  BY <1>1, <3>1 DEF HandToHand
  <2>8. Queued(current') /\ \A p \in Callers : Queued(p)' => Queued(p) /\ p # current'
    <3>1. Queued(current')
      BY <2>4 DEF Queued
    <3>2. ASSUME NEW p \in Callers, NEW i \in 1..Len(events'), events'[i] = p
          PROVE  Queued(p) /\ p # current'
      <4>1. i + 1 \in 1..Len(events) /\ 1 \in 1..Len(events) /\ events[i + 1] = p /\ i + 1 # 1
        BY <2>4, <3>2
      <4>. QED  BY <2>4, <4>1 DEF Queued, IInv, OnceInv
    <3>. QED  BY <3>1, <3>2 DEF Queued
  <2>9. \A i, j \in 1..Len(events') : events'[i] = events'[j] => i = j
    <3>1. ASSUME NEW i \in 1..Len(events'), NEW j \in 1..Len(events'), events'[i] = events'[j]
          PROVE  i = j
      <4>1. i + 1 \in 1..Len(events) /\ j + 1 \in 1..Len(events) /\ events[i + 1] = events[j + 1]
        BY <2>4, <3>1
      <4>2. i + 1 = j + 1
        BY <4>1 DEF IInv, OnceInv
      <4>. QED  BY <2>4, <4>2
    <3>. QED  BY <3>1
  <2>10. \A p \in Callers : pc[p] = "returned" => pc'[p] = "returned"
    BY <2>3
  <2>11. OnceInv'
    <3>1. pc[current'] = "returned" /\ current' \notin processed
      BY <2>4, <2>8 DEF IInv, OnceInv
    <3>3. \A i \in 1..Len(events') : events'[i] # current'
      BY <2>4, <2>8 DEF Queued
    <3>4. \A p \in Callers : (\E i \in 1..Len(events') : events'[i] = p)
                           => pc[p] = "returned" /\ p \notin processed
      BY <2>8 DEF IInv, OnceInv, Queued
    <3>2. processed \subseteq Callers
      BY DEF IInv, TypeOK
    <3>. QED  BY <1>1, <2>4, <2>9, <2>10, <3>1, <3>2, <3>3, <3>4 DEF IInv, OnceInv, Queued
  <2>12. ChildrenInv'
    BY <1>1, <2>3, ChildrenStay DEF Splitting
  <2>. QED  BY <2>5, <2>6, <2>7, <2>11, <2>12 DEF IInv, Waking
<1>. QED  BY <1>3, <1>4, <1>5 DEF Take, still

\* Only the fields of the task change, and only under the eyes of Process.
LEMMA ProcessKeeps ==
  ASSUME IInv, Process
  PROVE  IInv'
<1>. USE CallersAssumption DEF queue, ledger
<1>1. /\ Run \in Threads /\ pc \in [Threads -> Places] /\ Processing
      /\ Callers \subseteq Threads /\ Run \notin Callers
      /\ UNCHANGED <<buffer, events, closed, waiting, result, canceled, watched, current>>
      /\ current \in Callers /\ current \notin processed /\ processed \subseteq Callers
      /\ pc[current] = "returned" /\ ~Queued(current)
  BY DEF Process, ProcessSingle, AddChildren, SplitParent, DeleteChildren, Processing, Threads,
     IInv, TypeOK, OnceInv, Places
<1>2. \/ Finish
      \/ processed' = processed /\ \E l \in {"parent", "rollback"} : pc' = [pc EXCEPT ![Run] = l]
  BY DEF Process, ProcessSingle, AddChildren, SplitParent, DeleteChildren
<1>3. /\ pc' \in [Threads -> Places] /\ \A p \in Callers : pc'[p] = pc[p]
      /\ \/ pc'[Run] = "new" /\ processed' = processed \cup {current}
         \/ pc'[Run] \in {"parent", "rollback"} /\ processed' = processed
  BY <1>1, <1>2 DEF Finish, Places
<1>4. Waking'
  BY <1>1, <1>3 DEF IInv, Waking, PlacesInv, AloneInv, RunIsAwake, HandToHand, Processing
<1>5. OnceInv'
  BY <1>1, <1>3 DEF IInv, OnceInv, Queued, Processing
<1>6. /\ children' \subseteq Callers /\ abandoned' \subseteq Callers /\ owner' \in {"worker", "none"}
      /\ status' \in {"unstarted", "in_progress", "blocked", "completed", "split"}
      /\ processed' \subseteq Callers
  BY <1>1, <1>3 DEF Process, ProcessSingle, AddChildren, SplitParent, DeleteChildren,
     TakeChildrenBack, Settle, IInv, TypeOK
<1>7. TypeOK'
  BY <1>1, <1>3, <1>6 DEF IInv, TypeOK, Places
<1>8. ChildrenInv'
  <2>0. current \notin abandoned /\ abandoned \subseteq processed /\ processed \subseteq processed'
    BY <1>1, <1>3 DEF IInv, ChildrenInv
  <2>1. CASE ProcessSingle
    <3>1. /\ UNCHANGED <<children, abandoned>> /\ ~Splitting /\ ~Splitting'
          /\ (status = "split" <=> status' = "split")
      BY <1>1, <1>3, <2>1 DEF ProcessSingle, Splitting, Applies, Settle, Finish
    <3>. QED  BY <2>0, <3>1 DEF IInv, ChildrenInv, Settled
  <2>2. CASE AddChildren
    <3>1. ~Splitting /\ UNCHANGED <<status, owner, abandoned>> /\ Settled \subseteq processed
      BY <1>1, <2>2 DEF AddChildren, Splitting, IInv, ChildrenInv
    <3>2. CASE Finish /\ children' = children
      <4>1. ~Splitting'
        BY <1>1, <3>2 DEF Finish, Splitting
      <4>. QED  BY <2>0, <3>1, <3>2, <4>1 DEF IInv, ChildrenInv, Settled
    <3>3. CASE /\ children' = children \cup {current} /\ processed' = processed
               /\ pc' = [pc EXCEPT ![Run] = "parent"]
      <4>1. current \notin children
        BY <1>1, <2>0, <3>1 DEF Settled
      <4>2. Splitting' /\ Settled' = Settled
        BY <1>1, <3>1, <3>3, <4>1 DEF Splitting, Settled
      <4>. QED  BY <1>1, <2>0, <3>1, <3>3, <4>2 DEF IInv, ChildrenInv
    <3>. QED  BY <2>2, <3>2, <3>3 DEF AddChildren
  <2>3. CASE SplitParent
    <3>1. Splitting /\ UNCHANGED <<children, abandoned>> /\ current \in children
      BY <2>3 DEF SplitParent, Splitting, IInv, ChildrenInv
    <3>2. CASE Applies /\ Settle("split") /\ Finish
      <4>1. Settled = {} /\ children \ abandoned = {current}
        BY <2>0, <3>1, <3>2 DEF Applies, IInv, ChildrenInv, Settled
      <4>2. ~Splitting' /\ Settled' = {current} /\ status' = "split" /\ current \in processed'
        BY <1>1, <3>1, <3>2, <4>1 DEF Finish, Splitting, Settled, Settle
      <4>. QED  BY <2>0, <3>1, <4>2 DEF ChildrenInv
    <3>3. CASE pc' = [pc EXCEPT ![Run] = "rollback"] /\ UNCHANGED <<status, owner, processed>>
      <4>1. Splitting' /\ Settled' = Settled
        BY <1>1, <3>1, <3>3 DEF Splitting, Settled
      <4>. QED  BY <1>1, <3>1, <3>3, <4>1 DEF IInv, ChildrenInv
    <3>. QED  BY <2>3, <3>2, <3>3 DEF SplitParent
  <2>4. CASE DeleteChildren
    <3>1. ~Splitting' /\ Splitting /\ UNCHANGED <<status, owner>> /\ processed' = processed \cup {current}
      BY <1>1, <2>4 DEF DeleteChildren, Finish, Splitting
    <3>2. \/ children' = children \ {current} /\ abandoned' = abandoned
          \/ children' = children /\ abandoned' = abandoned \cup {current}
      BY <2>4 DEF DeleteChildren, TakeChildrenBack
    <3>3. Settled' = Settled /\ abandoned' \subseteq processed'
      BY <2>0, <3>1, <3>2 DEF Settled
    <3>. QED  BY <2>0, <3>1, <3>3 DEF IInv, ChildrenInv
  <2>. QED  BY <2>1, <2>2, <2>3, <2>4 DEF Process
<1>. QED  BY <1>4, <1>5, <1>7, <1>8 DEF IInv

\* Every step preserves the invariant.
LEMMA NextIInv == IInv /\ [Next]_vars => IInv'
<1>. SUFFICES ASSUME IInv, [Next]_vars PROVE IInv'
  OBVIOUS
<1>. USE DEF queue, ledger
<1>0. pc \in [Threads -> Places]
  BY DEF IInv, TypeOK, Places
<1>1. ASSUME NEW p \in Callers, Enqueue(p) PROVE IInv'
  BY <1>1, EnqueueKeeps
<1>2. ASSUME NEW t \in Threads, Take(t) PROVE IInv'
  BY <1>2, TakeKeeps
<1>3. ASSUME NEW t \in Threads, Cancel(t) PROVE IInv'
  <2>1. SomeWake(pc)
    BY <1>0, <1>3 DEF Cancel, SomeWake
  <2>2. TypeOK'
    BY <1>3 DEF Cancel, IInv, TypeOK
  <2>. QED  BY <1>3, <2>1, <2>2, WakingStays DEF Cancel, IInv
<1>4. ASSUME NEW t \in Threads, Watch(t) PROVE IInv'
  <2>1. SomeWake(pc)
    <3>1. CASE WakeAll(pc)
      BY <1>0, <3>1, BroadcastWakes DEF WakeAll
    <3>2. CASE pc' = pc
      BY <1>0, <3>2 DEF SomeWake
    <3>. QED  BY <1>4, <3>1, <3>2 DEF Watch
  <2>2. TypeOK'
    BY <1>4, <2>1 DEF Watch, IInv, TypeOK, SomeWake, Places
  <2>. QED  BY <1>4, <2>1, <2>2, WakingStays DEF Watch, IInv
<1>5. CASE CloseQueue
  <2>1. SomeWake(pc) /\ \A t \in Threads : pc'[t] # "waiting"
    BY <1>0, <1>5, BroadcastWakes DEF CloseQueue, WakeEverybody
  <2>2. \A t \in Threads : pc'[t] = pc[t] \/ (pc[t] = "waiting" /\ pc'[t] = "woken")
    BY <2>1 DEF SomeWake
  <2>3. Run \in Threads /\ Callers \subseteq Threads
    BY DEF Threads
  <2>4. TypeOK'
    BY <1>5, <2>1 DEF CloseQueue, IInv, TypeOK, SomeWake, Places
  <2>5. PlacesInv' /\ AloneInv' /\ RunIsAwake' /\ HandToHand'
    BY <1>5, <2>1, <2>2, <2>3 DEF CloseQueue, IInv, Waking, PlacesInv, AloneInv, RunIsAwake, HandToHand
  <2>6. OnceInv'
    BY <1>5, <2>2, <2>3, OnceStays DEF CloseQueue, Processing
  <2>7. ChildrenInv'
    BY <1>5, <2>2, <2>3 DEF CloseQueue, IInv, ChildrenInv, Settled, Splitting
  <2>. QED  BY <2>4, <2>5, <2>6, <2>7 DEF IInv, Waking
<1>6. CASE Process
  BY <1>6, ProcessKeeps
<1>7. CASE Reassign
  <2>1. /\ UNCHANGED <<queue, waiting, pc, result, canceled, watched, current, processed, children,
                       abandoned>>
        /\ (status = "split" <=> status' = "split")
        /\ status' \in {"unstarted", "in_progress"} /\ owner' \in {"worker", "none"}
    BY <1>7 DEF Reassign, Applies
  <2>2. TypeOK'
    BY <2>1 DEF IInv, TypeOK
  <2>3. Waking' /\ OnceInv'
    BY <2>1, OnceStays DEF IInv, Waking, PlacesInv, AloneInv, RunIsAwake, HandToHand, Processing
  <2>4. ChildrenInv'
    BY <2>1 DEF IInv, ChildrenInv, Settled, Splitting
  <2>. QED  BY <2>2, <2>3, <2>4 DEF IInv
<1>8. CASE UNCHANGED vars
  BY <1>8 DEF vars, IInv, TypeOK, Waking, PlacesInv, AloneInv, RunIsAwake, HandToHand, OnceInv, Queued,
     Processing, ChildrenInv, Settled, Splitting
<1>. QED  BY <1>1, <1>2, <1>3, <1>4, <1>5, <1>6, <1>7, <1>8 DEF Next

-----------------------------------------------------------------------------
LEMMA Invariance == Spec => []IInv
  BY InitIInv, NextIInv, PTL DEF Spec

\* Types hold in every reachable state, and the queue holds no more than its buffer.
THEOREM TypeCorrect == Spec => []TypeOK
<1>1. IInv => TypeOK
  BY DEF IInv
<1>. QED  BY <1>1, Invariance, PTL

\* Run never sleeps on a queue that has events or is closed.
THEOREM NoLostWakeup == Spec => []RunIsAwake
<1>1. IInv => RunIsAwake
  BY DEF IInv, Waking
<1>. QED  BY <1>1, Invariance, PTL

\* Without a buffer an event is accepted only while Run waits for one.
THEOREM Rendezvous == Spec => []HandToHand
<1>1. IInv => HandToHand
  BY DEF IInv, Waking
<1>. QED  BY <1>1, Invariance, PTL

\* Between two events the ledger has the children of one request if the task is split, else
\* none, besides those that could not be taken back.
THEOREM SplitsAreWhole == Spec => []SplitIsWhole
<1>1. IInv => SplitIsWhole
  <2>. SUFFICES ASSUME IInv, pc[Run] \in {"new", "waiting", "woken", "stopped"}
                PROVE  Cardinality(children \ abandoned) = IF status = "split" THEN 1 ELSE 0
    BY DEF SplitIsWhole
  <2>1. Settled = children \ abandoned
    BY DEF Settled, Splitting
  <2>2. CASE status = "split"
    <3>1. PICK c \in children \ abandoned : TRUE
      BY <2>1, <2>2 DEF IInv, ChildrenInv
    <3>2. children \ abandoned = {c}
      BY <2>1, <3>1 DEF IInv, ChildrenInv
    <3>. QED  BY <2>2, <3>2, FS_Singleton
  <2>3. CASE status # "split"
    <3>1. children \ abandoned = {}
      BY <2>1, <2>3 DEF IInv, ChildrenInv
    <3>. QED  BY <2>3, <3>1, FS_EmptySet
  <2>. QED  BY <2>2, <2>3
<1>. QED  BY <1>1, Invariance, PTL
=============================================================================
