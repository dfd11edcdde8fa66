----------------------- MODULE TerminalControllerProofs -----------------------
(***************************************************************************)
(* Proofs about TerminalController: for every set of views, sockets and    *)
(* bounds there is one live connection, made with the present options, the *)
(* phase tells what is going on, and a controller that is to try again has *)
(* something pending that makes it.                                        *)
(***************************************************************************)
EXTENDS TerminalController, TLAPS

-----------------------------------------------------------------------------
(* The inductive invariant. *)

\* A handle is set exactly while its callback is due, and both belong to the present.
TimersInv ==
  /\ retryTimers = IF retryTimer = NoTimer THEN {} ELSE {retryTimer}
  /\ retryTimer # NoTimer => retryTimer = generation /\ phase = "retrying"
  /\ stableTimers = IF stableTimer = NoSocket THEN {} ELSE {stableTimer}
  /\ stableTimer # NoSocket => stableTimer = socket /\ phase = "open"

\* The current socket is of this generation, and no other one is live.
SocketInv ==
  /\ socket # NoSocket =>
       /\ started /\ HasTarget(opts) /\ phase \in {"connecting", "open"}
       /\ sockets[socket].attached /\ sockets[socket].ready # "closed"
       /\ sockets[socket].gen = generation /\ sockets[socket].view = opts
  /\ \A n \in Slots : Live(n) => n = socket

\* A probe of this generation is the current one, and was not aborted.
ProbeInv ==
  /\ \A n \in Slots :
       /\ probes[n].gen <= generation
       /\ probes[n].on # "none" /\ probes[n].gen = generation => n = probe /\ InFlight(n)
  /\ probe # NoSocket =>
       /\ InFlight(probe) /\ probes[probe].gen = generation
       /\ socket = NoSocket /\ phase = "connecting"

IInv == TypeOK /\ TimersInv /\ SocketInv /\ ProbeInv /\ PhaseTellsTruth

USE SlotsAssumption, ViewsAssumption, BoundsAssumption

LEMMA InitIInv == Init => IInv
<1> SUFFICES ASSUME Init PROVE IInv
  OBVIOUS
<1>1. TypeOK
  <2>1. Closed \in SocketRecords
    BY DEF Closed, SocketRecords
  <2>2. Settled \in [gen : 0..MaxGeneration, on : {"none", "running", "timedOut", "aborted"}]
    BY DEF Settled
  <2>4. sockets \in [Slots -> SocketRecords]
    BY <2>1 DEF Init
  <2>5. probes \in [Slots -> [gen : 0..MaxGeneration, on : {"none", "running", "timedOut", "aborted"}]]
    BY <2>2 DEF Init
  <2>6. /\ view \in Views /\ opts \in Views /\ cb \in Views \cup {NoView}
        /\ started \in BOOLEAN /\ listening \in BOOLEAN /\ phase \in Phases
        /\ lastSize \in SizeRecords \cup {NoSize}
    BY DEF Init, Phases
  <2>7. /\ generation \in 0..MaxGeneration /\ retryAttempt \in 0..MaxRetry
        /\ socket \in Slots \cup {NoSocket} /\ probe \in Slots \cup {NoSocket}
        /\ retryTimer \in 0..MaxGeneration \cup {NoTimer} /\ retryTimers \in SUBSET (0..MaxGeneration)
        /\ stableTimer \in Slots \cup {NoSocket} /\ stableTimers \in SUBSET Slots
    BY DEF Init
  <2> QED BY <2>4, <2>5, <2>6, <2>7 DEF TypeOK
<1>2. TimersInv /\ SocketInv /\ ProbeInv /\ PhaseTellsTruth
  BY DEF Init, TimersInv, SocketInv, ProbeInv, PhaseTellsTruth, Closed, Settled, Live, InFlight,
         ProbesNow, Idle
<1> QED BY <1>1, <1>2 DEF IInv

\* The sockets and the probes once the current ones are given up.
LEMMA GivenUp ==
  ASSUME IInv
  PROVE  /\ CloseSocket \in [Slots -> SocketRecords]
         /\ \A n \in Slots : CloseSocket[n].ready \notin {"connecting", "open"}
         /\ AbortedProbes \in
              [Slots -> [gen : 0..MaxGeneration, on : {"none", "running", "timedOut", "aborted"}]]
         /\ \A n \in Slots : AbortedProbes[n].gen = probes[n].gen
<1>1. CloseSocket \in [Slots -> SocketRecords]
  <2>1. CASE socket \in Slots
    <3>1. sockets[socket] \in SocketRecords
      BY <2>1 DEF IInv, TypeOK
    <3>2. [sockets[socket] EXCEPT !.attached = FALSE, !.ready = "closing"] \in SocketRecords
      BY <3>1 DEF SocketRecords
    <3> QED BY <2>1, <3>2 DEF IInv, TypeOK, CloseSocket
  <2> QED BY <2>1 DEF IInv, TypeOK, CloseSocket
<1>2. \A n \in Slots : CloseSocket[n].ready \notin {"connecting", "open"}
  BY DEF IInv, TypeOK, SocketInv, CloseSocket, SocketRecords, Live
<1>3. AbortedProbes \in
        [Slots -> [gen : 0..MaxGeneration, on : {"none", "running", "timedOut", "aborted"}]]
  BY DEF IInv, TypeOK, AbortedProbes
<1>4. \A n \in Slots : AbortedProbes[n].gen = probes[n].gen
  BY DEF IInv, TypeOK, AbortedProbes
<1> QED BY <1>1, <1>2, <1>3, <1>4

\* A record of one socket is replaced.
LEMMA SocketChange ==
  ASSUME IInv, NEW n \in Slots, NEW r \in SocketRecords, sockets' = [sockets EXCEPT ![n] = r]
  PROVE  /\ sockets' \in [Slots -> SocketRecords] /\ sockets'[n] = r
         /\ \A m \in Slots : m # n => sockets'[m] = sockets[m]
BY DEF IInv, TypeOK

\* What closing a socket changes, and what it leaves alone.
LEMMA SocketFields ==
  ASSUME IInv, NEW n \in Slots, NEW r, r = [sockets[n] EXCEPT !.ready = "closing"]
  PROVE  /\ r \in SocketRecords /\ r.ready = "closing" /\ r.gen = sockets[n].gen
         /\ r.view = sockets[n].view /\ r.attached = sockets[n].attached
<1>1. sockets[n] \in SocketRecords
  BY DEF IInv, TypeOK
<1> QED BY <1>1 DEF SocketRecords

\* Setting the retry timer keeps the type of what it sets.
LEMMA ScheduleType ==
  ASSUME IInv, NEW g \in 0..MaxGeneration, NEW c \in 0..MaxRetry, ScheduleRetry(g, c)
  PROVE  /\ phase' = "retrying" /\ retryAttempt' \in 0..MaxRetry
         /\ retryTimer' = g /\ retryTimers' = {g}
<1>1. retryAttempt' \in 0..MaxRetry
  BY DEF ScheduleRetry, Least
<1>2. retryTimers' = {g}
  BY DEF ScheduleRetry, IInv, TimersInv
<1> QED BY <1>1, <1>2 DEF ScheduleRetry

\* A new generation starts anew: with a fresh socket, a retry, or nothing.
LEMMA RenewIInv ==
  ASSUME IInv, NEW v \in Views, Renew(v), UNCHANGED started,
         view' \in Views, cb' \in Views \cup {NoView}, listening' \in BOOLEAN,
         lastSize' \in SizeRecords \cup {NoSize}
  PROVE  IInv'
<1> DEFINE g == generation + 1
<1>g. g \in 0..MaxGeneration /\ generation' = g /\ opts' = v
  BY DEF Renew, IInv, TypeOK
<1>s. stableTimer' = NoSocket /\ stableTimers' = {}
  BY DEF Renew, ClearStableTimer, IInv, TimersInv
<1>p. probe' = NoSocket /\ probes' = AbortedProbes
  BY DEF Renew, ClearProbe
<1>pi. \A n \in Slots : probes'[n].gen <= generation' /\ probes'[n].gen # generation'
  BY <1>g, <1>p, GivenUp DEF IInv, ProbeInv, TypeOK
<1>1. CASE started /\ HasTarget(v)
  <2>1. CASE ScheduleRetry(g, 0) /\ socket' = NoSocket /\ sockets' = CloseSocket
    <3>t. /\ phase' = "retrying" /\ retryAttempt' \in 0..MaxRetry
          /\ retryTimer' = g /\ retryTimers' = {g}
      BY <1>g, <2>1, ScheduleType
    <3>1. TypeOK'
      BY <1>g, <1>s, <1>p, <2>1, <3>t, GivenUp DEF TypeOK, IInv, Phases
    <3>2. TimersInv' /\ SocketInv' /\ ProbeInv'
      BY <1>g, <1>s, <1>p, <1>pi, <2>1, <3>t, GivenUp
      DEF TimersInv, SocketInv, ProbeInv, Live, InFlight, NoTimer, IInv, TypeOK
    <3>3. PhaseTellsTruth'
      BY <1>1, <1>g, <1>p, <2>1, <3>t DEF PhaseTellsTruth, ProbesNow, Idle, HasTarget
    <3> QED BY <3>1, <3>2, <3>3 DEF IInv
  <2>2. ASSUME SetPhase("connecting"), ClearRetryTimer, retryAttempt' = 0,
               NEW n \in Slots, Free(n), socket' = n,
               sockets' = [CloseSocket EXCEPT ![n] =
                 [gen |-> g, view |-> v, ready |-> "connecting", attached |-> TRUE, size |-> NoSize]]
        PROVE  IInv'
    <3>t. phase' = "connecting" /\ retryTimer' = NoTimer /\ retryTimers' = {}
      BY <2>2 DEF SetPhase, ClearRetryTimer, IInv, TimersInv
    <3>s. /\ sockets' \in [Slots -> SocketRecords]
          /\ \A m \in Slots : sockets'[m].ready \in {"connecting", "open"} => m = n
          /\ sockets'[n] =
               [gen |-> g, view |-> v, ready |-> "connecting", attached |-> TRUE, size |-> NoSize]
      BY <1>g, <2>2, GivenUp DEF SocketRecords
    <3>1. TypeOK'
      BY <1>g, <1>s, <1>p, <2>2, <3>t, <3>s, GivenUp DEF TypeOK, IInv, Phases
    <3>a. TimersInv'
      BY <1>s, <3>t DEF TimersInv
    <3>b. SocketInv'
      BY <1>1, <1>g, <2>2, <3>t, <3>s DEF SocketInv, Live, HasTarget
    <3>c. ProbeInv'
      BY <1>p, <1>pi DEF ProbeInv
    <3>2. TimersInv' /\ SocketInv' /\ ProbeInv'
      BY <3>a, <3>b, <3>c
    <3>3. PhaseTellsTruth'
      BY <1>1, <1>g, <1>p, <2>2, <3>t, <3>s DEF PhaseTellsTruth, ProbesNow, Idle, HasTarget
    <3> QED BY <3>1, <3>2, <3>3 DEF IInv
  <2> QED BY <1>1, <2>1, <2>2 DEF Renew, Connect
<1>2. CASE ~(started /\ HasTarget(v))
  <2>t. /\ phase' = "idle" /\ retryTimer' = NoTimer /\ retryTimers' = {}
        /\ retryAttempt' = 0 /\ socket' = NoSocket /\ sockets' = CloseSocket
    BY <1>2 DEF Renew, SetPhase, ClearRetryTimer, IInv, TimersInv
  <2>1. TypeOK'
    BY <1>g, <1>s, <1>p, <2>t, GivenUp DEF TypeOK, IInv, Phases
  <2>2. TimersInv' /\ SocketInv' /\ ProbeInv'
    BY <1>g, <1>s, <1>p, <1>pi, <2>t, GivenUp
    DEF TimersInv, SocketInv, ProbeInv, Live, InFlight, NoTimer, IInv, TypeOK
  <2>3. PhaseTellsTruth'
    BY <1>2, <1>g, <1>p, <2>t DEF PhaseTellsTruth, ProbesNow, Idle, HasTarget
  <2> QED BY <2>1, <2>2, <2>3 DEF IInv
<1> QED BY <1>1, <1>2

-----------------------------------------------------------------------------
(* What the component does keeps the invariant. *)

LEMMA RenderIInv == ASSUME IInv, NEW v \in Views, Render(v) PROVE IInv'
<1>1. TypeOK'
  BY DEF IInv, TypeOK, Render, timers
<1>2. TimersInv' /\ SocketInv' /\ ProbeInv' /\ PhaseTellsTruth'
  BY DEF IInv, TimersInv, SocketInv, ProbeInv, PhaseTellsTruth, Render, timers, Live, InFlight,
         ProbesNow, Idle
<1> QED BY <1>1, <1>2 DEF IInv

\* A size is kept or forgotten.
LEMMA KeptSize ==
  ASSUME IInv, NEW v \in Views, KeepSize(v)
  PROVE  lastSize' \in SizeRecords \cup {NoSize}
BY DEF IInv, TypeOK, KeepSize

LEMMA EffectsIInv == ASSUME IInv, Effects PROVE IInv'
<1>1. CASE view = opts
  <2>1. UNCHANGED <<view, opts, started, generation, phase, retryAttempt, socket, sockets,
                    timers, probe, probes, lastSize, listening>> /\ cb' = view
    BY <1>1 DEF Effects, UpdateOptions, SameOptions
  <2>2. TypeOK'
    BY <2>1 DEF IInv, TypeOK, timers
  <2>3. TimersInv' /\ SocketInv' /\ ProbeInv' /\ PhaseTellsTruth'
    BY <2>1 DEF IInv, TimersInv, SocketInv, ProbeInv, PhaseTellsTruth, timers, Live, InFlight,
                ProbesNow, Idle
  <2> QED BY <2>2, <2>3 DEF IInv
<1>2. CASE view # opts
  <2>1. view \in Views /\ Renew(view) /\ KeepSize(view)
    BY <1>2 DEF Effects, UpdateOptions, SameOptions, IInv, TypeOK
  <2>2. lastSize' \in SizeRecords \cup {NoSize}
    BY <2>1, KeptSize
  <2>3. /\ UNCHANGED started /\ view' \in Views /\ cb' \in Views \cup {NoView}
        /\ listening' \in BOOLEAN
    BY <1>2 DEF Effects, UpdateOptions, SameOptions, IInv, TypeOK
  <2> QED BY <2>1, <2>2, <2>3, RenewIInv
<1> QED BY <1>1, <1>2

LEMMA ConfigureIInv == ASSUME IInv, NEW v \in Views, Configure(v) PROVE IInv'
<1>1. Renew(v) /\ KeepSize(v)
  BY DEF Configure
<1>2. lastSize' \in SizeRecords \cup {NoSize}
  BY <1>1, KeptSize
<1>3. /\ UNCHANGED started /\ view' \in Views /\ cb' \in Views \cup {NoView}
      /\ listening' \in BOOLEAN
  BY DEF Configure, IInv, TypeOK
<1> QED BY <1>1, <1>2, <1>3, RenewIInv

LEMMA RetryIInv == ASSUME IInv, Retry PROVE IInv'
<1>1. Renew(opts) /\ opts \in Views
  BY DEF Retry, IInv, TypeOK
<1>2. /\ UNCHANGED started /\ view' \in Views /\ cb' \in Views \cup {NoView}
      /\ listening' \in BOOLEAN /\ lastSize' \in SizeRecords \cup {NoSize}
  BY DEF Retry, IInv, TypeOK
<1> QED BY <1>1, <1>2, RenewIInv

\* Connecting in the present generation, where there is no socket and nothing is pending.
LEMMA ConnectIInv ==
  ASSUME IInv, socket = NoSocket, ~ProbesNow, stableTimer = NoSocket, HasTarget(opts),
         Connect(generation, opts, sockets, retryAttempt), started',
         UNCHANGED <<view, opts, generation, stableTimer, stableTimers, probe, probes, lastSize>>,
         cb' \in Views \cup {NoView}, listening' \in BOOLEAN
  PROVE  IInv'
<1>a. probe = NoSocket /\ \A n \in Slots : ~Live(n)
  BY DEF IInv, ProbeInv, SocketInv, ProbesNow
<1>1. CASE ScheduleRetry(generation, retryAttempt) /\ socket' = NoSocket /\ sockets' = sockets
  <2>t. /\ phase' = "retrying" /\ retryAttempt' \in 0..MaxRetry
        /\ retryTimer' = generation /\ retryTimers' = {generation}
    BY <1>1, ScheduleType DEF IInv, TypeOK
  <2>1. TypeOK'
    BY <1>1, <2>t DEF TypeOK, IInv, Phases
  <2>2. TimersInv' /\ SocketInv'
    BY <1>1, <1>a, <2>t DEF TimersInv, SocketInv, Live, NoTimer, IInv, TypeOK
  <2>3. ProbeInv'
    BY <1>1, <1>a, <2>t DEF ProbeInv, InFlight, IInv
  <2>4. PhaseTellsTruth'
    BY <1>1, <1>a, <2>t DEF PhaseTellsTruth, ProbesNow, Idle, HasTarget
  <2> QED BY <2>1, <2>2, <2>3, <2>4 DEF IInv
<1>2. ASSUME SetPhase("connecting"), ClearRetryTimer, retryAttempt' = retryAttempt,
             NEW n \in Slots, Free(n), socket' = n,
             sockets' = [sockets EXCEPT ![n] = [gen |-> generation, view |-> opts,
               ready |-> "connecting", attached |-> TRUE, size |-> NoSize]]
      PROVE  IInv'
  <2>t. phase' = "connecting" /\ retryTimer' = NoTimer /\ retryTimers' = {}
    BY <1>2 DEF SetPhase, ClearRetryTimer, IInv, TimersInv
  <2>s. /\ sockets' \in [Slots -> SocketRecords]
        /\ \A m \in Slots : sockets'[m].ready \in {"connecting", "open"} => m = n
        /\ sockets'[n] = [gen |-> generation, view |-> opts, ready |-> "connecting",
                          attached |-> TRUE, size |-> NoSize]
    BY <1>2, <1>a DEF SocketRecords, IInv, TypeOK, Live
  <2>1. TypeOK'
    BY <1>2, <2>t, <2>s DEF TypeOK, IInv, Phases
  <2>2. TimersInv'
    BY <2>t, <1>2 DEF TimersInv, IInv
  <2>3. SocketInv'
    BY <1>2, <2>t, <2>s DEF SocketInv, Live, HasTarget
  <2>4. ProbeInv'
    BY <1>a DEF ProbeInv, InFlight, IInv
  <2>5. PhaseTellsTruth'
    BY <1>2, <2>t, <2>s DEF PhaseTellsTruth, ProbesNow, Idle, HasTarget
  <2> QED BY <2>1, <2>2, <2>3, <2>4, <2>5 DEF IInv
<1> QED BY <1>1, <1>2 DEF Connect

LEMMA MountIInv == ASSUME IInv, Mount PROVE IInv'
<1>0. /\ ~started /\ started' /\ cb' = view /\ listening' = TRUE /\ view \in Views
      /\ UNCHANGED <<view, opts, generation, stableTimer, stableTimers, probe, probes, lastSize>>
  BY DEF Mount, Start, IInv, TypeOK
<1>a. /\ socket = NoSocket /\ stableTimer = NoSocket /\ ~ProbesNow /\ phase = "idle"
      /\ retryTimers = {} /\ probe = NoSocket
  BY <1>0 DEF IInv, SocketInv, TimersInv, PhaseTellsTruth, Idle, ProbeInv, ProbesNow
<1>1. CASE HasTarget(opts)
  BY <1>0, <1>1, <1>a, ConnectIInv DEF Mount, Start
<1>2. CASE ~HasTarget(opts)
  <2>1. phase' = "idle" /\ UNCHANGED <<retryAttempt, socket, sockets, retryTimer, retryTimers>>
    BY <1>2 DEF Mount, Start, SetPhase
  <2>2. TypeOK'
    <3>1. /\ phase' \in Phases /\ started' \in BOOLEAN /\ cb' \in Views \cup {NoView}
      BY <1>0, <2>1 DEF Phases
    <3> QED BY <1>0, <2>1, <3>1 DEF IInv, TypeOK
  <2>3. TimersInv' /\ SocketInv'
    BY <1>0, <1>a, <2>1 DEF IInv, TimersInv, SocketInv, Live
  <2>4. ProbeInv' /\ PhaseTellsTruth'
    BY <1>0, <1>2, <1>a, <2>1 DEF IInv, ProbeInv, PhaseTellsTruth, InFlight, ProbesNow, Idle, HasTarget
  <2> QED BY <2>2, <2>3, <2>4 DEF IInv
<1> QED BY <1>1, <1>2

LEMMA UnmountIInv == ASSUME IInv, Unmount PROVE IInv'
<1>1. CASE ~started /\ socket = NoSocket /\ retryTimer = NoTimer
  <2>1. UNCHANGED <<view, opts, started, generation, phase, retryAttempt, socket, sockets,
                    timers, probe, probes, lastSize, listening>> /\ cb' = NoView
    BY <1>1 DEF Unmount
  <2>2. TypeOK'
    BY <2>1 DEF IInv, TypeOK, timers
  <2>3. TimersInv' /\ SocketInv' /\ ProbeInv' /\ PhaseTellsTruth'
    BY <2>1 DEF IInv, TimersInv, SocketInv, ProbeInv, PhaseTellsTruth, timers, Live, InFlight,
                ProbesNow, Idle
  <2> QED BY <2>2, <2>3 DEF IInv
<1>2. CASE ~(~started /\ socket = NoSocket /\ retryTimer = NoTimer)
  <2>t. /\ generation' = generation + 1 /\ generation' \in 0..MaxGeneration
        /\ cb' = NoView /\ started' = FALSE /\ listening' = FALSE
        /\ phase' = "idle" /\ retryTimer' = NoTimer /\ retryTimers' = {}
        /\ stableTimer' = NoSocket /\ stableTimers' = {} /\ probe' = NoSocket
        /\ probes' = AbortedProbes /\ socket' = NoSocket /\ sockets' = CloseSocket
        /\ UNCHANGED <<view, opts, lastSize, retryAttempt>>
    BY <1>2 DEF Unmount, SetPhase, ClearRetryTimer, ClearStableTimer, ClearProbe, IInv, TypeOK, TimersInv
  <2>p. \A n \in Slots : probes'[n].gen <= generation' /\ probes'[n].gen # generation'
    BY <2>t, GivenUp DEF IInv, ProbeInv, TypeOK
  <2>1. TypeOK'
    <3>1. /\ phase' \in Phases
      BY <2>t DEF Phases
    <3>2. /\ probes' \in [Slots -> [gen : 0..MaxGeneration, on : {"none", "running", "timedOut", "aborted"}]]
          /\ sockets' \in [Slots -> SocketRecords]
      BY <2>t, GivenUp
    <3>3. /\ view' \in Views /\ opts' \in Views /\ cb' \in Views \cup {NoView}
          /\ retryAttempt' \in 0..MaxRetry /\ lastSize' \in SizeRecords \cup {NoSize}
      BY <2>t DEF TypeOK, IInv
    <3>5. started' \in BOOLEAN /\ listening' \in BOOLEAN
      BY <2>t
    <3>4. /\ generation' \in 0..MaxGeneration /\ socket' \in Slots \cup {NoSocket}
          /\ retryTimer' \in 0..MaxGeneration \cup {NoTimer}
          /\ retryTimers' \in SUBSET (0..MaxGeneration)
          /\ stableTimer' \in Slots \cup {NoSocket} /\ stableTimers' \in SUBSET Slots
          /\ probe' \in Slots \cup {NoSocket}
      BY <2>t
    <3> QED BY <3>1, <3>2, <3>3, <3>4, <3>5 DEF TypeOK
  <2>2. TimersInv' /\ SocketInv'
    BY <2>t, GivenUp DEF TimersInv, SocketInv, Live
  <2>3. ProbeInv'
    BY <2>t, <2>p DEF ProbeInv
  <2>4. PhaseTellsTruth'
    BY <2>t DEF PhaseTellsTruth, ProbesNow, Idle, HasTarget
  <2> QED BY <2>1, <2>2, <2>3, <2>4 DEF IInv
<1> QED BY <1>1, <1>2

LEMMA ResizeIInv ==
  ASSUME IInv, NEW g \in 0..generation, NEW v \in Views, NEW size \in Sizes,
         Resize(g, v.terminal, size)
  PROVE  IInv'
<1>1. /\ lastSize' \in SizeRecords
      /\ UNCHANGED <<view, cb, opts, started, generation, phase, retryAttempt, socket,
                     timers, probe, probes, listening>>
  BY DEF Resize, SizeRecords
<1>2. \/ sockets' = sockets
      \/ socket \in Slots /\ sockets[socket].ready = "open"
         /\ \/ sockets' = [sockets EXCEPT ![socket].size = lastSize']
            \/ sockets' = [sockets EXCEPT ![socket].ready = "closing"]
  BY DEF Resize, Sends, IInv, TypeOK
<1>3. /\ sockets' \in [Slots -> SocketRecords]
      /\ \A n \in Slots : Live(n)' => n = socket
      /\ socket # NoSocket =>
           /\ sockets'[socket].attached = sockets[socket].attached
           /\ sockets'[socket].gen = sockets[socket].gen
           /\ sockets'[socket].view = sockets[socket].view
           /\ \/ sockets'[socket].ready = sockets[socket].ready
              \/ sockets[socket].ready = "open" /\ sockets'[socket].ready = "closing"
  <2>1. CASE sockets' = sockets
    BY <1>1, <2>1 DEF IInv, TypeOK, SocketInv, Live
  <2>2. CASE /\ socket \in Slots /\ sockets[socket].ready = "open"
             /\ sockets' = [sockets EXCEPT ![socket].size = lastSize']
    <3> DEFINE r == [sockets[socket] EXCEPT !.size = lastSize']
    <3>1. sockets' = [sockets EXCEPT ![socket] = r]
      BY <2>2
    <3>2. /\ r \in SocketRecords /\ r.attached = sockets[socket].attached
          /\ r.gen = sockets[socket].gen /\ r.view = sockets[socket].view
          /\ r.ready \in {"open", "closing"}
      <4>1. sockets[socket] \in SocketRecords
        BY <2>2 DEF IInv, TypeOK
      <4> QED BY <1>1, <2>2, <4>1 DEF SocketRecords
    <3>3. /\ sockets' \in [Slots -> SocketRecords] /\ sockets'[socket] = r
          /\ \A m \in Slots : m # socket => sockets'[m] = sockets[m]
      BY <2>2, <3>1, <3>2, SocketChange
    <3> HIDE DEF r
    <3> QED BY <1>1, <2>2, <3>2, <3>3 DEF IInv, SocketInv, Live
  <2>3. CASE /\ socket \in Slots /\ sockets[socket].ready = "open"
             /\ sockets' = [sockets EXCEPT ![socket].ready = "closing"]
    <3> DEFINE r == [sockets[socket] EXCEPT !.ready = "closing"]
    <3>1. sockets' = [sockets EXCEPT ![socket] = r]
      BY <2>3
    <3>2. /\ r \in SocketRecords /\ r.attached = sockets[socket].attached
          /\ r.gen = sockets[socket].gen /\ r.view = sockets[socket].view
          /\ r.ready \in {"open", "closing"}
      BY <1>1, <2>3, SocketFields
    <3>3. /\ sockets' \in [Slots -> SocketRecords] /\ sockets'[socket] = r
          /\ \A m \in Slots : m # socket => sockets'[m] = sockets[m]
      BY <2>3, <3>1, <3>2, SocketChange
    <3> HIDE DEF r
    <3> QED BY <1>1, <2>3, <3>2, <3>3 DEF IInv, SocketInv, Live
  <2> QED BY <1>2, <2>1, <2>2, <2>3
<1>4. TypeOK'
  BY <1>1, <1>3 DEF IInv, TypeOK, timers
<1>5. TimersInv' /\ SocketInv' /\ ProbeInv'
  BY <1>1, <1>3 DEF IInv, TimersInv, SocketInv, ProbeInv, timers, InFlight
<1>6. PhaseTellsTruth'
  BY <1>1, <1>3 DEF IInv, PhaseTellsTruth, timers, InFlight, ProbesNow, Idle, HasTarget
<1> QED BY <1>4, <1>5, <1>6 DEF IInv

-----------------------------------------------------------------------------
(* What happens to sockets keeps it. *)

LEMMA SocketOpensIInv == ASSUME IInv, NEW n \in Slots, SocketOpens(n) PROVE IInv'
<1>1. /\ socket = n /\ started /\ sockets[n].ready = "connecting" /\ sockets[n].attached
      /\ phase' = "open" /\ stableTimer' = n /\ stableTimers' = {n}
      /\ UNCHANGED <<view, cb, opts, started, generation, retryAttempt, socket, retryTimer,
                     retryTimers, probe, probes, lastSize, listening>>
  BY DEF SocketOpens, SetPhase, IsCurrentSocket, IsCurrentGeneration, IInv, TimersInv
<1>2. \/ sockets' = [sockets EXCEPT ![n] = [@ EXCEPT !.ready = "open", !.size = lastSize]]
      \/ sockets' = [sockets EXCEPT ![n].ready = "closing"]
  BY DEF SocketOpens, ReplayResize
<1>3. /\ sockets' \in [Slots -> SocketRecords]
      /\ \A m \in Slots : Live(m)' => m = n
      /\ sockets'[n].attached /\ sockets'[n].ready \in {"open", "closing"}
      /\ sockets'[n].gen = sockets[n].gen /\ sockets'[n].view = sockets[n].view
  <2>1. CASE sockets' = [sockets EXCEPT ![n] = [@ EXCEPT !.ready = "open", !.size = lastSize]]
    <3> DEFINE r == [sockets[n] EXCEPT !.ready = "open", !.size = lastSize]
    <3>1. sockets' = [sockets EXCEPT ![n] = r] /\ lastSize \in SizeRecords \cup {NoSize}
      BY <2>1 DEF IInv, TypeOK
    <3>2. /\ r \in SocketRecords /\ r.attached = sockets[n].attached
          /\ r.gen = sockets[n].gen /\ r.view = sockets[n].view
          /\ r.ready \in {"open", "closing"}
      <4>1. sockets[n] \in SocketRecords
        BY DEF IInv, TypeOK
      <4> QED BY <3>1, <4>1 DEF SocketRecords
    <3>3. /\ sockets' \in [Slots -> SocketRecords] /\ sockets'[n] = r
          /\ \A m \in Slots : m # n => sockets'[m] = sockets[m]
      BY <3>1, <3>2, SocketChange
    <3> HIDE DEF r
    <3> QED BY <1>1, <3>2, <3>3 DEF IInv, SocketInv, Live
  <2>2. CASE sockets' = [sockets EXCEPT ![n].ready = "closing"]
    <3> DEFINE r == [sockets[n] EXCEPT !.ready = "closing"]
    <3>1. sockets' = [sockets EXCEPT ![n] = r] /\ lastSize \in SizeRecords \cup {NoSize}
      BY <2>2 DEF IInv, TypeOK
    <3>2. /\ r \in SocketRecords /\ r.attached = sockets[n].attached
          /\ r.gen = sockets[n].gen /\ r.view = sockets[n].view
          /\ r.ready \in {"open", "closing"}
      BY <3>1, SocketFields
    <3>3. /\ sockets' \in [Slots -> SocketRecords] /\ sockets'[n] = r
          /\ \A m \in Slots : m # n => sockets'[m] = sockets[m]
      BY <3>1, <3>2, SocketChange
    <3> HIDE DEF r
    <3> QED BY <1>1, <3>2, <3>3 DEF IInv, SocketInv, Live
  <2> QED BY <1>2, <2>1, <2>2
<1>4. phase = "connecting" /\ ~ProbesNow /\ probe = NoSocket /\ retryTimer = NoTimer /\ retryTimers = {}
  BY <1>1 DEF IInv, SocketInv, PhaseTellsTruth, ProbeInv, TimersInv, ProbesNow
<1>5. TypeOK'
  BY <1>1, <1>3 DEF IInv, TypeOK, Phases
<1>6. TimersInv' /\ SocketInv'
  BY <1>1, <1>3, <1>4 DEF IInv, TimersInv, SocketInv, HasTarget
<1>7. ProbeInv' /\ PhaseTellsTruth'
  BY <1>1, <1>3, <1>4 DEF IInv, ProbeInv, PhaseTellsTruth, InFlight, ProbesNow, Idle, HasTarget
<1> QED BY <1>5, <1>6, <1>7 DEF IInv

LEMMA SocketErrorsIInv == ASSUME IInv, NEW n \in Slots, SocketErrors(n) PROVE IInv'
<1>1. /\ socket = n /\ sockets' = [sockets EXCEPT ![n].ready = "closing"] /\ Live(n)
      /\ UNCHANGED <<view, cb, opts, started, generation, phase, retryAttempt, socket,
                     timers, probe, probes, lastSize, listening>>
  BY DEF SocketErrors, IsCurrentSocket
<1>2. /\ sockets' \in [Slots -> SocketRecords]
      /\ \A m \in Slots : ~Live(m)'
      /\ sockets'[n].attached = sockets[n].attached /\ sockets'[n].ready = "closing"
      /\ sockets'[n].gen = sockets[n].gen /\ sockets'[n].view = sockets[n].view
  <2> DEFINE r == [sockets[n] EXCEPT !.ready = "closing"]
  <2>1. sockets' = [sockets EXCEPT ![n] = r]
    BY <1>1
  <2>2. /\ r \in SocketRecords /\ r.attached = sockets[n].attached
        /\ r.gen = sockets[n].gen /\ r.view = sockets[n].view /\ r.ready = "closing"
    BY <2>1, SocketFields
  <2>3. /\ sockets' \in [Slots -> SocketRecords] /\ sockets'[n] = r
        /\ \A m \in Slots : m # n => sockets'[m] = sockets[m]
    BY <2>1, <2>2, SocketChange
  <2> HIDE DEF r
  <2> QED BY <1>1, <2>2, <2>3 DEF IInv, SocketInv, Live
<1>3. TypeOK'
  BY <1>1, <1>2 DEF IInv, TypeOK, timers
<1>4. TimersInv' /\ SocketInv' /\ ProbeInv'
  BY <1>1, <1>2 DEF IInv, TimersInv, SocketInv, ProbeInv, timers, InFlight
<1>5. PhaseTellsTruth'
  BY <1>1, <1>2 DEF IInv, PhaseTellsTruth, timers, InFlight, ProbesNow, Idle, HasTarget
<1> QED BY <1>3, <1>4, <1>5 DEF IInv

LEMMA SocketClosesIInv == ASSUME IInv, NEW n \in Slots, SocketCloses(n) PROVE IInv'
<1>1. /\ socket = n /\ started /\ HasTarget(opts) /\ sockets' = [sockets EXCEPT ![n] = Closed]
      /\ socket' = NoSocket /\ stableTimer' = NoSocket /\ stableTimers' = {}
      /\ probe = NoSocket /\ phase \in {"connecting", "open"} /\ generation \in 0..MaxGeneration
      /\ retryTimer = NoTimer /\ retryTimers = {}
      /\ UNCHANGED <<view, cb, opts, started, generation, lastSize, listening>>
  BY DEF SocketCloses, IsCurrentSocket, IsCurrentGeneration, ClearStableTimer, IInv, TypeOK,
         SocketInv, TimersInv, ProbeInv
<1>2. sockets' \in [Slots -> SocketRecords] /\ \A m \in Slots : ~Live(m)'
  BY <1>1 DEF IInv, TypeOK, SocketInv, Live, SocketRecords, Closed
<1>3. CASE phase = "open"
  <2>t. /\ phase' = "retrying" /\ retryAttempt' \in 0..MaxRetry
        /\ retryTimer' = generation /\ retryTimers' = {generation} /\ UNCHANGED <<probe, probes>>
    BY <1>1, <1>3, ScheduleType DEF SocketCloses, IInv, TypeOK
  <2>1. TypeOK'
    BY <1>1, <1>2, <2>t DEF IInv, TypeOK, Phases
  <2>2. TimersInv' /\ SocketInv'
    BY <1>1, <1>2, <2>t DEF TimersInv, SocketInv, NoTimer
  <2>3. ProbeInv'
    BY <1>1, <2>t DEF IInv, ProbeInv, InFlight
  <2>4. PhaseTellsTruth'
    BY <1>1, <2>t DEF PhaseTellsTruth, ProbesNow, Idle, HasTarget
  <2> QED BY <2>1, <2>2, <2>3, <2>4 DEF IInv
<1>4. CASE phase # "open"
  <2>t. /\ probe' = n
        /\ probes' = [AbortedProbes EXCEPT ![n] = [gen |-> generation, on |-> "running"]]
        /\ UNCHANGED <<phase, retryAttempt, retryTimer, retryTimers>>
    BY <1>4 DEF SocketCloses
  <2>p. /\ probes' \in [Slots -> [gen : 0..MaxGeneration, on : {"none", "running", "timedOut", "aborted"}]]
        /\ probes'[n] = [gen |-> generation, on |-> "running"]
        /\ \A m \in Slots : m # n => probes'[m] = probes[m]
    BY <1>1, <2>t, GivenUp DEF AbortedProbes, IInv, TypeOK
  <2>1. TypeOK'
    BY <1>1, <1>2, <2>t, <2>p DEF IInv, TypeOK
  <2>2. TimersInv' /\ SocketInv'
    BY <1>1, <1>2, <2>t DEF TimersInv, SocketInv, NoTimer
  <2>3. ProbeInv'
    BY <1>1, <1>4, <2>t, <2>p DEF IInv, ProbeInv, InFlight, TypeOK
  <2>4. PhaseTellsTruth'
    BY <1>1, <1>4, <2>t, <2>p DEF IInv, PhaseTellsTruth, ProbesNow, Idle, HasTarget, InFlight
  <2> QED BY <2>1, <2>2, <2>3, <2>4 DEF IInv
<1> QED BY <1>3, <1>4

LEMMA OldSocketClosesIInv == ASSUME IInv, NEW n \in Slots, OldSocketCloses(n) PROVE IInv'
<1>1. /\ socket # n /\ sockets' = [sockets EXCEPT ![n] = Closed]
      /\ UNCHANGED <<view, cb, opts, started, generation, phase, retryAttempt, socket,
                     timers, probe, probes, lastSize, listening>>
  BY DEF OldSocketCloses, IsCurrentSocket, IsCurrentGeneration, IInv, SocketInv
<1>2. Closed \in SocketRecords
  BY DEF Closed, SocketRecords
<1>3. /\ sockets' \in [Slots -> SocketRecords]
      /\ \A m \in Slots : Live(m)' => Live(m)
      /\ socket # NoSocket => sockets'[socket] = sockets[socket]
  BY <1>1, <1>2 DEF IInv, TypeOK, Live, Closed
<1>4. TypeOK'
  BY <1>1, <1>3 DEF IInv, TypeOK, timers
<1>5. TimersInv' /\ SocketInv' /\ ProbeInv'
  BY <1>1, <1>3 DEF IInv, TimersInv, SocketInv, ProbeInv, timers, InFlight
<1>6. PhaseTellsTruth'
  BY <1>1, <1>3 DEF IInv, PhaseTellsTruth, timers, InFlight, ProbesNow, Idle, HasTarget
<1> QED BY <1>4, <1>5, <1>6 DEF IInv

-----------------------------------------------------------------------------
(* Timers and probes keep it. *)

LEMMA RetryFiresIInv == ASSUME IInv, NEW g \in 0..generation, RetryFires(g) PROVE IInv'
<1>1. /\ g = generation /\ retryTimer = g /\ retryTimers = {g} /\ phase = "retrying"
      /\ started /\ HasTarget(opts) /\ socket = NoSocket /\ ~ProbesNow /\ stableTimer = NoSocket
  BY DEF RetryFires, IInv, TimersInv, SocketInv, PhaseTellsTruth
<1>2. /\ Connect(generation, opts, sockets, retryAttempt)
      /\ UNCHANGED <<view, cb, opts, started, generation, stableTimer, stableTimers, probe, probes,
                     lastSize, listening>>
  BY <1>1 DEF RetryFires, IsCurrentGeneration
<1>3. cb' \in Views \cup {NoView} /\ listening' \in BOOLEAN
  BY <1>2 DEF IInv, TypeOK
<1> QED BY <1>1, <1>2, <1>3, ConnectIInv

LEMMA StableFiresIInv == ASSUME IInv, NEW n \in Slots, StableFires(n) PROVE IInv'
<1>1. /\ stableTimer = n /\ stableTimers = {n} /\ socket = n /\ IsCurrentSocket(n)
  BY DEF StableFires, IInv, TimersInv, SocketInv, IsCurrentSocket, IsCurrentGeneration
<1>2. /\ retryAttempt' = 0 /\ stableTimer' = NoSocket /\ stableTimers' = {}
      /\ UNCHANGED <<view, cb, opts, started, generation, phase, socket, sockets,
                     retryTimer, retryTimers, probe, probes, lastSize, listening>>
  BY <1>1 DEF StableFires
<1>3. TypeOK'
  BY <1>2 DEF IInv, TypeOK
<1>4. TimersInv' /\ SocketInv' /\ ProbeInv' /\ PhaseTellsTruth'
  BY <1>2 DEF IInv, TimersInv, SocketInv, ProbeInv, PhaseTellsTruth, Live, InFlight, ProbesNow, Idle
<1> QED BY <1>3, <1>4 DEF IInv

LEMMA ProbeTimesOutIInv == ASSUME IInv, NEW n \in Slots, ProbeTimesOut(n) PROVE IInv'
<1>1. /\ probes[n].on = "running" /\ probes' = [probes EXCEPT ![n].on = "timedOut"]
      /\ UNCHANGED <<view, cb, opts, started, generation, phase, retryAttempt, socket,
                     sockets, timers, probe, lastSize, listening>>
  BY DEF ProbeTimesOut
<1>2. /\ probes' \in [Slots -> [gen : 0..MaxGeneration, on : {"none", "running", "timedOut", "aborted"}]]
      /\ probes'[n].gen = probes[n].gen /\ probes'[n].on = "timedOut"
      /\ \A m \in Slots : m # n => probes'[m] = probes[m]
  BY <1>1 DEF IInv, TypeOK
<1>3. TypeOK'
  BY <1>1, <1>2 DEF IInv, TypeOK, timers
<1>4. TimersInv' /\ SocketInv'
  BY <1>1 DEF IInv, TimersInv, SocketInv, timers, Live
<1>5. ProbeInv'
  BY <1>1, <1>2 DEF IInv, ProbeInv, timers, InFlight, TypeOK
<1>6. PhaseTellsTruth'
  BY <1>1, <1>2 DEF IInv, PhaseTellsTruth, timers, InFlight, ProbesNow, Idle, HasTarget, TypeOK
<1> QED BY <1>3, <1>4, <1>5, <1>6 DEF IInv

LEMMA ProbeSettlesIInv ==
  ASSUME IInv, NEW n \in Slots, NEW reply, ProbeSettles(n, reply)
  PROVE  IInv'
<1>1. /\ probes[n].on # "none" /\ probes' = [probes EXCEPT ![n] = Settled]
      /\ probe' = (IF probe = n THEN NoSocket ELSE probe)
      /\ UNCHANGED <<view, cb, opts, started, generation, socket, sockets, stableTimer,
                     stableTimers, lastSize, listening>>
  BY DEF ProbeSettles
<1>2. /\ probes' \in [Slots -> [gen : 0..MaxGeneration, on : {"none", "running", "timedOut", "aborted"}]]
      /\ probes'[n] = [gen |-> 0, on |-> "none"]
      /\ \A m \in Slots : m # n => probes'[m] = probes[m]
  BY <1>1 DEF IInv, TypeOK, Settled
<1>3. CASE Outdated(n, reply)
  <2>1. UNCHANGED <<phase, retryAttempt, retryTimer, retryTimers>>
    BY <1>3 DEF ProbeSettles
  <2>2. probe # n
    BY <1>1, <1>3 DEF Outdated, IInv, ProbeInv, IsCurrentGeneration, InFlight, PhaseTellsTruth
  <2>3. TypeOK'
    BY <1>1, <1>2, <2>1 DEF IInv, TypeOK
  <2>4. TimersInv' /\ SocketInv'
    BY <1>1, <2>1 DEF IInv, TimersInv, SocketInv, Live
  <2>5. ProbeInv'
    BY <1>1, <1>2, <2>1, <2>2 DEF IInv, ProbeInv, InFlight, TypeOK
  <2>6. PhaseTellsTruth'
    BY <1>1, <1>2, <2>1, <2>2 DEF IInv, PhaseTellsTruth, InFlight, ProbesNow, Idle, HasTarget, TypeOK
  <2> QED BY <2>3, <2>4, <2>5, <2>6 DEF IInv
<1>4. CASE ~Outdated(n, reply)
  <2>1. /\ probe = n /\ probe' = NoSocket /\ started /\ HasTarget(opts) /\ socket = NoSocket
        /\ phase = "connecting" /\ retryTimer = NoTimer /\ retryTimers = {}
        /\ stableTimer = NoSocket /\ stableTimers = {} /\ generation \in 0..MaxGeneration
    BY <1>1, <1>4 DEF Outdated, IInv, ProbeInv, IsCurrentGeneration, TimersInv, PhaseTellsTruth, TypeOK
  <2>2. TypeOK' /\ TimersInv' /\ PhaseTellsTruth'
    <3>1. CASE ScheduleRetry(generation, retryAttempt)
      <4>t. /\ phase' = "retrying" /\ retryAttempt' \in 0..MaxRetry
            /\ retryTimer' = generation /\ retryTimers' = {generation}
        BY <2>1, <3>1, ScheduleType DEF IInv, TypeOK
      <4>1. TypeOK'
        BY <1>1, <1>2, <2>1, <4>t DEF IInv, TypeOK, Phases
      <4>2. TimersInv'
        BY <1>1, <2>1, <4>t DEF TimersInv, NoTimer
      <4>3. PhaseTellsTruth'
        BY <1>1, <2>1, <4>t DEF PhaseTellsTruth, ProbesNow, Idle, HasTarget
      <4> QED BY <4>1, <4>2, <4>3
    <3>2. CASE /\ Diagnosis(reply) # "retrying" /\ SetPhase(Diagnosis(reply))
               /\ UNCHANGED <<retryAttempt, retryTimer, retryTimers>>
      <4>1. Diagnosis(reply) \in {"unauthorized", "missing", "failed"}
        BY <3>2 DEF Diagnosis
      <4>2. phase' \in {"unauthorized", "missing", "failed"}
        BY <3>2, <4>1 DEF SetPhase
      <4>4. TypeOK'
        BY <1>1, <1>2, <2>1, <3>2, <4>2 DEF IInv, TypeOK, Phases
      <4>5. TimersInv'
        BY <1>1, <2>1, <3>2, <4>2 DEF TimersInv, NoTimer
      <4>6. PhaseTellsTruth'
        BY <1>1, <2>1, <3>2, <4>2 DEF PhaseTellsTruth, ProbesNow, Idle, HasTarget
      <4> QED BY <4>4, <4>5, <4>6
    <3> QED BY <1>4, <3>1, <3>2 DEF ProbeSettles
  <2>3. SocketInv'
    BY <1>1, <2>1 DEF IInv, SocketInv, Live
  <2>4. ProbeInv'
    BY <1>1, <1>2, <2>1 DEF IInv, ProbeInv, InFlight, TypeOK
  <2> QED BY <2>2, <2>3, <2>4 DEF IInv
<1> QED BY <1>3, <1>4

-----------------------------------------------------------------------------
(* The invariant, and what follows from it. *)

LEMMA StutterIInv == ASSUME IInv, UNCHANGED vars PROVE IInv'
<1>1. TypeOK'
  BY DEF IInv, TypeOK, vars, timers
<1>2. TimersInv' /\ SocketInv' /\ ProbeInv' /\ PhaseTellsTruth'
  BY DEF IInv, TimersInv, SocketInv, ProbeInv, PhaseTellsTruth, vars, timers, Live, InFlight,
         ProbesNow, Idle
<1> QED BY <1>1, <1>2 DEF IInv

LEMMA NextIInv == IInv /\ [Next]_vars => IInv'
<1> SUFFICES ASSUME IInv, [Next]_vars PROVE IInv'
  OBVIOUS
<1>1. CASE Component
  <2>1. ASSUME NEW v \in Views, Render(v) PROVE IInv'
    BY <2>1, RenderIInv
  <2>2. CASE Mount
    BY <2>2, MountIInv
  <2>3. CASE Effects
    BY <2>3, EffectsIInv
  <2>4. CASE Unmount
    BY <2>4, UnmountIInv
  <2>5. CASE Retry \/ Wake
    BY <2>5, RetryIInv DEF Wake
  <2>6. ASSUME NEW v \in Views, Configure(v) PROVE IInv'
    BY <2>6, ConfigureIInv
  <2>7. ASSUME NEW g \in 0..generation, NEW v \in Views, NEW size \in Sizes,
               Resize(g, v.terminal, size)
        PROVE  IInv'
    BY <2>7, ResizeIInv
  <2> QED BY <1>1, <2>1, <2>2, <2>3, <2>4, <2>5, <2>6, <2>7 DEF Component
<1>2. CASE Browser
  <2>1. ASSUME NEW n \in Slots, SocketOpens(n) PROVE IInv'
    BY <2>1, SocketOpensIInv
  <2>2. ASSUME NEW n \in Slots, SocketErrors(n) PROVE IInv'
    BY <2>2, SocketErrorsIInv
  <2>3. ASSUME NEW n \in Slots, SocketCloses(n) PROVE IInv'
    BY <2>3, SocketClosesIInv
  <2>4. ASSUME NEW n \in Slots, OldSocketCloses(n) PROVE IInv'
    BY <2>4, OldSocketClosesIInv
  <2>5. ASSUME NEW n \in Slots, StableFires(n) PROVE IInv'
    BY <2>5, StableFiresIInv
  <2>6. ASSUME NEW n \in Slots, ProbeTimesOut(n) PROVE IInv'
    BY <2>6, ProbeTimesOutIInv
  <2>7. ASSUME NEW n \in Slots, NEW reply \in Statuses, ProbeSettles(n, reply) PROVE IInv'
    BY <2>7, ProbeSettlesIInv
  <2>8. ASSUME NEW g \in 0..generation, RetryFires(g) PROVE IInv'
    BY <2>8, RetryFiresIInv
  <2> QED BY <1>2, <2>1, <2>2, <2>3, <2>4, <2>5, <2>6, <2>7, <2>8 DEF Browser
<1>3. CASE UNCHANGED vars
  BY <1>3, StutterIInv
<1> QED BY <1>1, <1>2, <1>3 DEF Next

LEMMA Inductive == Spec => []IInv
BY InitIInv, NextIInv, PTL DEF Spec

(* Every variable keeps its type, whatever renders, timers, sockets and probes do: the      *)
(* handles name sockets and generations, and a delay is one of the policy's.                *)
THEOREM TypeCorrect == Spec => []TypeOK
<1>1. IInv => TypeOK
  BY DEF IInv
<1> QED BY <1>1, Inductive, PTL

(* At most one connection is live, the current one, made in this generation with the       *)
(* present options of a controller that runs.                                               *)
THEOREM ConnectionIsUnique == Spec => []OneConnection
<1>1. IInv => OneConnection
  BY DEF IInv, TypeOK, SocketInv, OneConnection, Live
<1> QED BY <1>1, Inductive, PTL

(* The phase a user is shown is true, and a phase that promises another attempt has what   *)
(* makes it: a socket, a probe or a timer of this generation.                               *)
THEOREM PhaseIsTrue == Spec => []PhaseTellsTruth
<1>1. IInv => PhaseTellsTruth
  BY DEF IInv
<1> QED BY <1>1, Inductive, PTL

(* Output reaches the terminal and token it was sent for, and input the connection of the  *)
(* terminal and generation it was typed into.                                               *)
THEOREM NothingIsMixedUp == Spec => []OutputReachesItsTerminal
<1>1. ASSUME IInv PROVE OutputReachesItsTerminal
  <2>1. ASSUME NEW n \in Slots, Delivers(n)
        PROVE  sockets[n].view = opts /\ cb.terminal = opts.terminal /\ cb.token = opts.token
    BY <1>1, <2>1 DEF Delivers, MatchesTerminalConnection, IsCurrentSocket, IInv, SocketInv
  <2>2. ASSUME NEW g \in 0..generation, NEW v \in Views, Sends(g, v.terminal)
        PROVE  sockets[socket].view.terminal = v.terminal /\ sockets[socket].gen = g
    BY <1>1, <2>2 DEF Sends, MatchesExpectedTarget, IInv, SocketInv
  <2> QED BY <2>1, <2>2 DEF OutputReachesItsTerminal
<1> QED BY <1>1, Inductive, PTL

-----------------------------------------------------------------------------
(* The size an open connection was told. *)

\* A connection that is open afterwards was open before, and heard the same.
Unopened(ss) == \A n \in Slots : ss[n].ready = "open" =>
                  sockets[n].ready = "open" /\ ss[n].size = sockets[n].size

\* Connecting opens no socket at once.
LEMMA ConnectOpensNone ==
  ASSUME IInv, NEW g, NEW v, NEW a, NEW ss \in [Slots -> SocketRecords], Unopened(ss),
         Connect(g, v, ss, a)
  PROVE  Unopened(sockets')
<1>1. CASE sockets' = ss
  BY <1>1
<1>2. CASE \E n \in Slots :
        sockets' = [ss EXCEPT ![n] = [gen |-> g, view |-> v, ready |-> "connecting",
                                      attached |-> TRUE, size |-> NoSize]]
  <2>1. PICK n \in Slots :
          sockets' = [ss EXCEPT ![n] = [gen |-> g, view |-> v, ready |-> "connecting",
                                        attached |-> TRUE, size |-> NoSize]]
    BY <1>2
  <2>2. sockets'[n].ready = "connecting" /\ \A m \in Slots : m # n => sockets'[m] = ss[m]
    BY <2>1
  <2> QED BY <2>2 DEF Unopened
<1> QED BY <1>1, <1>2 DEF Connect

\* A new generation starts with no open connection.
LEMMA RenewOpensNone == ASSUME IInv, NEW v, Renew(v) PROVE Unopened(sockets')
<1>1. CloseSocket \in [Slots -> SocketRecords] /\ Unopened(CloseSocket)
  BY GivenUp DEF Unopened
<1>2. CASE sockets' = CloseSocket
  BY <1>1, <1>2
<1>3. CASE Connect(generation + 1, v, CloseSocket, 0)
  BY <1>1, <1>3, ConnectOpensNone
<1> QED BY <1>2, <1>3 DEF Renew

\* Where no socket opens and the terminal stays or its size is forgotten, all is in step.
LEMMA StaysInStep ==
  ASSUME SizeInStep, Unopened(sockets'), UNCHANGED <<opts, lastSize>>
  PROVE  SizeInStep'
BY DEF SizeInStep, Unopened

\* A restart leaves no open socket, so that a forgotten size harms none.
LEMMA RenewInStep ==
  ASSUME IInv, SizeInStep, NEW v \in Views, Renew(v), KeepSize(v)
  PROVE  SizeInStep'
<1>1. \A n \in Slots : sockets'[n].ready # "open"
  <2>1. /\ CloseSocket \in [Slots -> SocketRecords]
        /\ \A n \in Slots : CloseSocket[n].ready # "open"
    BY GivenUp
  <2>2. CASE sockets' = CloseSocket
    BY <2>1, <2>2
  <2>3. CASE \E n \in Slots : sockets' = [CloseSocket EXCEPT ![n] =
               [gen |-> generation + 1, view |-> v, ready |-> "connecting", attached |-> TRUE,
                size |-> NoSize]]
    BY <2>1, <2>3
  <2> QED BY <2>2, <2>3 DEF Renew, Connect
<1>2. lastSize' # NoSize => lastSize'.for = opts'.terminal
  BY DEF Renew, KeepSize, SizeInStep
<1> QED BY <1>1, <1>2 DEF SizeInStep

\* The socket that is open is told each size that is measured.
LEMMA ResizeInStep ==
  ASSUME IInv, SizeInStep, NEW g, NEW t, NEW size, Resize(g, t, size)
  PROVE  SizeInStep'
<1>1. lastSize'.for = opts'.terminal
  BY DEF Resize, MatchesExpectedTarget
<1>2. ASSUME NEW n \in Slots, sockets'[n].ready = "open" PROVE sockets'[n].size = lastSize'
  <2>1. CASE ~Sends(g, t)
    <3>1. sockets' = sockets
      BY <2>1 DEF Resize
    <3> QED BY <1>2, <2>1, <3>1 DEF Sends, Resize, IInv, SocketInv, Live, TypeOK
  <2>2. CASE Sends(g, t)
    <3>1. socket \in Slots /\ sockets[socket] \in SocketRecords
      BY <2>2 DEF Sends, IInv, TypeOK
    <3>2. CASE sockets' = [sockets EXCEPT ![socket].ready = "closing"]
      <4>1. sockets'[socket].ready = "closing" /\ \A m \in Slots : m # socket => sockets'[m] = sockets[m]
        BY <3>1, <3>2 DEF IInv, TypeOK, SocketRecords
      <4> QED BY <1>2, <4>1 DEF IInv, SocketInv, Live
    <3>3. CASE sockets' = [sockets EXCEPT ![socket].size = lastSize']
      <4>1. sockets'[socket].size = lastSize' /\ \A m \in Slots : m # socket => sockets'[m] = sockets[m]
        BY <3>1, <3>3 DEF IInv, TypeOK, SocketRecords
      <4> QED BY <1>2, <4>1 DEF IInv, SocketInv, Live
    <3> QED BY <2>2, <3>2, <3>3 DEF Resize
  <2> QED BY <2>1, <2>2
<1> QED BY <1>1, <1>2 DEF SizeInStep

\* A socket that opens is told the last size.
LEMMA SocketOpensInStep ==
  ASSUME IInv, SizeInStep, NEW n \in Slots, SocketOpens(n)
  PROVE  SizeInStep'
<1>1. sockets[n] \in SocketRecords
  BY DEF IInv, TypeOK
<1>2. UNCHANGED <<opts, lastSize>>
  BY DEF SocketOpens
<1>3. CASE sockets' = [sockets EXCEPT ![n] = [@ EXCEPT !.ready = "open", !.size = lastSize]]
  <2>1. sockets'[n].size = lastSize /\ \A m \in Slots : m # n => sockets'[m] = sockets[m]
    BY <1>1, <1>3 DEF IInv, TypeOK, SocketRecords
  <2> QED BY <1>2, <2>1 DEF SizeInStep
<1>4. CASE sockets' = [sockets EXCEPT ![n].ready = "closing"]
  <2>1. sockets'[n].ready = "closing" /\ \A m \in Slots : m # n => sockets'[m] = sockets[m]
    BY <1>1, <1>4 DEF IInv, TypeOK, SocketRecords
  <2> QED BY <1>2, <2>1 DEF SizeInStep
<1> QED BY <1>3, <1>4 DEF SocketOpens, ReplayResize

\* Closing a socket opens none.
LEMMA ClosingOpensNone ==
  ASSUME IInv, NEW n \in Slots, SocketErrors(n) \/ SocketCloses(n) \/ OldSocketCloses(n)
  PROVE  Unopened(sockets')
<1>1. sockets[n] \in SocketRecords
  BY DEF IInv, TypeOK
<1>2. sockets'[n].ready # "open" /\ \A m \in Slots : m # n => sockets'[m] = sockets[m]
  <2>1. CASE sockets' = [sockets EXCEPT ![n].ready = "closing"]
    BY <1>1, <2>1 DEF IInv, TypeOK, SocketRecords
  <2>2. CASE sockets' = [sockets EXCEPT ![n] = Closed]
    BY <2>2 DEF IInv, TypeOK, Closed
  <2> QED BY <2>1, <2>2 DEF SocketErrors, SocketCloses, OldSocketCloses
<1> QED BY <1>2 DEF Unopened

LEMMA ComponentInStep == ASSUME IInv, SizeInStep, Component PROVE SizeInStep'
<1>0. Unopened(sockets) /\ sockets \in [Slots -> SocketRecords]
  BY DEF Unopened, IInv, TypeOK
<1>1. ASSUME NEW v \in Views, Render(v) PROVE SizeInStep'
  BY <1>1 DEF Render, SizeInStep
<1>2. ASSUME Mount PROVE SizeInStep'
  <2>1. Unopened(sockets')
    BY <1>0, <1>2, ConnectOpensNone DEF Mount, Start
  <2>2. UNCHANGED <<opts, lastSize>>
    BY <1>2 DEF Mount
  <2> QED BY <2>1, <2>2, StaysInStep
<1>3. ASSUME Effects PROVE SizeInStep'
  <2>1. CASE UNCHANGED <<opts, sockets, lastSize>>
    BY <2>1 DEF SizeInStep
  <2>2. CASE KeepSize(view) /\ Renew(view)
    BY <2>2, RenewInStep DEF IInv, TypeOK
  <2> QED BY <1>3, <2>1, <2>2 DEF Effects, UpdateOptions
<1>4. ASSUME Unmount PROVE SizeInStep'
  <2>1. Unopened(sockets')
    BY <1>0, <1>4, GivenUp DEF Unmount, Unopened
  <2>2. UNCHANGED <<opts, lastSize>>
    BY <1>4 DEF Unmount
  <2> QED BY <2>1, <2>2, StaysInStep
<1>5. ASSUME Retry PROVE SizeInStep'
  <2>1. Unopened(sockets')
    BY <1>5, RenewOpensNone DEF Retry
  <2>2. UNCHANGED <<opts, lastSize>>
    BY <1>5 DEF Retry, Renew
  <2> QED BY <2>1, <2>2, StaysInStep
<1>6. ASSUME NEW v \in Views, Configure(v) PROVE SizeInStep'
  BY <1>6, RenewInStep DEF Configure
<1>7. ASSUME NEW g \in 0..generation, NEW v \in Views, NEW size \in Sizes,
             Resize(g, v.terminal, size)
      PROVE  SizeInStep'
  BY <1>7, ResizeInStep
<1> QED BY <1>1, <1>2, <1>3, <1>4, <1>5, <1>6, <1>7 DEF Component, Wake

LEMMA BrowserInStep == ASSUME IInv, SizeInStep, Browser PROVE SizeInStep'
<1>0. Unopened(sockets) /\ sockets \in [Slots -> SocketRecords]
  BY DEF Unopened, IInv, TypeOK
<1>1. ASSUME NEW n \in Slots, SocketOpens(n) PROVE SizeInStep'
  BY <1>1, SocketOpensInStep
<1>2. ASSUME NEW n \in Slots, SocketErrors(n) \/ SocketCloses(n) \/ OldSocketCloses(n)
      PROVE  SizeInStep'
  <2>1. UNCHANGED <<opts, lastSize>>
    BY <1>2 DEF SocketErrors, SocketCloses, OldSocketCloses
  <2> QED BY <1>2, <2>1, ClosingOpensNone, StaysInStep
<1>3. ASSUME NEW n \in Slots, StableFires(n) \/ ProbeTimesOut(n) PROVE SizeInStep'
  BY <1>3 DEF StableFires, ProbeTimesOut, SizeInStep
<1>4. ASSUME NEW n \in Slots, NEW reply \in Statuses, ProbeSettles(n, reply) PROVE SizeInStep'
  BY <1>4 DEF ProbeSettles, SizeInStep
<1>5. ASSUME NEW g \in 0..generation, RetryFires(g) PROVE SizeInStep'
  <2>1. Unopened(sockets')
    BY <1>0, <1>5, ConnectOpensNone DEF RetryFires
  <2>2. UNCHANGED <<opts, lastSize>>
    BY <1>5 DEF RetryFires
  <2> QED BY <2>1, <2>2, StaysInStep
<1> QED BY <1>1, <1>2, <1>3, <1>4, <1>5 DEF Browser

(* Whoever measures a surface, and whenever: an open connection was told the last size of   *)
(* the present terminal, and none of another one.                                           *)
THEOREM SizeIsTold == Spec => []SizeInStep
<1>1. Init => SizeInStep
  BY DEF Init, SizeInStep, Closed
<1>2. IInv /\ SizeInStep /\ [Next]_vars => SizeInStep'
  <2>1. ASSUME SizeInStep, UNCHANGED vars PROVE SizeInStep'
    BY <2>1 DEF vars, SizeInStep
  <2> QED BY <2>1, ComponentInStep, BrowserInStep DEF Next
<1> QED BY <1>1, <1>2, Inductive, PTL DEF Spec

-----------------------------------------------------------------------------
(* The retry counter. *)

\* One step of the counter: a retry counts up, all else leaves it.
Counts ==
  /\ ~(retryAttempt' < retryAttempt)
  /\ phase # "retrying" /\ phase' = "retrying" =>
       retryAttempt' > retryAttempt \/ retryAttempt = MaxRetry

LEMMA ScheduleCounts == ASSUME IInv, NEW g, ScheduleRetry(g, retryAttempt) PROVE Counts
BY DEF ScheduleRetry, Least, Counts, IInv, TypeOK

LEMMA ConnectCounts ==
  ASSUME IInv, NEW g, NEW v, NEW ss, Connect(g, v, ss, retryAttempt)
  PROVE  Counts
<1>1. CASE ScheduleRetry(g, retryAttempt)
  BY <1>1, ScheduleCounts
<1>2. CASE SetPhase("connecting") /\ retryAttempt' = retryAttempt
  BY <1>2 DEF SetPhase, Counts, IInv, TypeOK
<1> QED BY <1>1, <1>2 DEF Connect

LEMMA LeftAlone ==
  ASSUME IInv, UNCHANGED retryAttempt, phase' = phase \/ phase' # "retrying"
  PROVE  Counts
BY DEF Counts, IInv, TypeOK

\* A step that stays in its generation and resets the counter is the timer of a stable connection.
LEMMA StepCounts ==
  ASSUME IInv, Next, generation' = generation
  PROVE  Counts \/ \E n \in Slots : StableFires(n)
<1>1. ASSUME NEW v, Renew(v) PROVE FALSE
  BY <1>1 DEF Renew, IInv, TypeOK
<1>2. ASSUME Component PROVE Counts
  <2>1. ASSUME NEW v \in Views, Render(v) PROVE Counts
    BY <2>1, LeftAlone DEF Render
  <2>2. ASSUME Mount PROVE Counts
    <3>1. CASE SetPhase("idle") /\ UNCHANGED retryAttempt
      BY <3>1, LeftAlone DEF SetPhase
    <3>2. CASE Connect(generation, opts, sockets, retryAttempt)
      BY <3>2, ConnectCounts
    <3> QED BY <2>2, <3>1, <3>2 DEF Mount, Start
  <2>3. ASSUME Effects PROVE Counts
    BY <1>1, <2>3, LeftAlone DEF Effects, UpdateOptions
  <2>4. ASSUME Unmount PROVE Counts
    BY <2>4, LeftAlone DEF Unmount, SetPhase
  <2>5. ASSUME Retry PROVE Counts
    BY <1>1, <2>5 DEF Retry
  <2>6. ASSUME NEW v \in Views, Configure(v) PROVE Counts
    BY <1>1, <2>6 DEF Configure
  <2>7. ASSUME NEW g \in 0..generation, NEW v \in Views, NEW size \in Sizes,
               Resize(g, v.terminal, size)
        PROVE  Counts
    BY <2>7, LeftAlone DEF Resize
  <2> QED BY <1>2, <2>1, <2>2, <2>3, <2>4, <2>5, <2>6, <2>7 DEF Component, Wake
<1>3. ASSUME NEW n \in Slots,
             SocketOpens(n) \/ SocketErrors(n) \/ OldSocketCloses(n) \/ ProbeTimesOut(n)
      PROVE  Counts
  BY <1>3, LeftAlone DEF SocketOpens, SocketErrors, OldSocketCloses, ProbeTimesOut, SetPhase
<1>4. ASSUME NEW n \in Slots, SocketCloses(n) PROVE Counts
  BY <1>4, LeftAlone, ScheduleCounts DEF SocketCloses
<1>5. ASSUME NEW n \in Slots, NEW reply \in Statuses, ProbeSettles(n, reply) PROVE Counts
  <2>1. CASE ScheduleRetry(generation, retryAttempt)
    BY <2>1, ScheduleCounts
  <2>2. CASE UNCHANGED <<phase, retryAttempt>>
    BY <2>2, LeftAlone
  <2>3. CASE Diagnosis(reply) # "retrying" /\ phase' = Diagnosis(reply) /\ UNCHANGED retryAttempt
    BY <2>3, LeftAlone
  <2> QED BY <1>5, <2>1, <2>2, <2>3 DEF ProbeSettles, SetPhase
<1>6. ASSUME NEW g \in 0..generation, RetryFires(g) PROVE Counts
  BY <1>6, LeftAlone, ConnectCounts DEF RetryFires
<1> QED BY <1>2, <1>3, <1>4, <1>5, <1>6 DEF Next, Browser

(* However a connection breaks, whichever probe, socket or timer schedules the next         *)
(* attempt: the delay grows until the connection was stable or a new generation began.      *)
THEOREM RetriesBackOff == Spec => FlappingBacksOff
<1> DEFINE Kept ==
      generation' = generation =>
        /\ retryAttempt' < retryAttempt =>
             phase = "open" /\ stableTimer # NoSocket /\ stableTimers' # stableTimers
        /\ phase # "retrying" /\ phase' = "retrying" =>
             retryAttempt' > retryAttempt \/ retryAttempt = MaxRetry
<1>1. ASSUME IInv, Next PROVE Kept
  <2>1. CASE Counts
    BY <2>1 DEF Counts
  <2>2. CASE \E n \in Slots : StableFires(n)
    <3>1. PICK n \in Slots : StableFires(n)
      BY <2>2
    <3>2. n \in stableTimers /\ stableTimers' = stableTimers \ {n} /\ UNCHANGED phase
      BY <3>1 DEF StableFires
    <3>3. stableTimer = n /\ phase = "open" /\ n # NoSocket
      BY <1>1, <3>2 DEF IInv, TimersInv
    <3> QED BY <3>2, <3>3
  <2> QED BY <1>1, <2>1, <2>2, StepCounts
<1>2. IInv /\ [Next]_vars => [Kept]_vars
  BY <1>1
<1> QED BY <1>2, Inductive, PTL DEF Spec, FlappingBacksOff

=============================================================================
