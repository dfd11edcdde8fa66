-------------------------- MODULE TerminalController --------------------------
(***************************************************************************)
(* The terminal client of the dashboard: TerminalController                *)
(* (web/src/terminal/controller.ts) and the React hook that drives it      *)
(* (hook.ts).                                                              *)
(*                                                                         *)
(* JavaScript runs one callback at a time, so a step is one callback: an   *)
(* event of a web socket, a timer, the answer to a probe, an event of the  *)
(* browser, or a call of the component.  What interleaves is their order,  *)
(* and each may belong to a connection that was given up long ago.         *)
(***************************************************************************)
EXTENDS Integers, FiniteSets

CONSTANTS
  Views,         \* what may be rendered: [terminal, token, runtime]
  NoView, NoTerminal,
  Slots,         \* names of socket objects, used again once nothing refers to one
  NoSocket,
  Sizes, NoSize,
  Statuses,      \* the HTTP statuses a probe may be answered with
  MaxGeneration, \* bound: how often callers may restart the controller
  MaxRetry       \* bound: the retry counter stays there

ASSUME SlotsAssumption == NoSocket \notin Slots
ASSUME ViewsAssumption == NoView \notin Views
ASSUME BoundsAssumption == MaxGeneration \in Nat /\ MaxRetry \in Nat \ {0}

VARIABLES
  view,         \* the options of the last render
  cb,           \* the render whose callbacks are set, or NoView
  opts,         \* projectSlug, windowName, token and the runtime options
  started, generation, phase,
       \* state.retryInMs while the phase is retrying, else 0
  retryAttempt,
  socket,       \* the current socket or NoSocket
  sockets,      \* every socket that is not closed, and what its listeners captured
  retryTimer,   \* the handle: the generation its callback captured, or -1
  retryTimers,  \* the callbacks the browser still has to call
  stableTimer, stableTimers,  \* the same for the timer of a stable connection
  probe,        \* the current probe: the socket whose end it looks into
  probes,       \* every probe that is not settled
  lastSize,
  listening     \* the wake listeners are installed

timers == <<retryTimer, retryTimers, stableTimer, stableTimers>>
vars == <<view, cb, opts, started, generation, phase, retryAttempt, socket, sockets,
          timers, probe, probes, lastSize, listening>>

NoTimer == -1
Phases == {"idle", "connecting", "open", "retrying", "missing", "unauthorized", "failed"}
Closed == [gen |-> 0, view |-> NoView, ready |-> "closed", attached |-> FALSE, size |-> NoSize]
Settled == [gen |-> 0, on |-> "none"]

HasTarget(v) == v.terminal # NoTerminal
Live(n) == sockets[n].ready \in {"connecting", "open"}
InFlight(n) == probes[n].on \in {"running", "timedOut"}
Free(n) == sockets[n].ready = "closed" /\ probes[n].on = "none" /\ n \notin stableTimers
IsCurrentGeneration(g) == started /\ g = generation
IsCurrentSocket(n) == IsCurrentGeneration(sockets[n].gen) /\ socket = n

-----------------------------------------------------------------------------
(* The retry policy. *)

Least(a, b) == IF a < b THEN a ELSE b

IsRetryable(status) == status \in {400, 408, 409, 425, 429} \/ status >= 500

-----------------------------------------------------------------------------
(* Pieces of the operations. *)

SetPhase(p) == phase' = p

\* Mutant: the listeners are removed, but the socket stays open.
OnlyDetach ==
  IF socket = NoSocket THEN sockets ELSE [sockets EXCEPT ![socket].attached = FALSE]

\* The sockets once the current one is detached and closed.
CloseSocket ==
  IF socket = NoSocket THEN sockets
  ELSE [sockets EXCEPT ![socket] = [@ EXCEPT !.attached = FALSE, !.ready = "closing"]]

ClearStableTimer == stableTimer' = NoSocket /\ stableTimers' = stableTimers \ {stableTimer}
\* Mutant: the handle is forgotten, but the timer runs on.
ForgetRetryTimer == retryTimer' = NoTimer /\ UNCHANGED retryTimers

ClearRetryTimer == retryTimer' = NoTimer /\ retryTimers' = retryTimers \ {retryTimer}
\* The probes once the current one is aborted; a time-out that came first is remembered.
AbortedProbes ==
  [n \in Slots |-> IF n = probe /\ probes[n].on = "running"
                   THEN [probes[n] EXCEPT !.on = "aborted"] ELSE probes[n]]
ClearProbe == probe' = NoSocket /\ probes' = AbortedProbes

\* Mutant: every retry is a first one.
RetryAtOnce(g, a) ==
  /\ phase' = "retrying"
  /\ retryAttempt' = 1
  /\ retryTimer' = g
  /\ retryTimers' = (retryTimers \ {retryTimer}) \cup {g}

\* The timer is set for generation g; the counter counts from a.
ScheduleRetry(g, a) ==
  /\ phase' = "retrying"
  /\ retryAttempt' = Least(a + 1, MaxRetry)
  /\ retryTimer' = g
  /\ retryTimers' = (retryTimers \ {retryTimer}) \cup {g}

\* connect for generation g and options v, where there is no socket that is
\* connecting or open; ss are the sockets and a is the counter before it.
Connect(g, v, ss, a) ==
  \/ /\ SetPhase("connecting") /\ ClearRetryTimer /\ retryAttempt' = a
     /\ \E n \in Slots :
          /\ Free(n)
          /\ socket' = n
          /\ sockets' = [ss EXCEPT ![n] = [gen |-> g, view |-> v, ready |-> "connecting",
                                           attached |-> TRUE, size |-> NoSize]]
  \/ /\ ScheduleRetry(g, a) /\ socket' = NoSocket /\ sockets' = ss

\* invalidateGeneration, then connect with options v where there is something to connect to.
Renew(v) ==
  /\ generation < MaxGeneration
  /\ generation' = generation + 1
  /\ opts' = v
  /\ ClearStableTimer /\ ClearProbe
  /\ IF started /\ HasTarget(v)
     THEN Connect(generation + 1, v, CloseSocket, 0)
     ELSE /\ SetPhase("idle") /\ ClearRetryTimer /\ retryAttempt' = 0
          /\ socket' = NoSocket /\ sockets' = CloseSocket

\* Mutant: the size of one terminal is taken for that of the next.
KeepAnySize(v) == UNCHANGED lastSize

KeepSize(v) == lastSize' = IF v.terminal = opts.terminal THEN lastSize ELSE NoSize

-----------------------------------------------------------------------------
(* What the component does. *)

Init ==
  /\ view \in Views /\ opts = view /\ cb = NoView
  /\ started = FALSE /\ generation = 0 /\ phase = "idle" /\ retryAttempt = 0
  /\ socket = NoSocket /\ sockets = [n \in Slots |-> Closed]
  /\ retryTimer = NoTimer /\ retryTimers = {} /\ stableTimer = NoSocket /\ stableTimers = {}
  /\ probe = NoSocket /\ probes = [n \in Slots |-> Settled]
  /\ lastSize = NoSize /\ listening = FALSE

\* The component is rendered with other options; its effects come later.
Render(v) ==
  /\ cb = view /\ view' = v
  /\ UNCHANGED <<cb, opts, started, generation, phase, retryAttempt, socket, sockets,
                 timers, probe, probes, lastSize, listening>>

\* Neither the connection nor the runtime options differ.
SameOptions(v) == v = opts

UpdateOptions(v) ==
  IF SameOptions(v)
  THEN UNCHANGED <<opts, generation, phase, retryAttempt, socket, sockets, timers,
                   probe, probes, lastSize, listening>>
  ELSE /\ KeepSize(v)
       /\ listening' = (started /\ HasTarget(v))
       /\ Renew(v)

\* The effects of a later render: its callbacks and its options.
Effects ==
  /\ cb \notin {NoView, view}
  /\ cb' = view
  /\ UpdateOptions(view)
  /\ UNCHANGED <<view, started>>

\* Another way to change the options, without the effects of a render.
Configure(v) ==
  /\ <<v.terminal, v.token>> # <<opts.terminal, opts.token>>
  /\ v.runtime = opts.runtime
  /\ KeepSize(v)
  /\ Renew(v)
  /\ UNCHANGED <<view, cb, started, listening>>

Start ==
  /\ ~started
  /\ started' = TRUE /\ listening' = TRUE
  /\ IF HasTarget(opts)
     THEN Connect(generation, opts, sockets, retryAttempt)
     ELSE SetPhase("idle") /\ UNCHANGED <<retryAttempt, socket, sockets, retryTimer, retryTimers>>

\* The effects of the first render, and again where StrictMode undoes and repeats them.
Mount ==
  /\ cb = NoView /\ view = opts
  /\ cb' = view
  /\ Start
  /\ UNCHANGED <<view, opts, generation, stableTimer, stableTimers, probe, probes, lastSize>>

\* The component goes: its effects are undone.
Unmount ==
  /\ cb # NoView /\ cb = view
  /\ cb' = NoView
  /\ IF ~started /\ socket = NoSocket /\ retryTimer = NoTimer
     THEN UNCHANGED <<started, generation, phase, retryAttempt, socket, sockets, timers,
                      probe, probes, listening>>
     ELSE /\ generation < MaxGeneration
          /\ started' = FALSE /\ generation' = generation + 1
          /\ ClearRetryTimer /\ ClearStableTimer /\ ClearProbe
          /\ listening' = FALSE
          /\ socket' = NoSocket /\ sockets' = CloseSocket
          /\ SetPhase("idle")
          /\ UNCHANGED retryAttempt
  /\ UNCHANGED <<view, opts, lastSize>>

\* The button Reconnect of a component that is mounted; with no target nothing changes.
Retry ==
  /\ started /\ HasTarget(opts)
  /\ Renew(opts)
  /\ UNCHANGED <<view, cb, started, lastSize, listening>>

\* The browser is online or visible again.
Wake == listening /\ phase \notin {"open", "connecting"} /\ Retry

\* Mutant: a callback of an earlier generation is served.
MatchesTerminal(g, terminal) == terminal = opts.terminal

\* A callback of a render names the generation and the terminal it was rendered for.
MatchesExpectedTarget(g, terminal) == g = generation /\ terminal = opts.terminal

\* Whether a frame that a callback sends goes out.
Sends(g, terminal) ==
  MatchesExpectedTarget(g, terminal) /\ socket # NoSocket /\ sockets[socket].ready = "open"

\* The surface of a terminal was measured; a send that throws closes the socket.
Resize(g, terminal, size) ==
  /\ MatchesExpectedTarget(g, terminal)
  /\ lastSize' = [for |-> terminal, size |-> size]
  /\ \/ sockets' = IF Sends(g, terminal) THEN [sockets EXCEPT ![socket].size = lastSize'] ELSE sockets
     \/ Sends(g, terminal) /\ sockets' = [sockets EXCEPT ![socket].ready = "closing"]
  /\ UNCHANGED <<view, cb, opts, started, generation, phase, retryAttempt, socket,
                 timers, probe, probes, listening>>

-----------------------------------------------------------------------------
(* What happens to a socket. *)

\* An open socket is told the size; where the send throws it is closed.
ReplayResize(n) ==
  \/ sockets' = [sockets EXCEPT ![n] = [@ EXCEPT !.ready = "open", !.size = lastSize]]
  \/ /\ lastSize # NoSize
     /\ sockets' = [sockets EXCEPT ![n].ready = "closing"]

SocketOpens(n) ==
  /\ sockets[n].ready = "connecting" /\ sockets[n].attached /\ IsCurrentSocket(n)
  /\ SetPhase("open")
  /\ stableTimer' = n /\ stableTimers' = (stableTimers \ {stableTimer}) \cup {n}
  /\ ReplayResize(n)
  /\ UNCHANGED <<view, cb, opts, started, generation, retryAttempt, socket, retryTimer,
                 retryTimers, probe, probes, lastSize, listening>>

\* The callbacks of a render take what was received for its terminal and token.
MatchesTerminalConnection(n) ==
  /\ sockets[n].gen = generation
  /\ sockets[n].view.terminal = cb.terminal /\ sockets[n].view.token = cb.token

\* Whether a message of the server on socket n reaches a callback of the component.
Delivers(n) ==
  /\ sockets[n].attached /\ IsCurrentSocket(n) /\ sockets[n].ready = "open"
  /\ cb # NoView /\ MatchesTerminalConnection(n)

\* An error event, or a send that throws: the socket is closed and its close event awaited.
SocketErrors(n) ==
  /\ Live(n) /\ sockets[n].attached /\ IsCurrentSocket(n)
  /\ sockets' = [sockets EXCEPT ![n].ready = "closing"]
  /\ UNCHANGED <<view, cb, opts, started, generation, phase, retryAttempt, socket,
                 timers, probe, probes, lastSize, listening>>

\* The current socket ends; if it never was open, a probe finds out why.
SocketCloses(n) ==
  /\ sockets[n].ready # "closed" /\ sockets[n].attached /\ IsCurrentSocket(n)
  /\ socket' = NoSocket /\ sockets' = [sockets EXCEPT ![n] = Closed]
  /\ ClearStableTimer
  /\ \/ /\ phase = "open"
        /\ ScheduleRetry(generation, retryAttempt)
        /\ UNCHANGED <<probe, probes>>
     \/ /\ phase # "open"
        /\ probe' = n
        /\ probes' = [AbortedProbes EXCEPT ![n] = [gen |-> generation, on |-> "running"]]
        /\ UNCHANGED <<phase, retryAttempt, retryTimer, retryTimers>>
  /\ UNCHANGED <<view, cb, opts, started, generation, lastSize, listening>>

\* A socket that was given up ends; nobody listens.
OldSocketCloses(n) ==
  /\ sockets[n].ready # "closed" /\ ~(sockets[n].attached /\ IsCurrentSocket(n))
  /\ sockets' = [sockets EXCEPT ![n] = Closed]
  /\ UNCHANGED <<view, cb, opts, started, generation, phase, retryAttempt, socket,
                 timers, probe, probes, lastSize, listening>>

-----------------------------------------------------------------------------
(* Timers and probes. *)

\* Where there is a socket already, or the callback is of an earlier generation, nothing is done.
RetryFires(g) ==
  /\ g \in retryTimers
  /\ IF IsCurrentGeneration(g) /\ HasTarget(opts) /\ (socket # NoSocket => ~Live(socket))
     THEN Connect(g, opts, sockets, retryAttempt)
     ELSE /\ retryTimers' = retryTimers \ {g}
          /\ retryTimer' = IF g = generation THEN NoTimer ELSE retryTimer
          /\ UNCHANGED <<phase, retryAttempt, socket, sockets>>
  /\ UNCHANGED <<view, cb, opts, started, generation, stableTimer, stableTimers, probe, probes,
                 lastSize, listening>>

\* The connection stayed open for a while: the next retry is a first one.
StableFires(n) ==
  /\ n \in stableTimers
  /\ stableTimers' = stableTimers \ {n}
  /\ IF IsCurrentSocket(n)
     THEN retryAttempt' = 0 /\ stableTimer' = NoSocket
     ELSE UNCHANGED <<retryAttempt, stableTimer>>
  /\ UNCHANGED <<view, cb, opts, started, generation, phase, socket, sockets,
                 retryTimer, retryTimers, probe, probes, lastSize, listening>>

ProbeTimesOut(n) ==
  /\ probes[n].on = "running"
  /\ probes' = [probes EXCEPT ![n].on = "timedOut"]
  /\ UNCHANGED <<view, cb, opts, started, generation, phase, retryAttempt, socket,
                 sockets, timers, probe, lastSize, listening>>

\* What requestJson makes of a reply: 0 stands for no reply, as after an abort.
Ok(reply) == reply \in 200..299

\* What is done about the reply to the current probe: a new phase, or a retry.
Diagnosis(reply) ==
  CASE reply = 401 -> "unauthorized"
    [] reply = 404 -> "missing"
    [] ~Ok(reply) /\ reply # 0 /\ ~IsRetryable(reply) /\ reply \notin {401, 404} -> "failed"
    [] OTHER -> "retrying"

\* Mutant: a probe that timed out is taken for one that was aborted.
TimeOutAborts(n, reply) ==
  ~IsCurrentGeneration(probes[n].gen) \/ (probes[n].on \in {"aborted", "timedOut"} /\ ~Ok(reply))

\* The caller asks no more; a time-out is not an abort of the caller's.
Outdated(n, reply) ==
  ~IsCurrentGeneration(probes[n].gen) \/ (probes[n].on = "aborted" /\ ~Ok(reply))

\* A probe is answered or aborted.
ProbeSettles(n, reply) ==
  /\ probes[n].on # "none"
  /\ probes' = [probes EXCEPT ![n] = Settled]
  /\ probe' = IF probe = n THEN NoSocket ELSE probe
  /\ IF Outdated(n, reply)
     THEN UNCHANGED <<phase, retryAttempt, retryTimer, retryTimers>>
     ELSE \/ /\ Diagnosis(reply) = "retrying"
             /\ ScheduleRetry(generation, retryAttempt)
          \/ /\ Diagnosis(reply) # "retrying"
             /\ SetPhase(Diagnosis(reply))
             /\ UNCHANGED <<retryAttempt, retryTimer, retryTimers>>
  /\ UNCHANGED <<view, cb, opts, started, generation, socket, sockets, stableTimer, stableTimers,
                 lastSize, listening>>

-----------------------------------------------------------------------------

Component ==
  \/ \E v \in Views : Render(v)
  \/ Mount \/ Effects \/ Unmount \/ Retry \/ Wake
  \/ \E v \in Views : Configure(v)
  \/ \E g \in 0..generation, v \in Views, size \in Sizes : Resize(g, v.terminal, size)

Browser ==
  \/ \E n \in Slots :
       \/ SocketOpens(n) \/ SocketErrors(n) \/ SocketCloses(n) \/ OldSocketCloses(n)
       \/ StableFires(n) \/ ProbeTimesOut(n)
       \/ \E reply \in Statuses : ProbeSettles(n, reply)
  \/ \E g \in 0..generation : RetryFires(g)

Next == Component \/ Browser

Spec == Init /\ [][Next]_vars

(* The browser calls back: timers fire, an aborted request is rejected, a socket that is   *)
(* being closed closes.  Nobody has to answer a probe; its time-out ends it.  A server     *)
(* that is there again and again is met in the end.                                        *)
Fairness ==
  /\ WF_vars(\E g \in 0..generation : RetryFires(g))
  /\ SF_vars(\E g \in 0..generation : RetryFires(g) /\ phase' = "connecting")
  /\ SF_vars(\E n \in Slots : SocketOpens(n))
  /\ \A n \in Slots :
       /\ WF_vars(sockets[n].ready = "closing" /\ (SocketCloses(n) \/ OldSocketCloses(n)))
       /\ WF_vars(ProbeTimesOut(n))
       /\ WF_vars(probes[n].on \in {"timedOut", "aborted"} /\ \E r \in Statuses : ProbeSettles(n, r))
FairSpec == Spec /\ Fairness

-----------------------------------------------------------------------------
(* Properties. *)

SizeRecords == [for : {v.terminal : v \in Views}, size : Sizes]
SocketRecords == [gen : 0..MaxGeneration, view : Views \cup {NoView},
                  ready : {"connecting", "open", "closing", "closed"}, attached : BOOLEAN,
                  size : SizeRecords \cup {NoSize}]

TypeOK ==
  /\ view \in Views /\ opts \in Views /\ cb \in Views \cup {NoView}
  /\ started \in BOOLEAN /\ listening \in BOOLEAN
  /\ generation \in 0..MaxGeneration /\ retryAttempt \in 0..MaxRetry
  /\ phase \in Phases
  /\ socket \in Slots \cup {NoSocket} /\ sockets \in [Slots -> SocketRecords]
  /\ retryTimer \in 0..MaxGeneration \cup {NoTimer} /\ retryTimers \in SUBSET (0..MaxGeneration)
  /\ stableTimer \in Slots \cup {NoSocket} /\ stableTimers \in SUBSET Slots
  /\ probe \in Slots \cup {NoSocket}
  /\ probes \in [Slots -> [gen : 0..MaxGeneration, on : {"none", "running", "timedOut", "aborted"}]]
  /\ lastSize \in SizeRecords \cup {NoSize}

(* Through every restart, retry and change of the options there is at most one live         *)
(* connection: the current socket, made in this generation with these options, and none    *)
(* once the controller has stopped.                                                         *)
OneConnection ==
  \A n \in Slots : Live(n) =>
    /\ socket = n /\ sockets[n].attached
    /\ started /\ sockets[n].gen = generation /\ sockets[n].view = opts

ProbesNow == probe # NoSocket /\ InFlight(probe) /\ probes[probe].gen = generation
Idle == socket = NoSocket /\ retryTimers = {} /\ ~ProbesNow

(* What the user is shown is what goes on, and the controller never waits for nothing: an  *)
(* attempt has a socket or a probe, a retry has its timer, and a phase that ends the       *)
(* attempts has none of them left.                                                          *)
PhaseTellsTruth ==
  /\ (phase = "idle") = (~started \/ ~HasTarget(opts))
  /\ phase = "connecting" =>
       \/ socket # NoSocket /\ sockets[socket].ready \in {"connecting", "closing"}
       \/ socket = NoSocket /\ ProbesNow
  /\ phase = "open" => socket # NoSocket /\ sockets[socket].ready \in {"open", "closing"}
  /\ phase = "retrying" => retryTimers = {generation} /\ socket = NoSocket /\ ~ProbesNow
  /\ phase \notin {"connecting", "open", "retrying"} => Idle

(* Output that is given to the callbacks of a render was sent on a connection made with    *)
(* the present options, and these are of the terminal and the token of that render; input  *)
(* goes out on a connection to the terminal, and in the generation, it was typed into.      *)
OutputReachesItsTerminal ==
  /\ \A n \in Slots : Delivers(n) =>
       sockets[n].view = opts /\ cb.terminal = opts.terminal /\ cb.token = opts.token
  /\ \A g \in 0..generation, v \in Views : Sends(g, v.terminal) =>
       sockets[socket].view.terminal = v.terminal /\ sockets[socket].gen = g

(* A connection that is open was told the last size that was measured, and never one of    *)
(* another terminal.                                                                        *)
SizeInStep ==
  /\ \A n \in Slots : sockets[n].ready = "open" => sockets[n].size = lastSize
  /\ lastSize # NoSize => lastSize.for = opts.terminal

(* A connection that opens and breaks again and again is retried ever later: each retry    *)
(* counts, however it came about, and the counter goes back only in a new generation or    *)
(* after the current connection was stable.                                                 *)
FlappingBacksOff ==
  [][generation' = generation =>
       /\ retryAttempt' < retryAttempt =>
            phase = "open" /\ stableTimer # NoSocket /\ stableTimers' # stableTimers
       /\ phase # "retrying" /\ phase' = "retrying" =>
            retryAttempt' > retryAttempt \/ retryAttempt = MaxRetry]_vars

Wanted == started /\ HasTarget(opts)

(* While a terminal is wanted and the server can be reached from time to time, the          *)
(* attempts end with an open connection, or with a reply that says why there is none.       *)
KeepsTrying == Wanted ~> (~Wanted \/ phase \in {"open", "missing", "unauthorized", "failed"})

=============================================================================
