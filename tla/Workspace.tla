------------------------------ MODULE Workspace ------------------------------
(***************************************************************************)
(* The dashboard's workspace (web/src/main.tsx, App): the projects and the *)
(* terminals it lists, the one that is selected, and the requests that are *)
(* under way: loads of the lists, and creations and closings of shells.    *)
(*                                                                         *)
(* React renders what an answer changes some time after the answer, what a *)
(* click changes at once, and runs the effect of a render after it.  ui is *)
(* the state with all that is queued, view the state of the last render:   *)
(* the callbacks, the effect and the refs know only that.  Windows are     *)
(* numbers, as in the names <project>-shell-<n>; the server lists them in  *)
(* order and gives a new shell the first free one.  A list is the set of   *)
(* its entries: first those a load brought, in the server's order, then    *)
(* the shells opened since, in the order they were opened.  What a         *)
(* terminal shows is the matter of TerminalController and TerminalScreen.  *)
(***************************************************************************)
EXTENDS Integers

CONSTANTS
  Projects,    \* the projects that may be configured: numbers, in the server's order
  Windows,     \* the numbers of windows
  Opened,      \* the windows each project has in the beginning
  Protected,   \* those that are not shells: the dashboard cannot close them
  MaxLoads,    \* bound: generations of loads
  MaxCalls,    \* bound: shells that the user opens or closes
  MaxForeign   \* bound: changes behind the dashboard's back

ASSUME WorkspaceAssumption ==
  /\ Projects \subseteq Nat \ {0} /\ Windows \subseteq Nat \ {0} /\ Protected \subseteq Windows
  /\ Opened \in [Projects -> SUBSET Windows]

VARIABLES
  known,      \* the projects the server lists
  server,     \* the windows of each project
  ui, view,   \* the state of the App: with what is queued, and as it was rendered last
  pending,    \* whether the effect of the last render is still to change the selection
  loads,      \* the loads under way
  calls,      \* the creations and closings under way
  loadGeneration, mutationGeneration, credentialGeneration,
  made,       \* how many creations and closings there were
  foreign,    \* how many changes by others
  settled     \* projects whose list was received, and which only this dashboard changed since

vars == <<known, server, ui, view, pending, loads, calls, loadGeneration, mutationGeneration,
          credentialGeneration, made, foreign, settled>>
generations == <<loadGeneration, mutationGeneration, credentialGeneration>>

NoProject == 0
NoWindow == 0
NoKey == <<NoProject, NoWindow>>
TerminalKey(p, w) == <<p, w>>

Least(S) == CHOOSE n \in S : \A m \in S : n <= m

Keys(lists, p) == IF p = NoProject THEN {} ELSE {TerminalKey(p, e.window) : e \in lists[p]}

HasTerminalInProject(lists, p, key) == key \in Keys(lists, p)

\* The entries of a list the server sends.
Listed(windows) == {[since |-> 0, window |-> w] : w \in windows}

Before(e, f) == e.since < f.since \/ (e.since = f.since /\ e.window <= f.window)
First(entries) == CHOOSE e \in entries : \A f \in entries : Before(e, f)

FirstTerminalKey(p, lists) ==
  IF Keys(lists, p) = {} THEN NoKey ELSE TerminalKey(p, First(lists[p]).window)

NoLists == [p \in Projects |-> {}]

\* What an App starts from, and starts from again when another token is applied.
Fresh == [projects |-> {}, lists |-> NoLists, project |-> NoProject, key |-> NoKey,
          loading |-> TRUE, refreshing |-> FALSE, busy |-> ""]

\* Mutant: a shell that is being opened or closed does not hold up the rest.
BlockedByLoads(s) == s.loading \/ s.refreshing

\* While a request is under way, the buttons and the callbacks of the others do nothing.
Blocked(s) == s.loading \/ s.refreshing \/ s.busy # ""

-----------------------------------------------------------------------------
(* Loads. *)

NewLoad(gen, refresh) ==
  [gen |-> gen, refresh |-> refresh, mutation |-> mutationGeneration, aborted |-> FALSE,
   stage |-> "projects", projects |-> {}, asked |-> {},
   lists |-> NoLists, missing |-> {}]

\* StrictMode runs the load effect twice; the first load is aborted.
Init ==
  /\ known \in (SUBSET Projects) \ {{}}
  /\ server = Opened
  /\ ui = Fresh /\ view = Fresh /\ pending = FALSE
  /\ mutationGeneration = 0 /\ credentialGeneration = 0
  /\ \/ loadGeneration = 1 /\ loads = {NewLoad(1, FALSE)}
     \/ loadGeneration = 2 /\ loads = {[NewLoad(1, FALSE) EXCEPT !.aborted = TRUE], NewLoad(2, FALSE)}
  /\ calls = {} /\ made = 0 /\ foreign = 0 /\ settled = {}

Replace(l, m) == loads' = (loads \ {l}) \cup {m}

Overtaken(l) == l.aborted \/ l.gen # loadGeneration

\* Mutant: the end of any load is taken for the end of a first one.
NotLoading(l, s) == [s EXCEPT !.loading = FALSE]

\* The end of the present load frees what its start blocked; that of another frees nothing.
LoadFinished(l, s) ==
  IF l.gen # loadGeneration THEN s
  ELSE IF l.refresh THEN [s EXCEPT !.refreshing = FALSE]
  ELSE [s EXCEPT !.loading = FALSE]

\* The server lists the projects; the terminals of each are asked for.
ProjectsAnswered(l) ==
  /\ l.stage = "projects" /\ ~l.aborted
  /\ IF Overtaken(l)
     THEN loads' = loads \ {l}
     ELSE Replace(l, [l EXCEPT !.stage = "terminals", !.projects = known, !.asked = known])
  /\ UNCHANGED <<known, server, ui, view, pending, calls, generations, made, foreign, settled>>

\* The request fails, or is aborted: the lists stay what they were.
ProjectsFail(l) ==
  /\ l.stage = "projects"
  /\ loads' = loads \ {l}
  /\ ui' = LoadFinished(l, ui)
  /\ UNCHANGED <<known, server, view, pending, calls, generations, made, foreign, settled>>

\* The server lists the terminals of a project, or fails to.
TerminalsAnswered(l, p) ==
  /\ l.stage = "terminals" /\ p \in l.asked
  /\ \/ /\ Replace(l, [l EXCEPT !.asked = @ \ {p}, !.lists[p] = Listed(server[p])])
        /\ settled' = IF Overtaken(l) THEN settled ELSE settled \cup {p}
     \/ /\ Replace(l, [l EXCEPT !.asked = @ \ {p}, !.missing = @ \cup {p}])
        /\ UNCHANGED settled
  /\ UNCHANGED <<known, server, ui, view, pending, calls, generations, made, foreign>>

\* The lists after a load: those that were received, over those that were there.
NextTerminals(l) ==
  [p \in Projects |-> IF p \in l.projects \ l.missing THEN l.lists[p] ELSE view.lists[p]]

\* The state after a load that was neither overtaken nor crossed by a creation or closing.
Loaded(l) ==
  LET lists == NextTerminals(l)
      project == IF view.project \in l.projects THEN view.project
                 ELSE IF l.projects = {} THEN NoProject ELSE Least(l.projects)
      key == IF HasTerminalInProject(lists, project, ui.key) THEN ui.key
             ELSE FirstTerminalKey(project, lists)
  IN [ui EXCEPT !.projects = l.projects, !.lists = lists, !.project = project, !.key = key]

\* The last list is in.
LoadEnds(l) ==
  /\ l.stage = "terminals" /\ l.asked = {}
  /\ loads' = loads \ {l}
  /\ ui' = LoadFinished(l, IF Overtaken(l) \/ l.mutation # mutationGeneration THEN ui ELSE Loaded(l))
  /\ UNCHANGED <<known, server, view, pending, calls, generations, made, foreign, settled>>

-----------------------------------------------------------------------------
(* Renders, the effect that follows them, and clicks. *)

Unlisted(s) == Keys(s.lists, s.project) # {} /\ s.key \notin Keys(s.lists, s.project)

\* Mutant: nothing is selected in place of a terminal that is gone.
AsSelected(s) == s

\* What the effect of the last render queues, if that did not list what was selected.
Reselected(s) == [s EXCEPT !.key = FirstTerminalKey(view.project, view.lists)]

\* An effect that is still to run is run before anything else is rendered.
Flushed(s) == IF pending THEN Reselected(s) ELSE s

Rendered(s) == view' = s /\ pending' = Unlisted(s)

\* What was queued is rendered.
Render ==
  /\ view # ui
  /\ ui' = Flushed(ui) /\ Rendered(ui')
  /\ UNCHANGED <<known, server, loads, calls, generations, made, foreign, settled>>

\* The effect sees the state that was rendered; answers may have come since.
Effect ==
  /\ pending
  /\ ui' = Flushed(ui) /\ pending' = FALSE
  /\ UNCHANGED <<known, server, view, loads, calls, generations, made, foreign, settled>>

\* What a click changes is rendered at once, with or without what was queued before.
Click(change(_)) ==
  /\ ui' = Flushed(change(ui))
  /\ Rendered(change(view)) \/ Rendered(ui')

SelectProject(p) ==
  /\ p \in view.projects
  /\ Click(LAMBDA s :
       [s EXCEPT !.project = p,
                 !.key = IF HasTerminalInProject(view.lists, p, s.key) THEN s.key
                         ELSE FirstTerminalKey(p, view.lists)])
  /\ UNCHANGED <<known, server, loads, calls, generations, made, foreign, settled>>

\* A click in the sidebar or on a tab, or a key on a tab.
SelectTerminal(p, w) ==
  /\ p \in view.projects /\ TerminalKey(p, w) \in Keys(view.lists, p)
  /\ Click(LAMBDA s : [s EXCEPT !.project = p, !.key = TerminalKey(p, w)])
  /\ UNCHANGED <<known, server, loads, calls, generations, made, foreign, settled>>

Refresh ==
  /\ ~Blocked(view) /\ loadGeneration < MaxLoads
  /\ loadGeneration' = loadGeneration + 1
  /\ loads' = loads \cup {NewLoad(loadGeneration', TRUE)}
  /\ Click(LAMBDA s : [s EXCEPT !.refreshing = TRUE])
  /\ UNCHANGED <<known, server, calls, mutationGeneration, credentialGeneration, made, foreign,
                 settled>>

\* Another token: everything is forgotten and loaded again, the loads of before are aborted.
ApplyToken ==
  /\ ~Blocked(view) /\ loadGeneration + 2 <= MaxLoads
  /\ credentialGeneration' = credentialGeneration + 1
  /\ loadGeneration' = loadGeneration + 2
  /\ loads' = {[l EXCEPT !.aborted = ~l.refresh \/ l.aborted] : l \in loads}
              \cup {NewLoad(loadGeneration', FALSE)}
  /\ Click(LAMBDA s : Fresh)
  /\ settled' = {}
  /\ UNCHANGED <<known, server, calls, mutationGeneration, made, foreign>>

-----------------------------------------------------------------------------
(* Opening and closing shells. *)

Call(kind, w, successor) ==
  [kind |-> kind, id |-> made', project |-> view.project, window |-> w, successor |-> successor,
   credential |-> credentialGeneration, handled |-> FALSE]

HandleCreateTerminal ==
  /\ view.project # NoProject /\ ~Blocked(view) /\ made < MaxCalls
  /\ made' = made + 1
  /\ calls' = calls \cup {Call("create", NoWindow, NoKey)}
  /\ Click(LAMBDA s : [s EXCEPT !.busy = "create"])
  /\ UNCHANGED <<known, server, loads, generations, foreign, settled>>

\* The shell that will be selected after the one that is closed: the first other one.
Successor(lists, p, w) ==
  LET others == {e \in lists[p] : e.window # w}
  IN IF others = {} THEN NoKey ELSE TerminalKey(p, First(others).window)

HandleCloseTerminal ==
  /\ view.project # NoProject /\ ~Blocked(view) /\ made < MaxCalls
  /\ HasTerminalInProject(view.lists, view.project, view.key) /\ view.key[2] \notin Protected
  /\ made' = made + 1
  /\ calls' = calls \cup {Call("delete", view.key[2], Successor(view.lists, view.project, view.key[2]))}
  /\ Click(LAMBDA s : [s EXCEPT !.busy = "delete"])
  /\ UNCHANGED <<known, server, loads, generations, foreign, settled>>

ReplaceCall(c, d) == calls' = (calls \ {c}) \cup {d}

\* The server opens a shell, under the first name that is free.
Created(c) ==
  /\ c.kind = "create" /\ ~c.handled
  /\ LET free == (Windows \ Protected) \ server[c.project]
     IN \E w \in free :
          /\ \A v \in free : w <= v
          /\ server' = [server EXCEPT ![c.project] = @ \cup {w}]
          /\ ReplaceCall(c, [c EXCEPT !.handled = TRUE, !.window = w])
  /\ UNCHANGED <<known, ui, view, pending, loads, generations, made, foreign, settled>>

\* The server closes a shell; one that is gone is as good as closed.
Deleted(c) ==
  /\ c.kind = "delete" /\ ~c.handled
  /\ server' = [server EXCEPT ![c.project] = @ \ {c.window}]
  /\ ReplaceCall(c, [c EXCEPT !.handled = TRUE])
  /\ UNCHANGED <<known, ui, view, pending, loads, generations, made, foreign, settled>>

IsCurrent(c) == c.credential = credentialGeneration

\* The state once a shell was opened.
AfterCreate(c) ==
  [ui EXCEPT !.lists[c.project] = @ \cup {[since |-> mutationGeneration + 1, window |-> c.window]},
             !.key = IF view.project = c.project THEN TerminalKey(c.project, c.window) ELSE @,
             !.busy = ""]

\* The state once a shell was closed.
AfterDelete(c) ==
  [ui EXCEPT !.lists[c.project] = {e \in @ : e.window # c.window},
             !.key = IF @ = TerminalKey(c.project, c.window) THEN c.successor ELSE @,
             !.busy = ""]

AfterCall(c) == IF c.kind = "create" THEN AfterCreate(c) ELSE AfterDelete(c)

CallAnswered(c) ==
  /\ c.handled
  /\ calls' = calls \ {c}
  /\ IF IsCurrent(c)
     THEN ui' = AfterCall(c) /\ mutationGeneration' = mutationGeneration + 1
     ELSE UNCHANGED <<ui, mutationGeneration>>
  /\ UNCHANGED <<known, server, view, pending, loads, loadGeneration, credentialGeneration, made, foreign,
                 settled>>

\* The server refuses, or the answer is lost: the lists stay what they were.
CallFails(c) ==
  /\ calls' = calls \ {c}
  /\ ui' = IF IsCurrent(c) THEN [ui EXCEPT !.busy = ""] ELSE ui
  /\ settled' = IF c.handled THEN settled \ {c.project} ELSE settled
  /\ UNCHANGED <<known, server, view, pending, loads, generations, made, foreign>>

\* Others open or close windows; a call whose connection was lost may be handled as late
\* as this.
OtherClient(p) ==
  /\ foreign < MaxForeign /\ foreign' = foreign + 1
  /\ \E w \in Windows :
       server' = [server EXCEPT ![p] = IF w \in @ THEN @ \ {w} ELSE @ \cup {w}]
  /\ settled' = settled \ {p}
  /\ UNCHANGED <<known, ui, view, pending, loads, calls, generations, made>>

\* The configuration is loaded again with other projects.
Reload ==
  /\ foreign < MaxForeign /\ foreign' = foreign + 1
  /\ known' \in SUBSET Projects
  /\ UNCHANGED <<server, ui, view, pending, loads, calls, generations, made, settled>>

-----------------------------------------------------------------------------
LoadSteps ==
  \E l \in loads : \/ ProjectsAnswered(l) \/ ProjectsFail(l) \/ LoadEnds(l)
                   \/ \E p \in Projects : TerminalsAnswered(l, p)

CallSteps == \E c \in calls : Created(c) \/ Deleted(c) \/ CallAnswered(c) \/ CallFails(c)

Next ==
  \/ LoadSteps \/ CallSteps \/ Render \/ Effect
  \/ Refresh \/ ApplyToken \/ HandleCreateTerminal \/ HandleCloseTerminal
  \/ \E p \in Projects : \/ SelectProject(p) \/ OtherClient(p)
                         \/ \E w \in Windows : SelectTerminal(p, w)
  \/ Reload

Spec == Init /\ [][Next]_vars

\* Every request is answered or fails in the end, and React renders and runs effects.
FairSpec ==
  Spec /\ WF_vars(LoadSteps) /\ WF_vars(CallSteps) /\ WF_vars(Render) /\ WF_vars(Effect)

-----------------------------------------------------------------------------
(* Properties. *)

Entries == [since : Nat, window : Windows]
SomeKeys == (Projects \cup {NoProject}) \X (Windows \cup {NoWindow})
Lists == [Projects -> SUBSET Entries]

States == [projects : SUBSET Projects, lists : Lists, project : Projects \cup {NoProject},
           key : SomeKeys, loading : BOOLEAN, refreshing : BOOLEAN, busy : {"", "create", "delete"}]

Loads == [gen : Nat, refresh : BOOLEAN, mutation : Nat, aborted : BOOLEAN,
          stage : {"projects", "terminals"}, projects : SUBSET Projects, asked : SUBSET Projects,
          lists : Lists, missing : SUBSET Projects]

Calls == [kind : {"create", "delete"}, id : Nat, project : Projects, window : Windows \cup {NoWindow},
          successor : SomeKeys, credential : Nat, handled : BOOLEAN]

TypeOK ==
  /\ known \subseteq Projects /\ server \in [Projects -> SUBSET Windows]
  /\ ui \in States /\ view \in States /\ pending \in BOOLEAN
  /\ loads \subseteq Loads /\ calls \subseteq Calls
  /\ \A c \in calls : c.window = NoWindow => c.kind = "create" /\ ~c.handled
  /\ loadGeneration \in Nat /\ mutationGeneration \in Nat /\ credentialGeneration \in Nat
  /\ made \in Nat /\ foreign \in Nat /\ settled \subseteq Projects

(* When nothing is under way, the terminals the dashboard lists of a project are those the   *)
(* server has, each of them once, unless someone else changed them since they were loaded or *)
(* the answer to a call was lost: whatever loads, failures of some of the lists, creations,  *)
(* closings and selections came in between.                                                  *)
InStep ==
  ~Blocked(view) =>
    \A p \in settled :
      /\ {e.window : e \in view.lists[p]} = server[p]
      /\ \A e, f \in view.lists[p] : e.window = f.window => e = f

(* A selection that is not a terminal of the selected project, which has some, is never the  *)
(* last word: its effect is still to run, or another render is due.  Clicks on what an       *)
(* answer has taken away, and answers between a render and its effect, are the hard cases.   *)
SelectionIsListed == Unlisted(view) => pending \/ ui # view

(* The buttons do not stay blocked once the requests under way are answered or have failed.  *)
NeverStuck == Blocked(view) ~> ~Blocked(view)

=============================================================================
