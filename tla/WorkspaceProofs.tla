--------------------------- MODULE WorkspaceProofs ---------------------------
(***************************************************************************)
(* Theorems about Workspace, for any projects, windows and bounds.         *)
(*                                                                         *)
(* InStep speaks of the moments when nothing is under way; the invariant   *)
(* that it follows from says what holds in between.  At most one request   *)
(* of the user is under way, and the App knows that it is: a load that is  *)
(* the present one excludes calls and finds the mutation generation it     *)
(* started with.  So what is rendered differs from what is queued only     *)
(* between an answer and its render, and what is still missing from a list *)
(* is exactly the call the server has handled.                             *)
(***************************************************************************)
EXTENDS Workspace, WellFoundedInduction, TLAPS

IsPresent(l) == l.gen = loadGeneration

Idle(s) == ~s.loading /\ ~s.refreshing

\* No load is of a later generation than the present one, and none has answers it did not ask for.
LoadsOrdered ==
  \A l \in loads : /\ l.gen <= loadGeneration
                   /\ l.stage = "projects" => l.asked = {} /\ l.missing = {}
                   /\ l.asked \subseteq l.projects \ l.missing

\* What the start of a load blocks, in a state s, and nothing else.
BlockedBy(l, s) == (s.loading <=> ~l.refresh) /\ (s.refreshing <=> l.refresh) /\ s.busy = ""

\* The present load is the only request.
PresentExcludes ==
  \A l \in loads : IsPresent(l) =>
    ~l.aborted /\ l.mutation = mutationGeneration /\ calls = {} /\ BlockedBy(l, ui)

OnePresent == \A l, m \in loads : IsPresent(l) /\ IsPresent(m) => l = m

LoadsExclude == LoadsOrdered /\ PresentExcludes /\ OnePresent

\* There is one call at most, of the present token, and it has blocked the others.
CallsExclude ==
  /\ \A c \in calls : /\ ui.busy # "" /\ Idle(ui)
                      /\ c.credential = credentialGeneration
  /\ \A c, d \in calls : c = d

\* Two states differ in what is selected, at most.
SameButKey(s, t) ==
  /\ s.projects = t.projects /\ s.lists = t.lists /\ s.project = t.project
  /\ s.loading = t.loading /\ s.refreshing = t.refreshing /\ s.busy = t.busy

\* What is queued and not rendered is what an answer or an effect brought.
RenderedWhenBlocked == Blocked(ui) \/ ~Blocked(view) => SameButKey(ui, view)

\* The present load has received the list of p.
Has(l, p) == IsPresent(l) /\ l.stage = "terminals" /\ p \in l.projects \ (l.asked \cup l.missing)

Names(list) == {e.window : e \in list}
Unique(list) == \A e, f \in list : e.window = f.window => e = f

\* The windows the server has once c was handled, where the dashboard lists names.
AccountedFor(c, names, windows) ==
  IF c.kind = "create" THEN c.window \notin names /\ windows = names \cup {c.window}
  ELSE windows = names \ {c.window}

\* A list is that of the server, but for a call that was handled and not answered.
InAccount(p) ==
  /\ Unique(ui.lists[p])
  /\ \A c \in calls : c.handled /\ c.project = p => AccountedFor(c, Names(ui.lists[p]), server[p])
  /\ (\A c \in calls : ~(c.handled /\ c.project = p)) => Names(ui.lists[p]) = server[p]

ListsAccounted ==
  \A p \in settled :
    /\ \A l \in loads : Has(l, p) => l.lists[p] = Listed(server[p])
    /\ (\A l \in loads : ~Has(l, p)) => InAccount(p)

Exclusion == LoadsExclude /\ CallsExclude /\ RenderedWhenBlocked

-----------------------------------------------------------------------------
(* Lists and keys *)

\* A set of numbers has a first one.
LEMMA LeastOne ==
  ASSUME NEW S \in SUBSET Nat, S # {}
  PROVE  \E n \in S : \A m \in S : n <= m
<1>1. IsWellFoundedOn(OpToRel(<, Nat), Nat)
  BY NatLessThanWellFounded
<1>2. PICK n \in S : \A m \in S : ~(<<m, n>> \in OpToRel(<, Nat))
  BY <1>1, WFMin
<1>3. \A m \in S : ~(m < n)
  BY <1>2 DEF OpToRel
<1>. QED  BY <1>3

LEMMA LeastIsIn ==
  ASSUME NEW S \in SUBSET Nat, S # {}
  PROVE  Least(S) \in S
BY LeastOne DEF Least

\* A list that is not empty has a first entry.
LEMMA FirstIsIn ==
  ASSUME NEW list \in SUBSET Entries, list # {}
  PROVE  First(list) \in list
<1>. DEFINE Since == {e.since : e \in list}
<1>1. Since \in SUBSET Nat /\ Since # {}
  BY DEF Entries
<1>2. PICK n \in Since : \A m \in Since : n <= m
  BY <1>1, LeastOne
<1>. DEFINE Earliest == {e \in list : e.since = n}
            Wins == {e.window : e \in Earliest}
<1>7. Windows \subseteq Nat
  BY WorkspaceAssumption
<1>3. Wins \in SUBSET Nat /\ Wins # {}
  <2>1. Earliest # {} /\ \A e \in Earliest : e.window \in Windows
    BY <1>2 DEF Entries
  <2>. QED  BY <1>7, <2>1
<1>4. PICK w \in Wins : \A v \in Wins : w <= v
  BY <1>3, LeastOne
<1>5. PICK e \in Earliest : e.window = w
  BY <1>4
<1>6. ASSUME NEW f \in list
      PROVE  Before(e, f)
  <2>1. f.since \in Nat /\ n \in Nat /\ n <= f.since /\ e.since = n
    BY <1>1, <1>2, <1>5
  <2>2. CASE f.since = n
    BY <2>1, <2>2, <1>4, <1>5 DEF Before
  <2>3. CASE f.since # n
    BY <2>1, <2>3 DEF Before
  <2>. QED  BY <2>2, <2>3
<1>. QED  BY <1>5, <1>6 DEF First

LEMMA KeysTyped ==
  ASSUME NEW lists \in Lists, NEW p \in Projects \cup {NoProject}
  PROVE  Keys(lists, p) \subseteq SomeKeys
BY DEF Keys, TerminalKey, SomeKeys, Lists, Entries

\* firstTerminalKey is a key of the list, unless it is empty.
LEMMA FirstKey ==
  ASSUME NEW lists \in Lists, NEW p \in Projects \cup {NoProject}
  PROVE  /\ FirstTerminalKey(p, lists) \in SomeKeys
         /\ Keys(lists, p) # {} => FirstTerminalKey(p, lists) \in Keys(lists, p)
<1>1. CASE Keys(lists, p) = {}
  BY <1>1 DEF FirstTerminalKey, NoKey, SomeKeys
<1>2. CASE Keys(lists, p) # {}
  <2>1. p \in Projects /\ lists[p] # {} /\ lists[p] \in SUBSET Entries
    BY <1>2 DEF Keys, Lists
  <2>2. First(lists[p]) \in lists[p]
    BY <2>1, FirstIsIn
  <2>3. p # NoProject
    BY <1>2 DEF Keys
  <2>4. TerminalKey(p, First(lists[p]).window) \in Keys(lists, p)
    BY <2>2, <2>3 DEF Keys
  <2>. QED  BY <2>4, <1>2, KeysTyped DEF FirstTerminalKey
<1>. QED  BY <1>1, <1>2

\* The effect after a render changes the key alone.
LEMMA FlushedKey ==
  ASSUME TypeOK, NEW s \in States
  PROVE  Flushed(s) \in States /\ SameButKey(Flushed(s), s)
<1>1. view.lists \in Lists /\ view.project \in Projects \cup {NoProject}
  BY DEF TypeOK, States
<1>2. FirstTerminalKey(view.project, view.lists) \in SomeKeys
  BY <1>1, FirstKey
<1>. QED  BY <1>2 DEF Flushed, Reselected, SameButKey, States

\* A click and its render: both states are changed, but for the key.
LEMMA ClickKey ==
  ASSUME TypeOK, NEW s \in States, NEW t \in States,
         ui' = Flushed(s), Rendered(t) \/ Rendered(ui')
  PROVE  /\ ui' \in States /\ view' \in States /\ pending' \in BOOLEAN
         /\ SameButKey(ui', s)
         /\ SameButKey(s, t) => SameButKey(ui', view')
         /\ view' = t \/ view' = ui'
         /\ pending' = Unlisted(view')
BY FlushedKey DEF Rendered, Unlisted, SameButKey

-----------------------------------------------------------------------------
(* Types *)

LEMMA LoadedTyped ==
  ASSUME TypeOK, NEW l \in loads
  PROVE  Loaded(l) \in States
<1>. DEFINE lists == NextTerminals(l)
            project == IF view.project \in l.projects THEN view.project
                       ELSE IF l.projects = {} THEN NoProject ELSE Least(l.projects)
            key == IF HasTerminalInProject(lists, project, ui.key) THEN ui.key
                   ELSE FirstTerminalKey(project, lists)
<1>1. l \in Loads /\ ui \in States /\ view \in States
  BY DEF TypeOK
<1>2. l.projects \in SUBSET Projects /\ l.projects \in SUBSET Nat
  BY <1>1, WorkspaceAssumption DEF Loads
<1>3. lists \in Lists
  BY <1>1 DEF NextTerminals, Lists, Loads, States
<1>4. project \in Projects \cup {NoProject}
  BY <1>1, <1>2, LeastIsIn
<1>5. key \in SomeKeys
  BY <1>1, <1>3, <1>4, FirstKey DEF States
<1>. HIDE DEF lists, project, key
<1>6. [ui EXCEPT !.projects = l.projects, !.lists = lists, !.project = project, !.key = key] \in States
  BY <1>1, <1>2, <1>3, <1>4, <1>5 DEF States
<1>. QED  BY <1>6 DEF Loaded, lists, project, key

\* What an answer to a call changes: the list of its project, the key and what is blocked.
LEMMA AfterCallTyped ==
  ASSUME TypeOK, NEW c \in Calls, c.window \in Windows
  PROVE  AfterCall(c) \in States
<1>. DEFINE p == c.project
            e == [since |-> mutationGeneration + 1, window |-> c.window]
            more == [ui.lists EXCEPT ![p] = @ \cup {e}]
            less == [ui.lists EXCEPT ![p] = {f \in @ : f.window # c.window}]
<1>1. ui \in States /\ ui.lists \in Lists /\ p \in Projects /\ c.successor \in SomeKeys
  BY DEF TypeOK, Calls, States
<1>2. e \in Entries
  BY DEF Entries, TypeOK
<1>3. more \in Lists /\ less \in Lists
  BY <1>1, <1>2 DEF Lists
<1>4. TerminalKey(p, c.window) \in SomeKeys
  BY <1>1 DEF TerminalKey, SomeKeys
<1>5. AfterCall(c) =
        IF c.kind = "create"
        THEN [ui EXCEPT !.lists = more,
                        !.key = IF view.project = p THEN TerminalKey(p, c.window) ELSE @,
                        !.busy = ""]
        ELSE [ui EXCEPT !.lists = less,
                        !.key = IF @ = TerminalKey(p, c.window) THEN c.successor ELSE @,
                        !.busy = ""]
  BY <1>1 DEF AfterCall, AfterCreate, AfterDelete, States
<1>. HIDE DEF more, less, p
<1>. QED  BY <1>1, <1>3, <1>4, <1>5 DEF States

LEMMA LoadFinishedTyped ==
  ASSUME NEW s \in States, NEW l
  PROVE  LoadFinished(l, s) \in States
BY DEF LoadFinished, States

LEMMA NewLoadTyped ==
  ASSUME mutationGeneration \in Nat, NEW gen \in Nat, NEW refresh \in BOOLEAN
  PROVE  NewLoad(gen, refresh) \in Loads
BY DEF NewLoad, Loads, NoLists, Lists

LEMMA FreshTyped == Fresh \in States
BY DEF Fresh, States, NoLists, Lists, NoKey, SomeKeys

LEMMA InitTyped == Init => TypeOK
<1>. SUFFICES ASSUME Init PROVE TypeOK
  OBVIOUS
<1>1. NewLoad(1, FALSE) \in Loads /\ NewLoad(2, FALSE) \in Loads
  BY NewLoadTyped DEF Init
<1>2. [NewLoad(1, FALSE) EXCEPT !.aborted = TRUE] \in Loads
  BY <1>1 DEF Loads
<1>3. server \in [Projects -> SUBSET Windows]
  BY WorkspaceAssumption DEF Init
<1>4. loads \subseteq Loads
  BY <1>1, <1>2 DEF Init
<1>5. calls \subseteq Calls /\ ui \in States /\ view \in States /\ pending \in BOOLEAN
  BY FreshTyped DEF Init
<1>6. known \subseteq Projects /\ settled \subseteq Projects
  BY DEF Init
<1>7. loadGeneration = 1 \/ loadGeneration = 2
  BY Zenon DEF Init
<1>8. mutationGeneration = 0 /\ credentialGeneration = 0 /\ made = 0 /\ foreign = 0 /\ calls = {}
  BY Zenon DEF Init
<1>. QED  BY <1>3, <1>4, <1>5, <1>6, <1>7, <1>8 DEF TypeOK

\* The steps of loads.
LEMMA LoadsTyped ==
  ASSUME TypeOK, LoadSteps
  PROVE  TypeOK'
<1>. USE DEF TypeOK, generations
<1>1. PICK l \in loads : \/ ProjectsAnswered(l) \/ ProjectsFail(l) \/ LoadEnds(l)
                         \/ \E p \in Projects : TerminalsAnswered(l, p)
  BY DEF LoadSteps
<1>2. l \in Loads
  OBVIOUS
<1>3. CASE ProjectsAnswered(l)
  <2>1. [l EXCEPT !.stage = "terminals", !.projects = known, !.asked = known] \in Loads
    BY <1>2 DEF Loads
  <2>2. loads' \subseteq Loads
    BY <1>3, <2>1 DEF ProjectsAnswered, Replace
  <2>. QED  BY <1>3, <2>2 DEF ProjectsAnswered
<1>4. CASE ProjectsFail(l)
  BY <1>4, LoadFinishedTyped DEF ProjectsFail
<1>5. CASE LoadEnds(l)
  <2>1. ui' \in States
    BY <1>5, LoadFinishedTyped, LoadedTyped DEF LoadEnds
  <2>. QED  BY <1>5, <2>1 DEF LoadEnds
<1>6. ASSUME NEW p \in Projects, TerminalsAnswered(l, p)
      PROVE  TypeOK'
  <2>1. Listed(server[p]) \in SUBSET Entries
    BY DEF Listed, Entries
  <2>2. [l EXCEPT !.asked = @ \ {p}, !.lists[p] = Listed(server[p])] \in Loads
    BY <1>2, <2>1 DEF Loads, Lists
  <2>3. [l EXCEPT !.asked = @ \ {p}, !.missing = @ \cup {p}] \in Loads
    BY <1>2 DEF Loads
  <2>4. loads' \subseteq Loads /\ settled' \subseteq Projects
    BY <1>6, <2>2, <2>3 DEF TerminalsAnswered, Replace
  <2>. QED  BY <1>6, <2>4 DEF TerminalsAnswered
<1>. QED  BY <1>1, <1>3, <1>4, <1>5, <1>6

\* The steps of calls.
LEMMA CallsTyped ==
  ASSUME TypeOK, CallSteps
  PROVE  TypeOK'
<1>. USE DEF TypeOK, generations
<1>1. PICK c \in calls : Created(c) \/ Deleted(c) \/ CallAnswered(c) \/ CallFails(c)
  BY DEF CallSteps
<1>2. c \in Calls
  OBVIOUS
<1>3. CASE Created(c)
  <2>1. PICK w \in (Windows \ Protected) \ server[c.project] :
               /\ server' = [server EXCEPT ![c.project] = @ \cup {w}]
               /\ ReplaceCall(c, [c EXCEPT !.handled = TRUE, !.window = w])
    BY <1>3 DEF Created
  <2>. DEFINE d == [c EXCEPT !.handled = TRUE, !.window = w]
  <2>2. d \in Calls /\ d.window # NoWindow
    BY <1>2, WorkspaceAssumption DEF Calls, NoWindow
  <2>3. server' \in [Projects -> SUBSET Windows]
    BY <1>2, <2>1 DEF Calls
  <2>4. calls' = (calls \ {c}) \cup {d}
    BY <2>1 DEF ReplaceCall
  <2>. HIDE DEF d
  <2>. QED  BY <1>3, <2>2, <2>3, <2>4 DEF Created
<1>4. CASE Deleted(c)
  <2>. DEFINE d == [c EXCEPT !.handled = TRUE]
  <2>1. d \in Calls /\ d.window # NoWindow
    BY <1>2, <1>4 DEF Calls, Deleted
  <2>2. server' \in [Projects -> SUBSET Windows]
    BY <1>2, <1>4 DEF Calls, Deleted
  <2>3. calls' = (calls \ {c}) \cup {d}
    BY <1>4 DEF Deleted, ReplaceCall
  <2>. HIDE DEF d
  <2>. QED  BY <1>4, <2>1, <2>2, <2>3 DEF Deleted
<1>5. CASE CallFails(c)
  BY <1>5 DEF CallFails, States
<1>6. CASE CallAnswered(c)
  <2>1. c.window \in Windows
    BY <1>2, <1>6 DEF CallAnswered, Calls
  <2>2. AfterCall(c) \in States
    BY <1>2, <2>1, AfterCallTyped
  <2>. QED  BY <1>6, <2>2 DEF CallAnswered
<1>. QED  BY <1>1, <1>3, <1>4, <1>5, <1>6

\* Renders, effects and clicks.
LEMMA ClicksTyped ==
  ASSUME TypeOK,
         \/ Render \/ Effect \/ Refresh \/ ApplyToken
         \/ \E p \in Projects : SelectProject(p) \/ \E w \in Windows : SelectTerminal(p, w)
  PROVE  TypeOK'
<1>. USE DEF TypeOK, generations
<1>1. CASE Render \/ Effect
  BY <1>1, FlushedKey DEF Render, Effect, Rendered, Unlisted
<1>2. ASSUME NEW p \in Projects, SelectProject(p)
      PROVE  TypeOK'
  <2>. DEFINE f(s) == [s EXCEPT !.project = p,
                                !.key = IF HasTerminalInProject(view.lists, p, s.key) THEN s.key
                                        ELSE FirstTerminalKey(p, view.lists)]
  <2>1. view.lists \in Lists
    BY DEF States
  <2>2. FirstTerminalKey(p, view.lists) \in SomeKeys
    BY <2>1, FirstKey
  <2>3. f(ui) \in States /\ f(view) \in States
    BY <2>2 DEF States
  <2>4. ui' = Flushed(f(ui)) /\ (Rendered(f(view)) \/ Rendered(ui'))
    BY <1>2 DEF SelectProject, Click
  <2>. HIDE DEF f
  <2>5. ui' \in States /\ view' \in States /\ pending' \in BOOLEAN
    BY <2>3, <2>4, ClickKey
  <2>. QED  BY <1>2, <2>5 DEF SelectProject
<1>3. ASSUME NEW p \in Projects, NEW w \in Windows, SelectTerminal(p, w)
      PROVE  TypeOK'
  <2>. DEFINE f(s) == [s EXCEPT !.project = p, !.key = TerminalKey(p, w)]
  <2>3. f(ui) \in States /\ f(view) \in States
    BY DEF States, TerminalKey, SomeKeys
  <2>4. ui' = Flushed(f(ui)) /\ (Rendered(f(view)) \/ Rendered(ui'))
    BY <1>3 DEF SelectTerminal, Click
  <2>. HIDE DEF f
  <2>5. ui' \in States /\ view' \in States /\ pending' \in BOOLEAN
    BY <2>3, <2>4, ClickKey
  <2>. QED  BY <1>3, <2>5 DEF SelectTerminal
<1>4. CASE Refresh
  <2>3. loadGeneration' \in Nat
    BY <1>4 DEF Refresh
  <2>4. NewLoad(loadGeneration', TRUE) \in Loads
    BY <2>3, NewLoadTyped
  <2>1. loads' \subseteq Loads
    BY <1>4, <2>4 DEF Refresh
  <2>5. [ui EXCEPT !.refreshing = TRUE] \in States /\ [view EXCEPT !.refreshing = TRUE] \in States
    BY DEF States
  <2>2. ui' \in States /\ view' \in States /\ pending' \in BOOLEAN
    BY <1>4, <2>5, ClickKey DEF Refresh, Click
  <2>. QED  BY <1>4, <2>1, <2>2, <2>3 DEF Refresh
<1>5. CASE ApplyToken
  <2>4. loadGeneration' \in Nat /\ credentialGeneration' \in Nat
    BY <1>5 DEF ApplyToken
  <2>1. NewLoad(loadGeneration', FALSE) \in Loads
    BY <2>4, NewLoadTyped
  <2>2. \A l \in loads : [l EXCEPT !.aborted = ~l.refresh \/ l.aborted] \in Loads
    BY DEF Loads
  <2>3. loads' \subseteq Loads
    BY <1>5, <2>1, <2>2 DEF ApplyToken
  <2>5. ui' \in States /\ view' \in States /\ pending' \in BOOLEAN
    BY <1>5, FreshTyped, ClickKey DEF ApplyToken, Click
  <2>. QED  BY <1>5, <2>3, <2>4, <2>5 DEF ApplyToken
<1>. QED  BY <1>1, <1>2, <1>3, <1>4, <1>5

\* The start of a call, and what others do.
LEMMA StartsTyped ==
  ASSUME TypeOK,
         \/ HandleCreateTerminal \/ HandleCloseTerminal \/ Reload
         \/ \E p \in Projects : OtherClient(p)
  PROVE  TypeOK'
<1>. USE DEF TypeOK, generations
<1>1. CASE HandleCreateTerminal
  <2>1. view.project \in Projects /\ NoKey \in SomeKeys
    BY <1>1 DEF HandleCreateTerminal, States, NoKey, SomeKeys
  <2>2. Call("create", NoWindow, NoKey) \in Calls
    BY <1>1, <2>1 DEF HandleCreateTerminal, Call, Calls
  <2>3. /\ Call("create", NoWindow, NoKey).kind = "create"
        /\ Call("create", NoWindow, NoKey).handled = FALSE
    BY DEF Call
  <2>5. [ui EXCEPT !.busy = "create"] \in States /\ [view EXCEPT !.busy = "create"] \in States
    BY DEF States
  <2>4. ui' \in States /\ view' \in States /\ pending' \in BOOLEAN
    BY <1>1, <2>5, ClickKey DEF HandleCreateTerminal, Click
  <2>. QED  BY <1>1, <2>2, <2>3, <2>4 DEF HandleCreateTerminal
<1>2. CASE HandleCloseTerminal
  <2>. DEFINE w == view.key[2]
              c == Call("delete", w, Successor(view.lists, view.project, w))
  <2>1. view.project \in Projects /\ view.lists \in Lists
    BY <1>2 DEF HandleCloseTerminal, States
  <2>2. w \in Windows
    BY <1>2, <2>1 DEF HandleCloseTerminal, HasTerminalInProject, Keys, TerminalKey, Lists, Entries
  <2>3. Successor(view.lists, view.project, w) \in SomeKeys
    <3>. DEFINE others == {e \in view.lists[view.project] : e.window # w}
    <3>1. others \in SUBSET Entries
      BY <2>1 DEF Lists
    <3>2. CASE others = {}
      BY <3>2 DEF Successor, NoKey, SomeKeys
    <3>3. CASE others # {}
      <4>1. First(others) \in Entries
        BY <3>1, <3>3, FirstIsIn
      <4>2. TerminalKey(view.project, First(others).window) \in SomeKeys
        BY <4>1, <2>1 DEF TerminalKey, SomeKeys, Entries
      <4>. QED  BY <3>3, <4>2 DEF Successor
    <3>. QED  BY <3>2, <3>3
  <2>4. c \in Calls /\ c.window # NoWindow
    BY <1>2, <2>1, <2>2, <2>3, WorkspaceAssumption DEF HandleCloseTerminal, Call, Calls, NoWindow
  <2>6. [ui EXCEPT !.busy = "delete"] \in States /\ [view EXCEPT !.busy = "delete"] \in States
    BY DEF States
  <2>5. ui' \in States /\ view' \in States /\ pending' \in BOOLEAN
    BY <1>2, <2>6, ClickKey DEF HandleCloseTerminal, Click
  <2>. QED  BY <1>2, <2>4, <2>5 DEF HandleCloseTerminal
<1>3. ASSUME NEW p \in Projects, OtherClient(p)
      PROVE  TypeOK'
  BY <1>3 DEF OtherClient
<1>4. CASE Reload
  BY <1>4 DEF Reload
<1>. QED  BY <1>1, <1>2, <1>3, <1>4

\* No step leaves the types.
LEMMA NextTyped == TypeOK /\ [Next]_vars => TypeOK'
<1>1. ASSUME TypeOK, UNCHANGED vars
      PROVE  TypeOK'
  BY <1>1 DEF vars, TypeOK
<1>. QED  BY <1>1, LoadsTyped, CallsTyped, ClicksTyped, StartsTyped DEF Next

(* Every variable keeps its type; a call that was handled names a window.                    *)
THEOREM TypeCorrect == Spec => []TypeOK
BY InitTyped, NextTyped, PTL DEF Spec

-----------------------------------------------------------------------------
(* One request at a time *)

LEMMA InitExcluded == Init => Exclusion
<1>. SUFFICES ASSUME Init PROVE Exclusion
  OBVIOUS
<1>1. ui = Fresh /\ view = Fresh /\ calls = {} /\ mutationGeneration = 0
  BY DEF Init
<1>2. \/ loadGeneration = 1 /\ loads = {NewLoad(1, FALSE)}
      \/ loadGeneration = 2 /\ loads = {[NewLoad(1, FALSE) EXCEPT !.aborted = TRUE], NewLoad(2, FALSE)}
  BY Zenon DEF Init
<1>. DEFINE old == [NewLoad(1, FALSE) EXCEPT !.aborted = TRUE]
            new == NewLoad(loadGeneration, FALSE)
<1>4. old.gen = 1 /\ old.stage = "projects" /\ old.asked = {} /\ old.missing = {}
  BY DEF NewLoad
<1>5. /\ new.gen = loadGeneration /\ new.stage = "projects" /\ new.asked = {} /\ new.missing = {}
      /\ ~new.aborted /\ new.mutation = mutationGeneration /\ ~new.refresh
  BY DEF NewLoad
<1>6. ui.loading /\ ~ui.refreshing /\ ui.busy = ""
  BY <1>1 DEF Fresh
<1>7. /\ loadGeneration \in {1, 2}
      /\ \A l \in loads : l = new \/ (l = old /\ loadGeneration = 2)
  BY <1>2
<1>. HIDE DEF old, new
<1>8. LoadsOrdered
  BY <1>4, <1>5, <1>7 DEF LoadsOrdered
<1>9. PresentExcludes
  <2>. SUFFICES ASSUME NEW l \in loads, l.gen = loadGeneration
                PROVE  ~l.aborted /\ l.mutation = mutationGeneration /\ calls = {} /\ BlockedBy(l, ui)
    BY DEF PresentExcludes, BlockedBy, IsPresent
  <2>1. l = new
    BY <1>4, <1>7
  <2>. QED  BY <2>1, <1>1, <1>5, <1>6 DEF BlockedBy
<1>10. OnePresent
  BY <1>4, <1>5, <1>7 DEF OnePresent, IsPresent
<1>3. LoadsExclude
  BY <1>8, <1>9, <1>10 DEF LoadsExclude
<1>. QED  BY <1>1, <1>3 DEF Exclusion, CallsExclude, RenderedWhenBlocked, SameButKey

\* A load goes on: what identifies it stays.
LEMMA LoadGoesOn ==
  ASSUME TypeOK, Exclusion, NEW l \in loads, NEW m,
         m.gen = l.gen, m.refresh = l.refresh, m.mutation = l.mutation, m.aborted = l.aborted,
         m.stage = "terminals", m.asked \subseteq m.projects \ m.missing,
         Replace(l, m), UNCHANGED <<ui, view, calls, generations>>
  PROVE  Exclusion'
<1>. USE DEF Exclusion, generations, IsPresent
<1>3. \A k \in loads' : k = m \/ (k \in loads /\ k # l)
  BY DEF Replace
<1>4. LoadsOrdered'
  BY <1>3 DEF LoadsExclude, LoadsOrdered, PresentExcludes, BlockedBy, OnePresent
<1>5. PresentExcludes'
  BY <1>3 DEF LoadsExclude, PresentExcludes, BlockedBy
<1>6. OnePresent'
  BY <1>3 DEF LoadsExclude, OnePresent
<1>1. LoadsExclude'
  BY <1>4, <1>5, <1>6 DEF LoadsExclude
<1>2. CallsExclude' /\ RenderedWhenBlocked'
  BY DEF CallsExclude, RenderedWhenBlocked, Idle, Blocked
<1>. QED  BY <1>1, <1>2

\* A load is over: if it is the present one, nothing is under way any more.
LEMMA LoadIsOver ==
  ASSUME TypeOK, Exclusion, NEW l \in loads, NEW s \in States,
         s.loading = ui.loading, s.refreshing = ui.refreshing, s.busy = ui.busy,
         IsPresent(l) \/ s = ui,
         loads' = loads \ {l}, ui' = LoadFinished(l, s), UNCHANGED <<view, calls, generations>>
  PROVE  Exclusion'
<1>. USE DEF Exclusion, generations, IsPresent
<1>1. CASE ~IsPresent(l)
  <2>1. ui' = ui
    BY <1>1 DEF LoadFinished
  <2>. QED  BY <2>1 DEF LoadsExclude, LoadsOrdered, PresentExcludes, BlockedBy, OnePresent, CallsExclude, RenderedWhenBlocked, Idle, Blocked
<1>2. CASE IsPresent(l)
  <2>1. l.refresh \in BOOLEAN
    BY DEF TypeOK, Loads
  <2>2. ~ui'.loading /\ ~ui'.refreshing /\ ui'.busy = "" /\ calls = {}
    BY <1>2, <2>1 DEF LoadFinished, LoadsExclude, LoadsOrdered, PresentExcludes, BlockedBy, OnePresent, States
  <2>3. Blocked(ui) /\ Blocked(view)
    BY <1>2, <2>1 DEF LoadsExclude, LoadsOrdered, PresentExcludes, BlockedBy, OnePresent, RenderedWhenBlocked, SameButKey, Blocked
  <2>4. RenderedWhenBlocked'
    BY <2>2, <2>3 DEF RenderedWhenBlocked, Blocked
  <2>5. \A m \in loads' : ~(IsPresent(m)')
    BY <1>2 DEF LoadsExclude, LoadsOrdered, PresentExcludes, BlockedBy, OnePresent
  <2>6. LoadsExclude'
    BY <2>5 DEF LoadsExclude, LoadsOrdered, PresentExcludes, BlockedBy, OnePresent
  <2>. QED  BY <2>2, <2>4, <2>6 DEF CallsExclude
<1>. QED  BY <1>1, <1>2

\* What a load changes of the state, apart from what it blocked.
LEMMA LoadedFlags ==
  ASSUME TypeOK, NEW l
  PROVE  LET t == Loaded(l)
         IN /\ t.loading = ui.loading /\ t.refreshing = ui.refreshing /\ t.busy = ui.busy
            /\ t.lists = NextTerminals(l)
BY DEF Loaded, TypeOK, States

LEMMA LoadStepsExclude ==
  ASSUME TypeOK, Exclusion, LoadSteps
  PROVE  Exclusion'
<1>1. PICK l \in loads : \/ ProjectsAnswered(l) \/ ProjectsFail(l) \/ LoadEnds(l)
                         \/ \E p \in Projects : TerminalsAnswered(l, p)
  BY DEF LoadSteps
<1>2. l \in Loads /\ ui \in States
  BY DEF TypeOK
<1>3. /\ l.stage = "projects" => l.asked = {} /\ l.missing = {}
      /\ l.asked \subseteq l.projects \ l.missing
      /\ IsPresent(l) => ~l.aborted
  BY DEF Exclusion, LoadsExclude, LoadsOrdered, PresentExcludes, BlockedBy
<1>4. CASE ProjectsAnswered(l)
  <2>1. CASE Overtaken(l)
    <3>1. ~IsPresent(l)
      BY <1>3, <2>1 DEF Overtaken, IsPresent
    <3>2. loads' = loads \ {l} /\ ui' = LoadFinished(l, ui)
      BY <1>4, <2>1, <3>1 DEF ProjectsAnswered, LoadFinished, IsPresent
    <3>. QED  BY <1>2, <1>4, <3>2, LoadIsOver DEF ProjectsAnswered
  <2>2. CASE ~Overtaken(l)
    <3>. DEFINE m == [l EXCEPT !.stage = "terminals", !.projects = known, !.asked = known]
    <3>1. /\ m.gen = l.gen /\ m.refresh = l.refresh /\ m.mutation = l.mutation
          /\ m.aborted = l.aborted /\ m.stage = "terminals" /\ m.asked = known
          /\ m.projects = known /\ m.missing = l.missing
      BY <1>2 DEF Loads
    <3>2. Replace(l, m) /\ l.missing = {}
      BY <1>3, <1>4, <2>2 DEF ProjectsAnswered
    <3>. HIDE DEF m
    <3>. QED  BY <1>4, <3>1, <3>2, LoadGoesOn DEF ProjectsAnswered
  <2>. QED  BY <2>1, <2>2
<1>5. CASE ProjectsFail(l)
  BY <1>2, <1>5, LoadIsOver DEF ProjectsFail
<1>6. CASE LoadEnds(l)
  <2>. DEFINE s == IF Overtaken(l) \/ l.mutation # mutationGeneration THEN ui ELSE Loaded(l)
  <2>1. s \in States /\ s.loading = ui.loading /\ s.refreshing = ui.refreshing /\ s.busy = ui.busy
    BY <1>2, LoadedTyped, LoadedFlags
  <2>2. IsPresent(l) \/ s = ui
    BY DEF Overtaken, IsPresent
  <2>3. ui' = LoadFinished(l, s) /\ loads' = loads \ {l}
    BY <1>6 DEF LoadEnds
  <2>. HIDE DEF s
  <2>. QED  BY <1>6, <2>1, <2>2, <2>3, LoadIsOver DEF LoadEnds
<1>7. ASSUME NEW p \in Projects, TerminalsAnswered(l, p)
      PROVE  Exclusion'
  <2>1. PICK m : /\ Replace(l, m)
                 /\ \/ m = [l EXCEPT !.asked = @ \ {p}, !.lists[p] = Listed(server[p])]
                    \/ m = [l EXCEPT !.asked = @ \ {p}, !.missing = @ \cup {p}]
    BY <1>7 DEF TerminalsAnswered
  <2>2. /\ m.gen = l.gen /\ m.refresh = l.refresh /\ m.mutation = l.mutation
        /\ m.aborted = l.aborted /\ m.stage = l.stage /\ m.asked = l.asked \ {p}
        /\ m.projects = l.projects /\ m.missing \subseteq l.missing \cup {p}
    BY <1>2, <2>1 DEF Loads
  <2>3. l.stage = "terminals" /\ UNCHANGED <<ui, view, calls, generations>>
    BY <1>7 DEF TerminalsAnswered
  <2>4. m.asked \subseteq m.projects \ m.missing
    BY <1>3, <2>2
  <2>. QED  BY <2>1, <2>2, <2>3, <2>4, LoadGoesOn
<1>. QED  BY <1>1, <1>4, <1>5, <1>6, <1>7

\* A call that is answered, or has failed, was the only request.
LEMMA CallIsOver ==
  ASSUME TypeOK, Exclusion, NEW c \in calls,
         calls' = calls \ {c}, ui'.loading = ui.loading, ui'.refreshing = ui.refreshing,
         ui'.busy = "", UNCHANGED <<view, loads, loadGeneration, credentialGeneration>>
  PROVE  Exclusion'
<1>. USE DEF Exclusion, IsPresent
<1>1. calls' = {} /\ Idle(ui) /\ ui.busy # ""
  BY DEF CallsExclude
<1>2. Blocked(view)
  BY <1>1 DEF RenderedWhenBlocked, SameButKey, Blocked
<1>3. RenderedWhenBlocked'
  BY <1>1, <1>2 DEF RenderedWhenBlocked, Blocked, Idle
<1>4. \A l \in loads : l.gen # loadGeneration
  BY DEF LoadsExclude, LoadsOrdered, PresentExcludes, BlockedBy, OnePresent
<1>5. LoadsExclude'
  BY <1>4 DEF LoadsExclude, LoadsOrdered, PresentExcludes, BlockedBy, OnePresent
<1>. QED  BY <1>1, <1>3, <1>5 DEF CallsExclude

LEMMA AfterCallFlags ==
  ASSUME TypeOK, NEW c
  PROVE  LET t == AfterCall(c)
         IN t.loading = ui.loading /\ t.refreshing = ui.refreshing /\ t.busy = ""
BY DEF AfterCall, AfterCreate, AfterDelete, TypeOK, States

LEMMA CallStepsExclude ==
  ASSUME TypeOK, Exclusion, CallSteps
  PROVE  Exclusion'
<1>1. PICK c \in calls : Created(c) \/ Deleted(c) \/ CallAnswered(c) \/ CallFails(c)
  BY DEF CallSteps
<1>2. c \in Calls /\ IsCurrent(c) /\ ui \in States
  BY DEF Exclusion, CallsExclude, TypeOK, IsCurrent
<1>3. CASE Created(c) \/ Deleted(c)
  <2>1. PICK d : calls' = (calls \ {c}) \cup {d} /\ d.credential = c.credential
    <3>1. CASE Created(c)
      <4>1. PICK w : ReplaceCall(c, [c EXCEPT !.handled = TRUE, !.window = w])
        BY <3>1 DEF Created
      <4>2. [c EXCEPT !.handled = TRUE, !.window = w].credential = c.credential
        BY <1>2 DEF Calls
      <4>. QED  BY <4>1, <4>2 DEF ReplaceCall
    <3>2. CASE Deleted(c)
      <4>1. [c EXCEPT !.handled = TRUE].credential = c.credential
        BY <1>2 DEF Calls
      <4>. QED  BY <3>2, <4>1 DEF Deleted, ReplaceCall
    <3>. QED  BY <1>3, <3>1, <3>2
  <2>2. UNCHANGED <<ui, view, loads, loadGeneration, mutationGeneration, credentialGeneration>>
    BY <1>3 DEF Created, Deleted, generations
  <2>3. \A l \in loads : l.gen # loadGeneration
    BY DEF Exclusion, LoadsExclude, LoadsOrdered, PresentExcludes, BlockedBy, OnePresent, IsPresent
  <2>4. LoadsExclude'
    BY <2>2, <2>3 DEF Exclusion, LoadsExclude, LoadsOrdered, PresentExcludes, BlockedBy, OnePresent, IsPresent
  <2>5. CallsExclude'
    BY <2>1, <2>2 DEF Exclusion, CallsExclude, Idle
  <2>. QED  BY <2>2, <2>4, <2>5 DEF Exclusion, RenderedWhenBlocked, Blocked
<1>4. CASE CallAnswered(c)
  BY <1>2, <1>4, AfterCallFlags, CallIsOver DEF CallAnswered
<1>5. CASE CallFails(c)
  <2>1. ui' = [ui EXCEPT !.busy = ""]
    BY <1>2, <1>5 DEF CallFails
  <2>2. ui'.loading = ui.loading /\ ui'.refreshing = ui.refreshing /\ ui'.busy = ""
    BY <1>2, <2>1 DEF States
  <2>. QED  BY <1>5, <2>2, CallIsOver DEF CallFails, generations
<1>. QED  BY <1>1, <1>3, <1>4, <1>5

\* What is selected blocks nothing.
LEMMA SelectionsExclude ==
  ASSUME TypeOK, Exclusion,
         \/ Render \/ Effect
         \/ \E p \in Projects : SelectProject(p) \/ \E w \in Windows : SelectTerminal(p, w)
  PROVE  /\ Exclusion'
         /\ ui'.lists = ui.lists /\ UNCHANGED <<server, loads, calls, generations, settled>>
<1>1. ui \in States /\ view \in States
  BY DEF TypeOK
<1>2. /\ ui'.loading = ui.loading /\ ui'.refreshing = ui.refreshing /\ ui'.busy = ui.busy
      /\ ui'.lists = ui.lists
      /\ \/ SameButKey(ui', view')
         \/ Blocked(view)' = Blocked(view) /\ (SameButKey(ui, view) => SameButKey(ui', view'))
  <2>1. CASE Render
    BY <1>1, <2>1, FlushedKey DEF Render, Rendered, SameButKey
  <2>4. CASE Effect
    BY <1>1, <2>4, FlushedKey DEF Effect, SameButKey, Blocked
  <2>2. ASSUME NEW p \in Projects, SelectProject(p)
        PROVE  <1>2!:
    <3>. DEFINE f(s) == [s EXCEPT !.project = p,
                                  !.key = IF HasTerminalInProject(view.lists, p, s.key) THEN s.key
                                          ELSE FirstTerminalKey(p, view.lists)]
    <3>1. ui' = Flushed(f(ui)) /\ (Rendered(f(view)) \/ Rendered(ui'))
      BY <2>2 DEF SelectProject, Click
    <3>2. view.lists \in Lists
      BY <1>1 DEF States
    <3>3. FirstTerminalKey(p, view.lists) \in SomeKeys
      BY <3>2, FirstKey
    <3>4. /\ f(ui) \in States /\ f(view) \in States
          /\ SameButKey(ui, view) => SameButKey(f(ui), f(view))
          /\ f(ui).lists = ui.lists /\ f(ui).loading = ui.loading
          /\ f(ui).refreshing = ui.refreshing /\ f(ui).busy = ui.busy
          /\ Blocked(f(view)) = Blocked(view)
      BY <1>1, <3>3 DEF States, SameButKey, Blocked
    <3>. HIDE DEF f
    <3>5. /\ SameButKey(ui', f(ui)) /\ (view' = f(view) \/ view' = ui')
          /\ SameButKey(f(ui), f(view)) => SameButKey(ui', view')
      BY <3>1, <3>4, ClickKey
    <3>. QED  BY <3>4, <3>5 DEF SameButKey, Blocked
  <2>3. ASSUME NEW p \in Projects, NEW w \in Windows, SelectTerminal(p, w)
        PROVE  <1>2!:
    <3>. DEFINE f(s) == [s EXCEPT !.project = p, !.key = TerminalKey(p, w)]
    <3>1. ui' = Flushed(f(ui)) /\ (Rendered(f(view)) \/ Rendered(ui'))
      BY <2>3 DEF SelectTerminal, Click
    <3>4. /\ f(ui) \in States /\ f(view) \in States
          /\ SameButKey(ui, view) => SameButKey(f(ui), f(view))
          /\ f(ui).lists = ui.lists /\ f(ui).loading = ui.loading
          /\ f(ui).refreshing = ui.refreshing /\ f(ui).busy = ui.busy
          /\ Blocked(f(view)) = Blocked(view)
      BY <1>1 DEF States, SameButKey, Blocked, TerminalKey, SomeKeys
    <3>. HIDE DEF f
    <3>5. /\ SameButKey(ui', f(ui)) /\ (view' = f(view) \/ view' = ui')
          /\ SameButKey(f(ui), f(view)) => SameButKey(ui', view')
      BY <3>1, <3>4, ClickKey
    <3>. QED  BY <3>4, <3>5 DEF SameButKey, Blocked
  <2>. QED  BY <2>1, <2>2, <2>3, <2>4
<1>3. UNCHANGED <<server, loads, calls, generations, settled>>
  BY DEF Render, Effect, SelectProject, SelectTerminal
<1>4. LoadsExclude' /\ CallsExclude'
  BY <1>2, <1>3 DEF Exclusion, LoadsExclude, LoadsOrdered, PresentExcludes, BlockedBy, OnePresent, CallsExclude, IsPresent, Idle, generations
<1>5. RenderedWhenBlocked'
  BY <1>2 DEF Exclusion, RenderedWhenBlocked, Blocked
<1>. QED  BY <1>2, <1>3, <1>4, <1>5 DEF Exclusion

\* A click that starts a request finds that none is under way.
LEMMA NothingUnderWay ==
  ASSUME TypeOK, Exclusion, ~Blocked(view)
  PROVE  /\ SameButKey(ui, view) /\ calls = {}
         /\ \A l \in loads : l.gen < loadGeneration
<1>1. SameButKey(ui, view) /\ Idle(ui) /\ ui.busy = ""
  BY DEF Exclusion, RenderedWhenBlocked, Blocked, Idle, SameButKey
<1>2. calls = {}
  BY <1>1 DEF Exclusion, CallsExclude
<1>3. ASSUME NEW l \in loads
      PROVE  l.gen < loadGeneration
  <2>1. l.gen # loadGeneration
    BY <1>1, <1>3 DEF Exclusion, LoadsExclude, PresentExcludes, BlockedBy, IsPresent, Idle, TypeOK, Loads
  <2>2. l.gen <= loadGeneration /\ l.gen \in Nat /\ loadGeneration \in Nat
    BY DEF Exclusion, LoadsExclude, LoadsOrdered, TypeOK, Loads
  <2>. QED  BY <2>1, <2>2
<1>. QED  BY <1>1, <1>2, <1>3

\* A load starts: those under way are of earlier generations, and keep what they asked.
LEMMA LoadStarts ==
  ASSUME TypeOK, Exclusion, ~Blocked(view), NEW later \in Nat, later > loadGeneration,
         loadGeneration' = later, SameButKey(ui', view'), calls' = calls,
         mutationGeneration' = mutationGeneration,
         NEW new, new.gen = later, new.stage = "projects", new.asked = {}, new.missing = {},
         ~new.aborted, new.mutation = mutationGeneration,
         BlockedBy(new, ui'),
         NEW f, \A l \in loads : f[l].gen = l.gen /\ f[l].stage = l.stage /\ f[l].asked = l.asked
                                 /\ f[l].projects = l.projects /\ f[l].missing = l.missing,
         loads' = {f[l] : l \in loads} \cup {new}
  PROVE  Exclusion'
<1>2. calls = {} /\ \A l \in loads : l.gen < loadGeneration
  BY NothingUnderWay
<1>3. loadGeneration \in Nat /\ \A l \in loads : l.gen \in Nat
  BY DEF TypeOK, Loads
<1>4. ASSUME NEW k \in loads', k # new
      PROVE  \E l \in loads : k = f[l]
  BY <1>4
<1>5. ASSUME NEW k \in loads', k # new
      PROVE  k.gen < later
  <2>1. PICK l \in loads : k = f[l]
    BY <1>4, <1>5
  <2>2. k.gen = l.gen
    BY <2>1
  <2>3. l.gen \in Nat /\ l.gen < loadGeneration
    BY <1>2, <1>3
  <2>. QED  BY <2>2, <2>3, <1>3
<1>6. LoadsOrdered'
  <2>. SUFFICES ASSUME NEW k \in loads'
                PROVE  /\ k.gen <= later
                       /\ k.stage = "projects" => k.asked = {} /\ k.missing = {}
                       /\ k.asked \subseteq k.projects \ k.missing
    BY DEF LoadsOrdered
  <2>1. CASE k = new
    <3>1. k.gen <= later
      BY <2>1
    <3>2. k.asked = {} /\ k.missing = {}
      BY <2>1
    <3>. QED  BY <3>1, <3>2
  <2>2. CASE k # new
    <3>1. PICK l \in loads : k = f[l]
      BY <1>4, <2>2
    <3>2. k.gen <= later
      <4>1. k.gen = l.gen /\ l.gen \in Nat /\ l.gen < loadGeneration
        BY <1>2, <1>3, <3>1
      <4>. QED  BY <4>1, <1>3
    <3>3. /\ l.stage = "projects" => l.asked = {} /\ l.missing = {}
          /\ l.asked \subseteq l.projects \ l.missing
      BY DEF Exclusion, LoadsExclude, LoadsOrdered
    <3>. QED  BY <3>1, <3>2, <3>3
  <2>. QED  BY <2>1, <2>2
<1>7. PresentExcludes'
  <2>. SUFFICES ASSUME NEW k \in loads', k.gen = later
                PROVE  ~k.aborted /\ k.mutation = mutationGeneration /\ calls = {} /\ BlockedBy(k, ui')
    BY DEF PresentExcludes, BlockedBy, IsPresent
  <2>1. k = new
    <3>1. ~(later < later)
      OBVIOUS
    <3>. QED  BY <3>1, <1>5
  <2>. QED  BY <2>1, <1>2
<1>8. OnePresent'
  <2>. SUFFICES ASSUME NEW k \in loads', NEW n \in loads', k.gen = later, n.gen = later
                PROVE  k = n
    BY DEF OnePresent, IsPresent
  <2>1. ~(later < later)
    OBVIOUS
  <2>. QED  BY <2>1, <1>5
<1>9. CallsExclude' /\ RenderedWhenBlocked'
  BY <1>2 DEF CallsExclude, RenderedWhenBlocked
<1>. QED  BY <1>6, <1>7, <1>8, <1>9 DEF Exclusion, LoadsExclude

LEMMA RefreshExcludes ==
  ASSUME TypeOK, Exclusion, Refresh
  PROVE  Exclusion'
<1>1. /\ ui \in States /\ view \in States /\ SameButKey(ui, view) /\ ~Blocked(view)
      /\ loadGeneration \in Nat
  BY NothingUnderWay DEF Refresh, TypeOK
<1>2. PICK f : f = [l \in loads |-> l]
  OBVIOUS
<1>3. \A l \in loads : f[l].gen = l.gen /\ f[l].stage = l.stage /\ f[l].asked = l.asked
                       /\ f[l].projects = l.projects /\ f[l].missing = l.missing
  BY <1>2 DEF TypeOK, Loads
<1>4. PICK later \in Nat : later = loadGeneration' /\ later > loadGeneration
  BY <1>1 DEF Refresh
<1>5. PICK new : new = NewLoad(later, TRUE)
  OBVIOUS
<1>6. /\ new.gen = later /\ new.stage = "projects" /\ new.asked = {} /\ new.missing = {}
      /\ ~new.aborted /\ new.mutation = mutationGeneration /\ new.refresh
  BY <1>5 DEF NewLoad
<1>7. loads' = {f[l] : l \in loads} \cup {new}
  BY <1>2, <1>4, <1>5 DEF Refresh
<1>10. PICK s, t : s = [ui EXCEPT !.refreshing = TRUE] /\ t = [view EXCEPT !.refreshing = TRUE]
  OBVIOUS
<1>11. /\ s \in States /\ t \in States /\ SameButKey(s, t)
       /\ ~s.loading /\ s.refreshing /\ s.busy = ""
  BY <1>1, <1>10 DEF States, SameButKey, Blocked
<1>12. ui' = Flushed(s) /\ (Rendered(t) \/ Rendered(ui'))
  BY <1>10 DEF Refresh, Click
<1>8. SameButKey(ui', view') /\ calls' = calls /\ mutationGeneration' = mutationGeneration
  BY <1>11, <1>12, ClickKey DEF Refresh
<1>9. BlockedBy(new, ui')
  <2>2. ~ui'.loading /\ ui'.refreshing /\ ui'.busy = ""
    BY <1>11, <1>12, ClickKey DEF SameButKey
  <2>. QED  BY <1>6, <2>2 DEF BlockedBy
<1>. QED  BY <1>1, <1>3, <1>4, <1>6, <1>7, <1>8, <1>9, LoadStarts

LEMMA ApplyTokenExcludes ==
  ASSUME TypeOK, Exclusion, ApplyToken
  PROVE  Exclusion'
<1>1. ~Blocked(view) /\ loadGeneration \in Nat
  BY NothingUnderWay DEF ApplyToken, TypeOK
<1>2. PICK f : f = [l \in loads |-> [l EXCEPT !.aborted = ~l.refresh \/ l.aborted]]
  OBVIOUS
<1>3. \A l \in loads : f[l].gen = l.gen /\ f[l].stage = l.stage /\ f[l].asked = l.asked
                       /\ f[l].projects = l.projects /\ f[l].missing = l.missing
  BY <1>2 DEF TypeOK, Loads
<1>4. PICK later \in Nat : later = loadGeneration' /\ later > loadGeneration
  BY <1>1 DEF ApplyToken
<1>5. PICK new : new = NewLoad(later, FALSE)
  OBVIOUS
<1>6. /\ new.gen = later /\ new.stage = "projects" /\ new.asked = {} /\ new.missing = {}
      /\ ~new.aborted /\ new.mutation = mutationGeneration /\ ~new.refresh
  BY <1>5 DEF NewLoad
<1>7. loads' = {f[l] : l \in loads} \cup {new}
  BY <1>2, <1>4, <1>5 DEF ApplyToken
<1>10. ui' = Flushed(Fresh) /\ (Rendered(Fresh) \/ Rendered(ui'))
  BY DEF ApplyToken, Click
<1>8. SameButKey(ui', view') /\ calls' = calls /\ mutationGeneration' = mutationGeneration
  BY <1>10, FreshTyped, ClickKey DEF ApplyToken, SameButKey
<1>9. BlockedBy(new, ui')
  <2>1. ui'.loading /\ ~ui'.refreshing /\ ui'.busy = ""
    BY <1>10, FreshTyped, ClickKey DEF SameButKey, Fresh
  <2>. QED  BY <1>6, <2>1 DEF BlockedBy
<1>. QED  BY <1>1, <1>3, <1>4, <1>6, <1>7, <1>8, <1>9, LoadStarts

\* A call that starts is the only request, and of the present token.
LEMMA CallStarts ==
  ASSUME TypeOK, Exclusion, HandleCreateTerminal \/ HandleCloseTerminal
  PROVE  /\ Exclusion'
         /\ ui'.lists = ui.lists
         /\ \E c : calls' = {c} /\ ~c.handled
<1>1. /\ ui \in States /\ view \in States /\ SameButKey(ui, view) /\ calls = {}
      /\ \A l \in loads : l.gen # loadGeneration
  <2>1. \A l \in loads : l.gen \in Nat
    BY DEF TypeOK, Loads
  <2>2. ~Blocked(view) /\ ui \in States /\ view \in States /\ loadGeneration \in Nat
    BY DEF HandleCreateTerminal, HandleCloseTerminal, TypeOK
  <2>. QED  BY <2>1, <2>2, NothingUnderWay
<1>2. PICK kind, w, successor : calls' = {Call(kind, w, successor)}
  BY <1>1 DEF HandleCreateTerminal, HandleCloseTerminal
<1>3. Call(kind, w, successor).credential = credentialGeneration /\ ~Call(kind, w, successor).handled
  BY DEF Call
<1>4. PICK busy \in {"create", "delete"} :
             LET s == [ui EXCEPT !.busy = busy]
             IN ui' = Flushed(s) /\ (Rendered([view EXCEPT !.busy = busy]) \/ Rendered(ui'))
  BY DEF HandleCreateTerminal, HandleCloseTerminal, Click
<1>10. PICK s, t : s = [ui EXCEPT !.busy = busy] /\ t = [view EXCEPT !.busy = busy]
  OBVIOUS
<1>11. /\ s \in States /\ t \in States /\ SameButKey(s, t)
       /\ Idle(s) /\ s.busy # "" /\ s.lists = ui.lists
  <2>1. ~Blocked(view)
    BY DEF HandleCreateTerminal, HandleCloseTerminal
  <2>. QED  BY <1>1, <1>10, <2>1 DEF States, SameButKey, Blocked, Idle
<1>12. SameButKey(ui', s) /\ SameButKey(ui', view')
  BY <1>4, <1>10, <1>11, ClickKey
<1>5. Idle(ui') /\ ui'.busy # "" /\ ui'.lists = ui.lists
  BY <1>11, <1>12 DEF SameButKey, Idle
<1>6. UNCHANGED <<loads, loadGeneration, mutationGeneration, credentialGeneration>>
  BY DEF HandleCreateTerminal, HandleCloseTerminal, generations
<1>7. LoadsExclude'
  BY <1>1, <1>6 DEF Exclusion, LoadsExclude, LoadsOrdered, PresentExcludes, BlockedBy, OnePresent, IsPresent
<1>8. CallsExclude'
  BY <1>2, <1>3, <1>5, <1>6 DEF CallsExclude, Idle
<1>9. RenderedWhenBlocked'
  BY <1>12 DEF RenderedWhenBlocked
<1>. QED  BY <1>2, <1>3, <1>5, <1>7, <1>8, <1>9 DEF Exclusion

\* No step lets two requests under way.
LEMMA NextExcludes == TypeOK /\ Exclusion /\ [Next]_vars => Exclusion'
<1>. SUFFICES ASSUME TypeOK, Exclusion, [Next]_vars
              PROVE  Exclusion'
  OBVIOUS
<1>1. CASE UNCHANGED <<ui, view, loads, calls, generations>>
  BY <1>1 DEF Exclusion, LoadsExclude, LoadsOrdered, PresentExcludes, BlockedBy, OnePresent, IsPresent,
              CallsExclude, RenderedWhenBlocked, Idle, Blocked, generations
<1>2. CASE UNCHANGED vars \/ Reload \/ \E p \in Projects : OtherClient(p)
  <2>1. UNCHANGED <<ui, view, loads, calls, generations>>
    BY <1>2 DEF vars, Reload, OtherClient, generations
  <2>. QED  BY <1>1, <2>1
<1>. QED  BY <1>2, LoadStepsExclude, CallStepsExclude, SelectionsExclude, RefreshExcludes,
             ApplyTokenExcludes, CallStarts DEF Next

-----------------------------------------------------------------------------
(* The selected terminal *)

\* What the effect of a render left to do is done by the next one: until then what is queued
\* differs from what is rendered.
EffectIsQueued ==
  Unlisted(view) /\ ~pending =>
    ui.key # view.key \/ ui.lists # view.lists \/ ui.project # view.project

Dated(list) == \A e \in list : e.since <= mutationGeneration

\* No list has an entry of a later change than the last one.
ListsDated ==
  \A p \in Projects : /\ Dated(ui.lists[p]) /\ Dated(view.lists[p])
                      /\ \A l \in loads : Dated(l.lists[p])

\* What is being closed is listed.
ClosingIsListed == \A c \in calls : c.kind = "delete" => c.window \in Names(ui.lists[c.project])

Selection == EffectIsQueued /\ ListsDated /\ ClosingIsListed

LEMMA InitSelection == Init => Selection
<1>. SUFFICES ASSUME Init PROVE Selection
  OBVIOUS
<1>1. ui.lists = NoLists /\ view.lists = NoLists /\ view.project = NoProject /\ calls = {}
  BY DEF Init, Fresh
<1>2. \A l \in loads : l.lists = NoLists
  BY DEF Init, NewLoad
<1>3. ListsDated
  BY <1>1, <1>2 DEF ListsDated, Dated, NoLists
<1>. QED  BY <1>1, <1>3 DEF Selection, EffectIsQueued, Unlisted, Keys, ClosingIsListed

\* A render knows whether its effect is to select another terminal.
LEMMA RenderedQueues ==
  ASSUME NEW s, Rendered(s)
  PROVE  EffectIsQueued'
BY DEF Rendered, EffectIsQueued, Unlisted

\* A click leaves the lists that are queued and rendered, or empties them.
LEMMA ClicksDated ==
  ASSUME TypeOK, ListsDated, NEW s \in States, NEW t \in States,
         ui' = Flushed(s), Rendered(t) \/ Rendered(ui'), mutationGeneration' = mutationGeneration,
         \A p \in Projects : Dated(s.lists[p]) /\ Dated(t.lists[p]),
         \A l \in loads' : l.lists = NoLists \/ \E k \in loads : l.lists = k.lists
  PROVE  ListsDated'
<1>1. ui'.lists = s.lists /\ (view'.lists = t.lists \/ view'.lists = s.lists)
  BY ClickKey DEF SameButKey
<1>2. \A p \in Projects : Dated(NoLists[p])
  BY DEF Dated, NoLists
<1>. QED  BY <1>1, <1>2 DEF ListsDated, Dated

LEMMA LoadStepsSelect ==
  ASSUME TypeOK, Exclusion, Selection, LoadSteps
  PROVE  Selection'
<1>1. PICK l \in loads : \/ ProjectsAnswered(l) \/ ProjectsFail(l) \/ LoadEnds(l)
                         \/ \E p \in Projects : TerminalsAnswered(l, p)
  BY DEF LoadSteps
<1>2. l \in Loads /\ ui \in States /\ view \in States /\ mutationGeneration \in Nat
  BY DEF TypeOK
<1>3. UNCHANGED <<view, pending, calls, mutationGeneration>>
  BY <1>1 DEF ProjectsAnswered, ProjectsFail, TerminalsAnswered, LoadEnds, generations
<1>4. CASE ui'.lists = ui.lists /\ ui'.key = ui.key /\ ui'.project = ui.project
  <2>1. \A k \in loads', p \in Projects : Dated(k.lists[p])
    <3>1. \A k \in loads, p \in Projects : Dated(k.lists[p])
      BY DEF Selection, ListsDated
    <3>2. CASE loads' \subseteq loads
      BY <3>1, <3>2
    <3>3. CASE ProjectsAnswered(l) /\ ~(loads' \subseteq loads)
      <4>1. [l EXCEPT !.stage = "terminals", !.projects = known, !.asked = known].lists = l.lists
        BY <1>2 DEF Loads
      <4>. QED  BY <3>1, <3>3, <4>1 DEF ProjectsAnswered, Replace
    <3>4. ASSUME NEW q \in Projects, TerminalsAnswered(l, q)
          PROVE  \A k \in loads', p \in Projects : Dated(k.lists[p])
      <4>1. Dated(Listed(server[q]))
        BY <1>2 DEF Dated, Listed
      <4>2. [l EXCEPT !.asked = @ \ {q}, !.missing = @ \cup {q}].lists = l.lists
        BY <1>2 DEF Loads
      <4>3. [l EXCEPT !.asked = @ \ {q}, !.lists[q] = Listed(server[q])].lists
              = [l.lists EXCEPT ![q] = Listed(server[q])] /\ l.lists \in Lists
        BY <1>2 DEF Loads
      <4>4. \A p \in Projects : Dated([l.lists EXCEPT ![q] = Listed(server[q])][p])
        BY <3>1, <4>1, <4>3 DEF Lists
      <4>5. PICK k : /\ loads' = (loads \ {l}) \cup {k}
                     /\ k.lists = l.lists \/ k.lists = [l.lists EXCEPT ![q] = Listed(server[q])]
        BY <3>4, <4>2, <4>3 DEF TerminalsAnswered, Replace
      <4>. QED  BY <3>1, <4>4, <4>5
    <3>5. CASE ProjectsFail(l) \/ LoadEnds(l)
      BY <3>2, <3>5 DEF ProjectsFail, LoadEnds
    <3>. QED  BY <1>1, <3>2, <3>3, <3>4, <3>5
  <2>2. ListsDated'
    BY <1>3, <1>4, <2>1 DEF Selection, ListsDated, Dated
  <2>. QED  BY <1>3, <1>4, <2>2 DEF Selection, EffectIsQueued, Unlisted, ClosingIsListed
<1>5. CASE ~(ui'.lists = ui.lists /\ ui'.key = ui.key /\ ui'.project = ui.project)
  <2>1. LoadEnds(l) /\ ui' = LoadFinished(l, Loaded(l)) /\ IsPresent(l)
    <3>1. \A s \in States : LET u == LoadFinished(l, s)
                            IN u.lists = s.lists /\ u.key = s.key /\ u.project = s.project
      BY DEF LoadFinished, States
    <3>2. ~ProjectsAnswered(l) /\ ~ProjectsFail(l) /\ ~ \E p \in Projects : TerminalsAnswered(l, p)
      BY <1>2, <1>5, <3>1 DEF ProjectsAnswered, ProjectsFail, TerminalsAnswered
    <3>. QED  BY <1>1, <1>2, <1>5, <3>1, <3>2 DEF LoadEnds, Overtaken, IsPresent
  <2>2. calls = {}
    BY <2>1 DEF Exclusion, LoadsExclude, PresentExcludes
  <2>3. /\ Loaded(l) \in States /\ Loaded(l).lists = NextTerminals(l)
        /\ ui'.lists = Loaded(l).lists /\ ui'.key = Loaded(l).key /\ ui'.project = Loaded(l).project
    <3>1. Loaded(l) \in States /\ Loaded(l).lists = NextTerminals(l)
      BY LoadedTyped, LoadedFlags
    <3>. QED  BY <2>1, <3>1 DEF LoadFinished, States
  <2>4. ListsDated'
    <3>1. loads' \subseteq loads
      BY <2>1 DEF LoadEnds
    <3>2. \A p \in Projects : NextTerminals(l)[p] \in {l.lists[p], view.lists[p]}
      BY DEF NextTerminals
    <3>. QED  BY <1>3, <2>3, <3>1, <3>2 DEF Selection, ListsDated, Dated
  <2>5. Keys(ui'.lists, ui'.project) # {} => ui'.key \in Keys(ui'.lists, ui'.project)
    <3>1. ui'.lists \in Lists /\ ui'.project \in Projects \cup {NoProject}
      BY <2>3 DEF States
    <3>2. /\ Loaded(l).lists = NextTerminals(l)
          /\ Loaded(l).key = IF HasTerminalInProject(Loaded(l).lists, Loaded(l).project, ui.key) THEN ui.key
                             ELSE FirstTerminalKey(Loaded(l).project, Loaded(l).lists)
      BY <1>2 DEF Loaded, States
    <3>. QED  BY <2>3, <3>1, <3>2, FirstKey DEF HasTerminalInProject
  <2>6. EffectIsQueued'
    BY <1>3, <2>5 DEF EffectIsQueued, Unlisted
  <2>. QED  BY <1>3, <2>2, <2>4, <2>6 DEF Selection, ClosingIsListed
<1>. QED  BY <1>4, <1>5

LEMMA CallStepsSelect ==
  ASSUME TypeOK, Exclusion, Selection, CallSteps
  PROVE  Selection'
<1>1. PICK c \in calls : Created(c) \/ Deleted(c) \/ CallAnswered(c) \/ CallFails(c)
  BY DEF CallSteps
<1>2. /\ c \in Calls /\ c.project \in Projects /\ ui \in States /\ view \in States
      /\ ui.lists \in Lists /\ mutationGeneration \in Nat
  BY DEF TypeOK, Calls, States
<1>3. calls = {c} /\ IsCurrent(c) /\ SameButKey(ui, view)
  BY DEF Exclusion, CallsExclude, IsCurrent, RenderedWhenBlocked, Blocked
<1>4. UNCHANGED <<view, pending, loads>>
  BY <1>1 DEF Created, Deleted, CallAnswered, CallFails, generations
<1>5. CASE CallFails(c)
  <2>1. ui'.lists = ui.lists /\ ui'.key = ui.key /\ ui'.project = ui.project /\ calls' = {}
    BY <1>2, <1>3, <1>5 DEF CallFails, States
  <2>2. mutationGeneration' = mutationGeneration
    BY <1>5 DEF CallFails, generations
  <2>3. EffectIsQueued'
    BY <1>4, <2>1 DEF Selection, EffectIsQueued, Unlisted
  <2>4. ListsDated'
    BY <1>4, <2>1, <2>2 DEF Selection, ListsDated, Dated
  <2>. QED  BY <2>1, <2>3, <2>4 DEF Selection, ClosingIsListed
<1>6. CASE Created(c)
  <2>1. PICK w : calls' = {[c EXCEPT !.handled = TRUE, !.window = w]}
    BY <1>3, <1>6 DEF Created, ReplaceCall
  <2>2. [c EXCEPT !.handled = TRUE, !.window = w].kind = "create"
    BY <1>2, <1>6 DEF Created, Calls
  <2>3. ClosingIsListed'
    BY <2>1, <2>2 DEF ClosingIsListed
  <2>. QED  BY <1>4, <1>6, <2>3 DEF Created, Selection, EffectIsQueued, Unlisted, ListsDated, Dated,
                                    generations
<1>7. CASE Deleted(c)
  <2>1. calls' = {[c EXCEPT !.handled = TRUE]} /\ ui' = ui
    BY <1>3, <1>7 DEF Deleted, ReplaceCall
  <2>2. /\ [c EXCEPT !.handled = TRUE].window = c.window
        /\ [c EXCEPT !.handled = TRUE].project = c.project
        /\ [c EXCEPT !.handled = TRUE].kind = c.kind
    BY <1>2 DEF Calls
  <2>3. ClosingIsListed'
    BY <2>1, <2>2 DEF Selection, ClosingIsListed
  <2>. QED  BY <1>4, <1>7, <2>3 DEF Deleted, Selection, EffectIsQueued, Unlisted, ListsDated, Dated,
                                    generations
<1>8. CASE CallAnswered(c)
  <2>. DEFINE p == c.project
              e == [since |-> mutationGeneration + 1, window |-> c.window]
  <2>1. ui' = AfterCall(c) /\ calls' = {} /\ mutationGeneration' = mutationGeneration + 1
    BY <1>3, <1>8 DEF CallAnswered
  <2>2. e.since = mutationGeneration + 1
    OBVIOUS
  <2>3. ui'.lists = [ui.lists EXCEPT ![p] =
                       IF c.kind = "create" THEN @ \cup {e} ELSE {f \in @ : f.window # c.window}]
    BY <1>2, <2>1 DEF AfterCall, AfterCreate, AfterDelete, States
  <2>. HIDE DEF e
  <2>4. ui'.lists[p] = IF c.kind = "create" THEN ui.lists[p] \cup {e}
                       ELSE {f \in ui.lists[p] : f.window # c.window}
    BY <1>2, <2>3 DEF Lists
  <2>5. \A q \in Projects : ui.lists[q] \subseteq Entries
    BY <1>2 DEF Lists
  <2>6. ui'.lists[p] # ui.lists[p]
    <3>1. CASE c.kind = "create"
      <4>1. e \notin ui.lists[p]
        <5>1. \A f \in ui.lists[p] : f.since <= mutationGeneration
          BY <1>2 DEF Selection, ListsDated, Dated
        <5>2. ~(mutationGeneration + 1 <= mutationGeneration)
          BY <1>2
        <5>. QED  BY <2>2, <5>1, <5>2
      <4>. QED  BY <2>4, <3>1, <4>1
    <3>2. CASE c.kind # "create"
      <4>1. c.kind = "delete"
        BY <1>2, <3>2 DEF Calls
      <4>2. PICK f \in ui.lists[p] : f.window = c.window
        BY <4>1 DEF Selection, ClosingIsListed, Names
      <4>. QED  BY <2>4, <3>2, <4>2
    <3>. QED  BY <3>1, <3>2
  <2>7. EffectIsQueued'
    BY <1>3, <1>4, <2>6 DEF EffectIsQueued, SameButKey
  <2>8. ListsDated'
    <3>1. ASSUME NEW q \in Projects, NEW f \in ui'.lists[q]
          PROVE  f.since <= mutationGeneration + 1
      <4>1. CASE f \in ui.lists[q]
        <5>1. f.since \in Nat
          BY <2>5, <4>1 DEF Entries
        <5>2. f.since <= mutationGeneration
          BY <4>1 DEF Selection, ListsDated, Dated
        <5>. QED  BY <1>2, <5>1, <5>2
      <4>2. CASE f \notin ui.lists[q]
        <5>1. f = e
          BY <1>2, <2>3, <3>1, <4>2 DEF Lists
        <5>. QED  BY <1>2, <2>2, <5>1
      <4>. QED  BY <4>1, <4>2
    <3>2. \A q \in Projects : \A f \in view.lists[q] : f.since <= mutationGeneration + 1
      <4>1. \A q \in Projects : view.lists[q] = ui.lists[q]
        BY <1>3 DEF SameButKey
      <4>. QED  BY <1>2, <2>5, <4>1 DEF Selection, ListsDated, Dated, Entries
    <3>3. \A l \in loads : \A q \in Projects : \A f \in l.lists[q] : f.since <= mutationGeneration + 1
      <4>1. \A l \in loads, q \in Projects : l.lists[q] \subseteq Entries
        BY DEF TypeOK, Loads, Lists
      <4>. QED  BY <1>2, <4>1 DEF Selection, ListsDated, Dated, Entries
    <3>. QED  BY <1>4, <2>1, <3>1, <3>2, <3>3 DEF ListsDated, Dated
  <2>. QED  BY <2>1, <2>7, <2>8 DEF Selection, ClosingIsListed
<1>. QED  BY <1>1, <1>5, <1>6, <1>7, <1>8

LEMMA ClickStepsSelect ==
  ASSUME TypeOK, Exclusion, Selection,
         \/ Render \/ Effect \/ Refresh \/ ApplyToken \/ HandleCreateTerminal \/ HandleCloseTerminal
         \/ \E p \in Projects : SelectProject(p) \/ \E w \in Windows : SelectTerminal(p, w)
  PROVE  Selection'
<1>1. /\ ui \in States /\ view \in States /\ view.lists \in Lists
      /\ view.project \in Projects \cup {NoProject}
  BY DEF TypeOK, States
<1>2. mutationGeneration' = mutationGeneration
  BY DEF Render, Effect, Refresh, ApplyToken, HandleCreateTerminal, HandleCloseTerminal, SelectProject,
         SelectTerminal, generations
<1>3. CASE Effect
  <2>1. SameButKey(ui', ui) /\ UNCHANGED <<view, loads, calls>>
    BY <1>1, <1>3, FlushedKey DEF Effect
  <2>2. Unlisted(view) => ui'.key # view.key
    <3>1. ui'.key = FirstTerminalKey(view.project, view.lists)
      BY <1>1, <1>3 DEF Effect, Flushed, Reselected, States
    <3>. QED  BY <1>1, <3>1, FirstKey DEF Unlisted
  <2>3. EffectIsQueued'
    BY <2>1, <2>2 DEF EffectIsQueued, Unlisted
  <2>. QED  BY <1>2, <2>1, <2>3 DEF Selection, SameButKey, ListsDated, Dated, ClosingIsListed
<1>4. CASE Render
  <2>1. SameButKey(ui', ui) /\ view' = ui' /\ UNCHANGED <<loads, calls>> /\ EffectIsQueued'
    BY <1>1, <1>4, FlushedKey, RenderedQueues DEF Render, Rendered
  <2>. QED  BY <1>2, <2>1 DEF Selection, SameButKey, ListsDated, Dated, ClosingIsListed
<1>5. ASSUME NEW s \in States, NEW t \in States, ui' = Flushed(s), Rendered(t) \/ Rendered(ui'),
             s.lists = ui.lists, t.lists = view.lists,
             \A l \in loads' : l.lists = NoLists \/ \E k \in loads : l.lists = k.lists,
             \A c \in calls' : c \in calls \/
                                (c.kind = "delete" => c.window \in Names(ui.lists[c.project]))
      PROVE  Selection'
  <2>1. EffectIsQueued'
    BY <1>5, RenderedQueues
  <2>2. ListsDated'
    <3>1. \A p \in Projects : Dated(s.lists[p]) /\ Dated(t.lists[p])
      BY <1>5 DEF Selection, ListsDated
    <3>. QED  BY <1>2, <1>5, <3>1, ClicksDated DEF Selection
  <2>3. ui'.lists = ui.lists
    BY <1>5, FlushedKey DEF SameButKey
  <2>4. ClosingIsListed'
    BY <1>5, <2>3 DEF Selection, ClosingIsListed
  <2>. QED  BY <2>1, <2>2, <2>4 DEF Selection
<1>6. ASSUME NEW p \in Projects, SelectProject(p)
      PROVE  Selection'
  <2>. DEFINE f(s) == [s EXCEPT !.project = p,
                                !.key = IF HasTerminalInProject(view.lists, p, s.key) THEN s.key
                                        ELSE FirstTerminalKey(p, view.lists)]
  <2>1. ui' = Flushed(f(ui)) /\ (Rendered(f(view)) \/ Rendered(ui')) /\ UNCHANGED <<loads, calls>>
    BY <1>6 DEF SelectProject, Click
  <2>2. FirstTerminalKey(p, view.lists) \in SomeKeys
    BY <1>1, FirstKey
  <2>3. /\ f(ui) \in States /\ f(view) \in States
        /\ f(ui).lists = ui.lists /\ f(view).lists = view.lists
    BY <1>1, <2>2 DEF States
  <2>. HIDE DEF f
  <2>. QED  BY <1>5, <2>1, <2>3
<1>7. ASSUME NEW p \in Projects, NEW w \in Windows, SelectTerminal(p, w)
      PROVE  Selection'
  <2>. DEFINE f(s) == [s EXCEPT !.project = p, !.key = TerminalKey(p, w)]
  <2>1. ui' = Flushed(f(ui)) /\ (Rendered(f(view)) \/ Rendered(ui')) /\ UNCHANGED <<loads, calls>>
    BY <1>7 DEF SelectTerminal, Click
  <2>3. /\ f(ui) \in States /\ f(view) \in States
        /\ f(ui).lists = ui.lists /\ f(view).lists = view.lists
    BY <1>1 DEF States, TerminalKey, SomeKeys
  <2>. HIDE DEF f
  <2>. QED  BY <1>5, <2>1, <2>3
<1>8. CASE Refresh
  <2>. DEFINE f(s) == [s EXCEPT !.refreshing = TRUE]
  <2>1. ui' = Flushed(f(ui)) /\ (Rendered(f(view)) \/ Rendered(ui')) /\ calls' = calls
    BY <1>8 DEF Refresh, Click
  <2>2. \A l \in loads' : l.lists = NoLists \/ \E k \in loads : l.lists = k.lists
    BY <1>8 DEF Refresh, NewLoad
  <2>3. /\ f(ui) \in States /\ f(view) \in States
        /\ f(ui).lists = ui.lists /\ f(view).lists = view.lists
    BY <1>1 DEF States
  <2>. HIDE DEF f
  <2>. QED  BY <1>5, <2>1, <2>2, <2>3
<1>9. CASE ApplyToken
  <2>1. calls' = {}
    BY <1>9, NothingUnderWay DEF ApplyToken
  <2>2. \A l \in loads' : l.lists = NoLists \/ \E k \in loads : l.lists = k.lists
    <3>1. \A l \in loads : [l EXCEPT !.aborted = ~l.refresh \/ l.aborted].lists = l.lists
      BY DEF TypeOK, Loads
    <3>2. NewLoad(loadGeneration', FALSE).lists = NoLists
      BY DEF NewLoad
    <3>. QED  BY <1>9, <3>1, <3>2 DEF ApplyToken
  <2>3. ui' = Flushed(Fresh) /\ (Rendered(Fresh) \/ Rendered(ui'))
    BY <1>9 DEF ApplyToken, Click
  <2>4. \A p \in Projects : Dated(Fresh.lists[p])
    BY DEF Fresh, NoLists, Dated
  <2>5. ListsDated'
    BY <1>2, <2>2, <2>3, <2>4, FreshTyped, ClicksDated DEF Selection
  <2>6. EffectIsQueued'
    BY <2>3, RenderedQueues
  <2>. QED  BY <2>1, <2>5, <2>6 DEF Selection, ClosingIsListed
<1>10. CASE HandleCreateTerminal
  <2>. DEFINE f(s) == [s EXCEPT !.busy = "create"]
  <2>1. ui' = Flushed(f(ui)) /\ (Rendered(f(view)) \/ Rendered(ui')) /\ loads' = loads
    BY <1>10 DEF HandleCreateTerminal, Click
  <2>2. calls' = calls \cup {Call("create", NoWindow, NoKey)}
    BY <1>10 DEF HandleCreateTerminal
  <2>4. Call("create", NoWindow, NoKey).kind = "create"
    BY DEF Call
  <2>3. /\ f(ui) \in States /\ f(view) \in States
        /\ f(ui).lists = ui.lists /\ f(view).lists = view.lists
    BY <1>1 DEF States
  <2>. HIDE DEF f
  <2>5. \A c \in calls' : c \in calls \/ c.kind # "delete"
    BY <2>2, <2>4
  <2>. QED  BY <1>5, <2>1, <2>3, <2>5
<1>11. CASE HandleCloseTerminal
  <2>. DEFINE f(s) == [s EXCEPT !.busy = "delete"]
              d == Call("delete", view.key[2], Successor(view.lists, view.project, view.key[2]))
  <2>1. ui' = Flushed(f(ui)) /\ (Rendered(f(view)) \/ Rendered(ui')) /\ loads' = loads
    BY <1>11 DEF HandleCloseTerminal, Click
  <2>2. calls' = calls \cup {d}
    BY <1>11 DEF HandleCloseTerminal
  <2>4. d.window = view.key[2] /\ d.project = view.project
    BY DEF Call
  <2>5. ui.lists = view.lists
    BY <1>11, NothingUnderWay DEF HandleCloseTerminal, SameButKey
  <2>6. view.key[2] \in Names(view.lists[view.project])
    BY <1>11 DEF HandleCloseTerminal, HasTerminalInProject, Keys, TerminalKey, Names
  <2>3. /\ f(ui) \in States /\ f(view) \in States
        /\ f(ui).lists = ui.lists /\ f(view).lists = view.lists
    BY <1>1 DEF States
  <2>. HIDE DEF f, d
  <2>7. \A c \in calls' : c \in calls \/ c.window \in Names(ui.lists[c.project])
    BY <2>2, <2>4, <2>5, <2>6
  <2>. QED  BY <1>5, <2>1, <2>3, <2>7
<1>. QED  BY <1>3, <1>4, <1>6, <1>7, <1>8, <1>9, <1>10, <1>11

LEMMA NextSelection == TypeOK /\ Exclusion /\ Selection /\ [Next]_vars => Selection'
<1>1. ASSUME Selection, UNCHANGED <<ui, view, pending, loads, calls, mutationGeneration>>
      PROVE  Selection'
  BY <1>1 DEF Selection, EffectIsQueued, Unlisted, ListsDated, Dated, ClosingIsListed
<1>2. ASSUME UNCHANGED vars \/ Reload \/ \E p \in Projects : OtherClient(p)
      PROVE  UNCHANGED <<ui, view, pending, loads, calls, mutationGeneration>>
  BY <1>2 DEF vars, Reload, OtherClient, generations
<1>. QED  BY <1>1, <1>2, LoadStepsSelect, CallStepsSelect, ClickStepsSelect DEF Next

(* A selected terminal that is gone is never the last word: the effect that selects another  *)
(* one is still to run, or what it queued is not rendered (selectProject, selectTerminal,    *)
(* the answers to loads and calls, and the effect), for any number of projects, windows,     *)
(* loads and calls.                                                                          *)
THEOREM SelectionStaysListed == Spec => []SelectionIsListed
<1>1. Selection => SelectionIsListed
  BY DEF Selection, EffectIsQueued, SelectionIsListed
<1>. QED  BY <1>1, InitTyped, InitExcluded, InitSelection, NextTyped, NextExcludes, NextSelection,
             PTL DEF Spec

-----------------------------------------------------------------------------
(* Lists in account *)

LEMMA InitAccounted == Init => ListsAccounted
BY DEF Init, ListsAccounted

\* An account is of the list, the calls and the windows of one project.
LEMMA AccountStays ==
  ASSUME NEW p, InAccount(p), ui'.lists[p] = ui.lists[p], server'[p] = server[p], calls' = calls
  PROVE  InAccount(p)'
BY DEF InAccount

\* What neither loads nor calls nor lists take part in.
LEMMA AccountsStay ==
  ASSUME ListsAccounted, ui'.lists = ui.lists,
         UNCHANGED <<server, loads, calls, generations, settled>>
  PROVE  ListsAccounted'
BY DEF ListsAccounted, InAccount, Has, IsPresent, generations

\* A list the server sends has each window once.
LEMMA ListedNames ==
  ASSUME NEW S
  PROVE  Unique(Listed(S)) /\ Names(Listed(S)) = S
<1>. DEFINE e(w) == [since |-> 0, window |-> w]
<1>1. Listed(S) = {e(w) : w \in S} /\ \A w \in S : e(w).window = w
  BY DEF Listed
<1>. HIDE DEF e
<1>2. Names(Listed(S)) = S
  BY <1>1 DEF Names
<1>3. Unique(Listed(S))
  BY <1>1 DEF Unique
<1>. QED  BY <1>2, <1>3

\* A load that goes on, and has received the list of p or has not.
LEMMA LoadStepsAccount ==
  ASSUME TypeOK, Exclusion, ListsAccounted, LoadSteps
  PROVE  ListsAccounted'
<1>1. PICK l \in loads : \/ ProjectsAnswered(l) \/ ProjectsFail(l) \/ LoadEnds(l)
                         \/ \E p \in Projects : TerminalsAnswered(l, p)
  BY DEF LoadSteps
<1>2. l \in Loads /\ ui \in States
  BY DEF TypeOK
<1>3. /\ l.stage = "projects" => l.asked = {} /\ l.missing = {}
      /\ l.asked \subseteq l.projects \ l.missing
      /\ IsPresent(l) => ~l.aborted /\ l.mutation = mutationGeneration /\ calls = {}
  BY DEF Exclusion, LoadsExclude, LoadsOrdered, PresentExcludes
<1>4. UNCHANGED <<server, calls, loadGeneration>>
  BY <1>1 DEF ProjectsAnswered, ProjectsFail, TerminalsAnswered, LoadEnds, generations
<1>5. CASE ProjectsAnswered(l)
  <2>1. PICK m : /\ loads' \subseteq (loads \ {l}) \cup {m} /\ loads \ {l} \subseteq loads'
                 /\ m.asked = m.projects
    <3>. DEFINE m == [l EXCEPT !.stage = "terminals", !.projects = known, !.asked = known]
    <3>1. m.asked = m.projects
      BY <1>2 DEF Loads
    <3>. QED  BY <1>5, <3>1 DEF ProjectsAnswered, Replace
  <2>2. \A p \in settled : ~Has(l, p) /\ ~Has(m, p)'
    BY <1>5, <2>1 DEF Has, ProjectsAnswered
  <2>3. UNCHANGED <<ui, settled>>
    BY <1>5 DEF ProjectsAnswered
  <2>. QED  BY <1>4, <2>1, <2>2, <2>3 DEF ListsAccounted, InAccount, Has, IsPresent
<1>6. CASE ProjectsFail(l)
  <2>1. \A p \in settled : ~Has(l, p)
    BY <1>6 DEF Has, ProjectsFail
  <2>2. ui'.lists = ui.lists /\ loads' = loads \ {l} /\ settled' = settled
    BY <1>2, <1>6 DEF ProjectsFail, LoadFinished, States
  <2>. QED  BY <1>4, <2>1, <2>2 DEF ListsAccounted, InAccount, Has, IsPresent
<1>7. CASE LoadEnds(l) /\ ~IsPresent(l)
  <2>1. ui' = ui /\ loads' = loads \ {l} /\ settled' = settled
    BY <1>7 DEF LoadEnds, LoadFinished, Overtaken, IsPresent
  <2>2. \A p : ~Has(l, p)
    BY <1>7 DEF Has
  <2>. QED  BY <1>4, <2>1, <2>2 DEF ListsAccounted, InAccount, Has, IsPresent
<1>8. CASE LoadEnds(l) /\ IsPresent(l)
  <2>1. ui'.lists = NextTerminals(l)
    <3>1. ui' = LoadFinished(l, Loaded(l))
      BY <1>3, <1>8 DEF LoadEnds, Overtaken, IsPresent
    <3>2. Loaded(l) \in States /\ Loaded(l).lists = NextTerminals(l)
      BY LoadedTyped, LoadedFlags
    <3>. QED  BY <3>1, <3>2 DEF LoadFinished, States
  <2>2. ui.lists = view.lists
    <3>1. BlockedBy(l, ui) /\ l.refresh \in BOOLEAN
      BY <1>2, <1>8 DEF Exclusion, LoadsExclude, PresentExcludes, Loads
    <3>2. Blocked(ui)
      BY <3>1 DEF BlockedBy, Blocked
    <3>. QED  BY <3>2 DEF Exclusion, RenderedWhenBlocked, SameButKey
  <2>3. \A m \in loads : m # l => ~IsPresent(m)
    BY <1>8 DEF Exclusion, LoadsExclude, OnePresent
  <2>4. loads' = loads \ {l} /\ settled' = settled /\ l.stage = "terminals" /\ l.asked = {}
    BY <1>8 DEF LoadEnds
  <2>5. \A m \in loads', p \in settled : ~Has(m, p)'
    BY <1>4, <2>3, <2>4 DEF Has, IsPresent
  <2>6. ASSUME NEW p \in settled
        PROVE  InAccount(p)'
    <3>1. p \in Projects
      BY DEF TypeOK
    <3>2. CASE p \in l.projects \ l.missing
      <4>1. Has(l, p)
        BY <1>8, <2>4, <3>2 DEF Has
      <4>2. ui'.lists[p] = Listed(server[p])
        BY <2>1, <3>1, <3>2, <4>1 DEF NextTerminals, ListsAccounted
      <4>3. Unique(Listed(server[p])) /\ Names(Listed(server[p])) = server[p]
        BY ListedNames
      <4>4. calls' = {} /\ server' = server
        BY <1>3, <1>4, <1>8
      <4>. QED  BY <4>2, <4>3, <4>4 DEF InAccount
    <3>3. CASE p \notin l.projects \ l.missing
      <4>1. ~Has(l, p)
        BY <3>3 DEF Has
      <4>2. \A m \in loads : ~Has(m, p)
        BY <2>3, <4>1 DEF Has
      <4>3. InAccount(p)
        BY <4>2 DEF ListsAccounted
      <4>4. ui'.lists[p] = ui.lists[p]
        BY <2>1, <2>2, <3>1, <3>3 DEF NextTerminals
      <4>. QED  BY <1>4, <4>3, <4>4, AccountStays
    <3>. QED  BY <3>2, <3>3
  <2>. QED  BY <2>4, <2>5, <2>6 DEF ListsAccounted
<1>9. ASSUME NEW q \in Projects, TerminalsAnswered(l, q)
      PROVE  ListsAccounted'
  <2>8. PICK ok : ok = [l EXCEPT !.asked = @ \ {q}, !.lists[q] = Listed(server[q])]
    OBVIOUS
  <2>9. PICK bad : bad = [l EXCEPT !.asked = @ \ {q}, !.missing = @ \cup {q}]
    OBVIOUS
  <2>1. /\ ok.gen = l.gen /\ ok.stage = l.stage /\ ok.asked = l.asked \ {q}
        /\ ok.projects = l.projects /\ ok.missing = l.missing
        /\ ok.lists = [l.lists EXCEPT ![q] = Listed(server[q])]
    BY <1>2, <2>8 DEF Loads
  <2>2. /\ bad.gen = l.gen /\ bad.stage = l.stage /\ bad.asked = l.asked \ {q}
        /\ bad.projects = l.projects /\ bad.missing = l.missing \cup {q} /\ bad.lists = l.lists
    BY <1>2, <2>9 DEF Loads
  <2>3. \/ /\ loads' = (loads \ {l}) \cup {ok}
           /\ settled' = IF Overtaken(l) THEN settled ELSE settled \cup {q}
        \/ loads' = (loads \ {l}) \cup {bad} /\ settled' = settled
    BY <1>9, <2>8, <2>9 DEF TerminalsAnswered, Replace
  <2>4. ui' = ui /\ q \in l.asked /\ l.stage = "terminals"
    BY <1>9 DEF TerminalsAnswered
  <2>5. l.lists \in Lists
    BY <1>2 DEF Loads
  <2>6. CASE loads' = (loads \ {l}) \cup {bad} /\ settled' = settled
    <3>1. \A p : Has(bad, p)' <=> Has(l, p)
      BY <1>4, <2>2, <2>4 DEF Has, IsPresent
    <3>. QED  BY <1>4, <2>2, <2>4, <2>6, <3>1 DEF ListsAccounted, InAccount, Has, IsPresent
  <2>7. CASE /\ loads' = (loads \ {l}) \cup {ok}
             /\ settled' = IF Overtaken(l) THEN settled ELSE settled \cup {q}
    <3>1. \A p : p # q => (Has(ok, p)' <=> Has(l, p))
      BY <1>4, <2>1 DEF Has, IsPresent
    <3>2. \A p \in Projects : p # q => ok.lists[p] = l.lists[p]
      BY <2>1, <2>5 DEF Lists
    <3>3. ok.lists[q] = Listed(server[q])
      BY <2>1, <2>5 DEF Lists
    <3>4. settled \subseteq Projects /\ settled' \subseteq settled \cup {q}
      BY <2>7 DEF TypeOK
    <3>5. ASSUME NEW p \in settled', p # q
          PROVE  /\ \A m \in loads' : Has(m, p)' => m.lists[p] = Listed(server[p])'
                 /\ (\A m \in loads' : ~Has(m, p)') => InAccount(p)'
      <4>1. p \in settled /\ p \in Projects
        BY <3>4, <3>5
      <4>2. \A m \in loads : m # l => (Has(m, p)' <=> Has(m, p)) /\ m \in loads'
        BY <1>4, <2>7 DEF Has, IsPresent
      <4>3. \A m \in loads' : m = ok \/ (m \in loads /\ m # l)
        BY <2>7
      <4>4. /\ \A m \in loads : Has(m, p) => m.lists[p] = Listed(server[p])
            /\ (\A m \in loads : ~Has(m, p)) => InAccount(p)
        BY <4>1 DEF ListsAccounted
      <4>5. Listed(server[p])' = Listed(server[p]) /\ ok \in loads' /\ (InAccount(p) => InAccount(p)')
        BY <1>4, <2>4, <2>7, AccountStays DEF Listed
      <4>6. ASSUME NEW m \in loads', Has(m, p)'
            PROVE  m.lists[p] = Listed(server[p])'
        <5>1. CASE m = ok
          BY <3>1, <3>2, <3>5, <4>1, <4>4, <4>5, <4>6, <5>1
        <5>2. CASE m # ok
          BY <4>2, <4>3, <4>4, <4>5, <4>6, <5>2
        <5>. QED  BY <5>1, <5>2
      <4>7. ASSUME \A m \in loads' : ~Has(m, p)'
            PROVE  InAccount(p)'
        <5>1. \A m \in loads : ~Has(m, p)
          BY <3>1, <3>5, <4>2, <4>5, <4>7
        <5>. QED  BY <4>4, <4>5, <5>1
      <4>. QED  BY <4>6, <4>7
    <3>6. ASSUME q \in settled'
          PROVE  /\ \A m \in loads' : Has(m, q)' => m.lists[q] = Listed(server[q])'
                 /\ (\A m \in loads' : ~Has(m, q)') => InAccount(q)'
      <4>1. CASE IsPresent(l)
        <5>1. Has(ok, q)' /\ ok \in loads'
          BY <1>3, <1>4, <2>1, <2>4, <2>7, <4>1 DEF Has, IsPresent
        <5>2. \A m \in loads' : m # ok => ~Has(m, q)'
          BY <1>4, <2>7, <4>1 DEF Exclusion, LoadsExclude, OnePresent, Has, IsPresent
        <5>3. Listed(server[q])' = Listed(server[q])
          BY <1>4 DEF Listed
        <5>. QED  BY <3>3, <5>1, <5>2, <5>3
      <4>2. CASE ~IsPresent(l)
        <5>1. q \in settled
          BY <2>7, <3>6, <4>2 DEF Overtaken, IsPresent
        <5>2. ~Has(l, q) /\ ~Has(ok, q)'
          BY <1>4, <2>1, <4>2 DEF Has, IsPresent
        <5>. QED  BY <1>4, <2>4, <2>7, <5>1, <5>2 DEF ListsAccounted, InAccount, Has, IsPresent
      <4>. QED  BY <4>1, <4>2
    <3>. QED  BY <3>5, <3>6 DEF ListsAccounted
  <2>. QED  BY <2>3, <2>6, <2>7
<1>. QED  BY <1>1, <1>5, <1>6, <1>7, <1>8, <1>9

\* Where no load is the present one, a list is in account.
LEMMA NoLoadAccounts ==
  ASSUME ListsAccounted, \A l \in loads : ~IsPresent(l)
  PROVE  \A p \in settled : InAccount(p)
BY DEF ListsAccounted, Has

LEMMA NoLoadAccounted ==
  ASSUME \A l \in loads' : ~IsPresent(l)', \A p \in settled' : InAccount(p)'
  PROVE  ListsAccounted'
BY DEF ListsAccounted, Has

\* The server handles a call, or the dashboard learns of it.
LEMMA CallStepsAccount ==
  ASSUME TypeOK, Exclusion, ListsAccounted, CallSteps
  PROVE  ListsAccounted'
<1>1. PICK c \in calls : Created(c) \/ Deleted(c) \/ CallAnswered(c) \/ CallFails(c)
  BY DEF CallSteps
<1>2. /\ c \in Calls /\ ui \in States /\ server \in [Projects -> SUBSET Windows]
      /\ c.project \in Projects /\ settled \subseteq Projects
  BY DEF TypeOK, Calls
<1>3. calls = {c} /\ IsCurrent(c)
  BY DEF Exclusion, CallsExclude, IsCurrent
<1>4. \A l \in loads : ~IsPresent(l)
  BY DEF Exclusion, LoadsExclude, PresentExcludes
<1>5. \A p \in settled : InAccount(p)
  BY <1>4, NoLoadAccounts
<1>6. UNCHANGED <<loads, loadGeneration>> /\ settled' \subseteq settled
  BY <1>1 DEF Created, Deleted, CallAnswered, CallFails, generations
<1>7. \A l \in loads' : ~IsPresent(l)'
  BY <1>4, <1>6 DEF IsPresent
<1>8. CASE Created(c)
  <2>1. PICK w \in (Windows \ Protected) \ server[c.project] :
               /\ server' = [server EXCEPT ![c.project] = @ \cup {w}]
               /\ ReplaceCall(c, [c EXCEPT !.handled = TRUE, !.window = w])
    BY <1>8 DEF Created
  <2>2. PICK d : d = [c EXCEPT !.handled = TRUE, !.window = w]
    OBVIOUS
  <2>3. d.kind = "create" /\ d.project = c.project /\ d.handled /\ d.window = w
    BY <1>2, <1>8, <2>2 DEF Calls, Created
  <2>4. calls' = {d} /\ ui' = ui /\ ~c.handled
    BY <1>3, <1>8, <2>1, <2>2 DEF ReplaceCall, Created
  <2>5. ASSUME NEW p \in settled
        PROVE  InAccount(p)'
    <3>1. Unique(ui.lists[p]) /\ Names(ui.lists[p]) = server[p]
      BY <1>3, <1>5, <2>4 DEF InAccount
    <3>2. CASE p = c.project
      <4>1. server'[p] = server[p] \cup {w} /\ w \notin server[p]
        BY <1>2, <2>1, <3>2
      <4>. QED  BY <2>3, <2>4, <3>1, <3>2, <4>1 DEF InAccount, AccountedFor
    <3>3. CASE p # c.project
      <4>1. server'[p] = server[p]
        BY <1>2, <2>1, <3>3
      <4>. QED  BY <2>3, <2>4, <3>1, <3>3, <4>1 DEF InAccount
    <3>. QED  BY <3>2, <3>3
  <2>. QED  BY <1>6, <1>7, <2>5, NoLoadAccounted
<1>9. CASE Deleted(c)
  <2>1. PICK d : d = [c EXCEPT !.handled = TRUE]
    OBVIOUS
  <2>2. d.kind = "delete" /\ d.project = c.project /\ d.handled /\ d.window = c.window
    BY <1>2, <1>9, <2>1 DEF Calls, Deleted
  <2>3. calls' = {d} /\ ui' = ui /\ ~c.handled
    BY <1>3, <1>9, <2>1 DEF ReplaceCall, Deleted
  <2>4. ASSUME NEW p \in settled
        PROVE  InAccount(p)'
    <3>1. Unique(ui.lists[p]) /\ Names(ui.lists[p]) = server[p]
      BY <1>3, <1>5, <2>3 DEF InAccount
    <3>2. CASE p = c.project
      <4>1. server'[p] = server[p] \ {c.window}
        BY <1>2, <1>9, <3>2 DEF Deleted
      <4>. QED  BY <2>2, <2>3, <3>1, <3>2, <4>1 DEF InAccount, AccountedFor
    <3>3. CASE p # c.project
      <4>1. server'[p] = server[p]
        BY <1>2, <1>9, <3>3 DEF Deleted
      <4>. QED  BY <2>2, <2>3, <3>1, <3>3, <4>1 DEF InAccount
    <3>. QED  BY <3>2, <3>3
  <2>. QED  BY <1>6, <1>7, <2>4, NoLoadAccounted
<1>10. CASE CallAnswered(c)
  <2>. DEFINE e == [since |-> mutationGeneration + 1, window |-> c.window]
  <2>1. ui' = AfterCall(c) /\ calls' = {} /\ server' = server /\ c.handled
    BY <1>3, <1>10 DEF CallAnswered
  <2>2. e.window = c.window
    OBVIOUS
  <2>3. ui'.lists = [ui.lists EXCEPT ![c.project] =
                       IF c.kind = "create" THEN @ \cup {e} ELSE {f \in @ : f.window # c.window}]
    BY <1>2, <2>1 DEF AfterCall, AfterCreate, AfterDelete, States
  <2>4. ui.lists \in Lists
    BY <1>2 DEF States
  <2>. HIDE DEF e
  <2>5. ASSUME NEW p \in settled
        PROVE  InAccount(p)'
    <3>1. CASE p = c.project
      <4>1. Unique(ui.lists[p]) /\ AccountedFor(c, Names(ui.lists[p]), server[p])
        BY <1>3, <1>5, <2>1, <3>1 DEF InAccount
      <4>2. CASE c.kind = "create"
        <5>1. ui'.lists[p] = ui.lists[p] \cup {e}
          BY <1>2, <2>3, <2>4, <3>1, <4>2 DEF Lists
        <5>2. Unique(ui'.lists[p])
          BY <2>2, <4>1, <4>2, <5>1 DEF AccountedFor, Unique, Names
        <5>3. Names(ui'.lists[p]) = server[p]
          BY <2>2, <4>1, <4>2, <5>1 DEF AccountedFor, Names
        <5>. QED  BY <2>1, <5>2, <5>3 DEF InAccount
      <4>3. CASE c.kind # "create"
        <5>1. ui'.lists[p] = {f \in ui.lists[p] : f.window # c.window}
          BY <1>2, <2>3, <2>4, <3>1, <4>3 DEF Lists
        <5>2. Unique(ui'.lists[p])
          BY <4>1, <5>1 DEF Unique
        <5>3. Names(ui'.lists[p]) = server[p]
          BY <4>1, <4>3, <5>1 DEF AccountedFor, Names
        <5>. QED  BY <2>1, <5>2, <5>3 DEF InAccount
      <4>. QED  BY <4>2, <4>3
    <3>2. CASE p # c.project
      <4>1. ui'.lists[p] = ui.lists[p]
        BY <1>2, <2>3, <2>4, <3>2 DEF Lists
      <4>2. Unique(ui.lists[p]) /\ Names(ui.lists[p]) = server[p]
        BY <1>3, <1>5, <3>2 DEF InAccount
      <4>. QED  BY <2>1, <4>1, <4>2 DEF InAccount
    <3>. QED  BY <3>1, <3>2
  <2>. QED  BY <1>6, <1>7, <2>5, NoLoadAccounted
<1>11. CASE CallFails(c)
  <2>1. calls' = {} /\ server' = server /\ (c.handled => c.project \notin settled')
    BY <1>3, <1>11 DEF CallFails
  <2>2. ui'.lists = ui.lists
    BY <1>2, <1>11 DEF CallFails, States
  <2>3. ASSUME NEW p \in settled'
        PROVE  InAccount(p)'
    <3>1. Unique(ui.lists[p]) /\ Names(ui.lists[p]) = server[p]
      BY <1>3, <1>5, <1>6, <2>1 DEF InAccount
    <3>. QED  BY <2>1, <2>2, <3>1 DEF InAccount
  <2>. QED  BY <1>7, <2>3, NoLoadAccounted
<1>. QED  BY <1>1, <1>8, <1>9, <1>10, <1>11

\* No step loses account.
LEMMA NextAccounts == TypeOK /\ Exclusion /\ ListsAccounted /\ [Next]_vars => ListsAccounted'
<1>. SUFFICES ASSUME TypeOK, Exclusion, ListsAccounted, [Next]_vars
              PROVE  ListsAccounted'
  OBVIOUS
<1>1. CASE UNCHANGED vars \/ Reload
  BY <1>1, AccountsStay DEF vars, Reload, generations
<1>2. CASE \/ Render \/ Effect
           \/ \E p \in Projects : SelectProject(p) \/ \E w \in Windows : SelectTerminal(p, w)
  BY <1>2, SelectionsExclude, AccountsStay
<1>3. CASE Refresh
  <2>1. \A l \in loads : ~IsPresent(l)
    <3>1. \A l \in loads : l.gen \in Nat /\ l.gen < loadGeneration
      BY <1>3, NothingUnderWay DEF Refresh, TypeOK, Loads
    <3>. QED  BY <3>1 DEF IsPresent, TypeOK
  <2>2. /\ \A l \in loads' : l \in loads \/ l.stage = "projects"
        /\ \A l \in loads : l.gen <= loadGeneration /\ loadGeneration \in Nat /\ l.gen \in Nat
    BY <1>3 DEF Refresh, NewLoad, Exclusion, LoadsExclude, LoadsOrdered, TypeOK, Loads
  <2>3. \A l \in loads' : \A p : ~Has(l, p)'
    <3>1. loadGeneration' = loadGeneration + 1
      BY <1>3 DEF Refresh
    <3>2. \A l \in loads : l.gen # loadGeneration'
      BY <2>2, <3>1
    <3>. QED  BY <2>2, <3>2 DEF Has, IsPresent
  <2>7. [ui EXCEPT !.refreshing = TRUE] \in States /\ [ui EXCEPT !.refreshing = TRUE].lists = ui.lists
    BY DEF TypeOK, States
  <2>4. ui'.lists = ui.lists /\ UNCHANGED <<server, calls, settled>>
    BY <1>3, <2>7, FlushedKey DEF Refresh, Click, SameButKey
  <2>5. \A p \in settled : InAccount(p)
    BY <2>1, NoLoadAccounts
  <2>6. \A p \in settled' : InAccount(p)'
    BY <2>4, <2>5, AccountStays
  <2>. QED  BY <2>3, <2>6 DEF ListsAccounted
<1>4. CASE ApplyToken
  BY <1>4 DEF ApplyToken, ListsAccounted
<1>5. CASE HandleCreateTerminal \/ HandleCloseTerminal
  <2>1. PICK c : calls' = {c} /\ ~c.handled
    BY <1>5, CallStarts
  <2>2. ui'.lists = ui.lists /\ ~Blocked(view)
    BY <1>5, CallStarts DEF HandleCreateTerminal, HandleCloseTerminal
  <2>3. calls = {} /\ \A l \in loads : ~IsPresent(l)
    <3>1. \A l \in loads : l.gen \in Nat /\ l.gen < loadGeneration
      BY <2>2, NothingUnderWay DEF TypeOK, Loads
    <3>. QED  BY <2>2, <3>1, NothingUnderWay DEF IsPresent, TypeOK
  <2>4. UNCHANGED <<server, loads, loadGeneration, settled>>
    BY <1>5 DEF HandleCreateTerminal, HandleCloseTerminal, generations
  <2>5. \A p \in settled : Unique(ui.lists[p]) /\ Names(ui.lists[p]) = server[p]
    BY <2>3, NoLoadAccounts DEF InAccount
  <2>6. \A p \in settled' : InAccount(p)'
    BY <2>1, <2>2, <2>4, <2>5 DEF InAccount
  <2>7. \A l \in loads' : ~IsPresent(l)'
    BY <2>3, <2>4 DEF IsPresent
  <2>. QED  BY <2>6, <2>7, NoLoadAccounted
<1>6. ASSUME NEW q \in Projects, OtherClient(q)
      PROVE  ListsAccounted'
  <2>1. /\ \A p \in settled' : p \in settled /\ server'[p] = server[p]
        /\ UNCHANGED <<ui, loads, calls, generations>>
    BY <1>6 DEF OtherClient, TypeOK
  <2>2. \A p \in settled' : InAccount(p) => InAccount(p)'
    BY <2>1, AccountStays
  <2>. QED  BY <2>1, <2>2 DEF ListsAccounted, Has, IsPresent, Listed, generations
<1>. QED  BY <1>1, <1>2, <1>3, <1>4, <1>5, <1>6, LoadStepsAccount, CallStepsAccount DEF Next

(* The dashboard lists what the server has of every project it was told of and nobody else   *)
(* changed (loadWorkspace, handleCreateTerminal and handleCloseTerminal), for any number of   *)
(* projects, windows, loads and calls.                                                       *)
THEOREM StaysInStep == Spec => []InStep
<1>1. Init => Exclusion /\ ListsAccounted
  BY InitExcluded, InitAccounted
<1>2. TypeOK /\ Exclusion /\ ListsAccounted => InStep
  <2>. SUFFICES ASSUME TypeOK, Exclusion, ListsAccounted, ~Blocked(view), NEW p \in settled
                PROVE  Names(view.lists[p]) = server[p] /\ Unique(view.lists[p])
    BY DEF InStep, Names, Unique
  <2>1. ui.lists = view.lists /\ calls = {}
    BY NothingUnderWay DEF SameButKey
  <2>2. \A l \in loads : ~IsPresent(l)
    <3>1. \A l \in loads : l.gen \in Nat /\ l.gen < loadGeneration
      BY NothingUnderWay DEF TypeOK, Loads
    <3>. QED  BY <3>1 DEF IsPresent, TypeOK
  <2>3. InAccount(p)
    BY <2>2, NoLoadAccounts
  <2>. QED  BY <2>1, <2>3 DEF InAccount
<1>. QED  BY <1>1, <1>2, InitTyped, NextTyped, NextExcludes, NextAccounts, PTL DEF Spec

=============================================================================
