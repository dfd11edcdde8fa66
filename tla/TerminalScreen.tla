---------------------------- MODULE TerminalScreen ----------------------------
(***************************************************************************)
(* What the dashboard shows of one terminal: the messages of its socket    *)
(* go into a buffer of the App (web/src/main.tsx), the buffer is rendered, *)
(* and an effect of TerminalSurface writes what is new to xterm.           *)
(*                                                                         *)
(* Messages are numbered as they are sent.  The chunks of a buffer, and    *)
(* what was written since the screen was last reset, follow one another,   *)
(* so that the first and the last of them say which ones they are.         *)
(***************************************************************************)
EXTENDS Integers

CONSTANTS
  MaxBufferedChunks, RetainedBufferedChunks,
  MaxBatch,      \* assumption: how many chunks come between two renders
  MaxMessages    \* bound: how many messages are sent

ASSUME ChunksAssumption ==
  /\ MaxBufferedChunks \in Nat \ {0} /\ RetainedBufferedChunks \in 1..MaxBufferedChunks
  /\ MaxBatch \in Nat

VARIABLES
  sent,       \* the number of messages so far
  attached,   \* the socket is attached: its snapshot has come
  buffer,     \* the chunks first..last, and the number of the snapshot they follow
  batch,      \* chunks since the last render
  mounted,    \* the surface of the terminal is there
  leaving,    \* it goes with the next render
  accepted,   \* its callbacks are of the present credentials
  rendered,   \* the buffer of the last render
  due,        \* the effect of that render is yet to come
  written, revision,  \* the refs of the surface
  screen,     \* what was written since the last reset, and how much
  cleared     \* messages sent before the first surface of the present token

vars == <<sent, attached, buffer, batch, mounted, leaving, accepted, rendered, due, written,
          revision, screen, cleared>>

Length(b) == b.last - b.first + 1
NoBuffer == [revision |-> 0, snapshot |-> 0, first |-> sent + 1, last |-> sent]
\* Nothing is written, and n comes next.
Blank(n) == [first |-> n, last |-> n - 1, count |-> 0]

Init ==
  /\ sent = 0 /\ attached = FALSE /\ buffer = NoBuffer /\ batch = 0
  /\ mounted = FALSE /\ leaving = FALSE /\ accepted = TRUE
  /\ rendered = buffer /\ due = FALSE /\ written = 0 /\ revision = 0
  /\ screen = Blank(1) /\ cleared = 0

-----------------------------------------------------------------------------
(* Messages. *)

\* Mutant: what comes for a surface of earlier credentials is taken.
AcceptsAny == TRUE

AcceptsMessages == accepted

\* A buffer once message n is appended: too long a one loses its oldest chunks.
Append(b, n) ==
  IF Length(b) + 1 > MaxBufferedChunks
  THEN [b EXCEPT !.first = n - RetainedBufferedChunks + 1, !.last = n]
  ELSE [b EXCEPT !.last = n]

\* The next bytes of the terminal.
Data ==
  /\ mounted /\ attached /\ sent < MaxMessages /\ batch < MaxBatch
  /\ sent' = sent + 1
  /\ IF AcceptsMessages
     THEN /\ buffer' = Append(buffer, sent')
          /\ batch' = batch + 1
     ELSE UNCHANGED <<buffer, batch>>
  /\ UNCHANGED <<attached, mounted, leaving, accepted, rendered, due, written, revision, screen,
                 cleared>>

\* A socket is attached: the snapshot, which may be empty, replaces what is buffered.
Snapshot ==
  /\ mounted /\ ~attached /\ sent < MaxMessages
  /\ attached' = TRUE /\ sent' = sent + 1
  /\ \E first \in {sent + 1, sent + 2} :
       buffer' = IF AcceptsMessages
                 THEN [revision |-> buffer.revision + 1, snapshot |-> sent',
                       first |-> first, last |-> sent']
                 ELSE buffer
  /\ UNCHANGED <<batch, mounted, leaving, accepted, rendered, due, written, revision, screen,
                 cleared>>

\* The socket is lost, and with it what the terminal says until another one is attached.
Detach ==
  /\ attached /\ sent < MaxMessages
  /\ attached' = FALSE /\ sent' = sent + 1
  /\ UNCHANGED <<buffer, batch, mounted, leaving, accepted, rendered, due, written, revision,
                 screen, cleared>>

-----------------------------------------------------------------------------
(* Renders and effects. *)

Render ==
  /\ mounted /\ ~leaving /\ ~due /\ buffer # rendered
  /\ rendered' = buffer /\ due' = TRUE /\ batch' = 0
  /\ UNCHANGED <<sent, attached, buffer, mounted, leaving, accepted, written, revision, screen,
                 cleared>>

\* Mutant: the length alone tells whether the chunks are others.
ResetIfShorter == written > Length(rendered)
\* Mutant: the revision alone tells it.
ResetIfRevised == revision # rendered.revision

NeedsReset == revision # rendered.revision \/ written > Length(rendered)

\* The screen once the messages from..to are written.
Written(s, from, to) ==
  [first |-> s.first, last |-> IF from <= to THEN to ELSE s.last, count |-> s.count + (to - from + 1)]

\* The effect that writes: where the chunks are others, all of them after a reset.
WriteEffect ==
  /\ mounted /\ due
  /\ screen' = IF NeedsReset
               THEN Written(Blank(rendered.first), rendered.first, rendered.last)
               ELSE Written(screen, rendered.first + written, rendered.last)
  /\ written' = Length(rendered) /\ revision' = rendered.revision
  /\ due' = FALSE
  /\ UNCHANGED <<sent, attached, buffer, batch, mounted, leaving, accepted, rendered, cleared>>

\* The terminal is selected: a new xterm, and refs that know the buffer's revision.
Mount ==
  /\ ~mounted
  /\ mounted' = TRUE /\ accepted' = TRUE
  /\ rendered' = buffer /\ due' = TRUE /\ batch' = 0
  /\ written' = 0 /\ revision' = buffer.revision
  /\ screen' = Blank(buffer.first)
  /\ cleared' = IF accepted THEN cleared ELSE sent
  /\ UNCHANGED <<sent, attached, buffer, leaving>>

\* Another terminal is selected, or this one is gone: the controller stops; the buffer stays.
Unmount ==
  /\ mounted
  /\ mounted' = FALSE /\ leaving' = FALSE /\ attached' = FALSE
  /\ due' = FALSE /\ written' = 0
  /\ UNCHANGED <<sent, buffer, batch, accepted, rendered, revision, screen, cleared>>

\* The terminal was closed: its buffer is deleted, and its surface, if it is the one that is
\* selected when the answer comes, goes with the next render.
Close ==
  /\ ~leaving
  /\ leaving' = mounted
  /\ buffer' = NoBuffer /\ batch' = 0
  /\ UNCHANGED <<sent, attached, mounted, accepted, rendered, due, written, revision, screen,
                 cleared>>

\* Another token is applied: all buffers are deleted, all surfaces go.
ApplyToken ==
  /\ leaving' = mounted /\ accepted' = FALSE
  /\ buffer' = NoBuffer /\ batch' = 0
  /\ UNCHANGED <<sent, attached, mounted, rendered, due, written, revision, screen, cleared>>

Next ==
  \/ Data \/ Snapshot \/ Detach
  \/ Render \/ WriteEffect \/ Mount \/ Unmount \/ Close \/ ApplyToken

Spec == Init /\ [][Next]_vars

-----------------------------------------------------------------------------
(* Properties. *)

Buffers == [revision : Nat, snapshot : Nat, first : Nat, last : Nat]

TypeOK ==
  /\ sent \in Nat /\ batch \in Nat /\ written \in Nat /\ revision \in Nat /\ cleared \in Nat
  /\ buffer \in Buffers /\ rendered \in Buffers
  /\ screen \in [first : Nat, last : Nat, count : Int]
  /\ attached \in BOOLEAN /\ mounted \in BOOLEAN /\ leaving \in BOOLEAN
  /\ accepted \in BOOLEAN /\ due \in BOOLEAN

Shows == mounted /\ ~due

(* Once a render's effect has run, what the screen was given since its last reset are       *)
(* messages without a gap and without a repetition, up to the last one of that render: the  *)
(* trimming of the buffer loses nothing that is not on the screen already.                  *)
ScreenIsWhole ==
  Shows => /\ screen.last = rendered.last
           /\ screen.count = screen.last - screen.first + 1

(* A snapshot replaces the screen: nothing from before it stays.                            *)
SnapshotReplaces == Shows /\ screen.count > 0 => screen.first >= rendered.snapshot

(* Output that was received under an earlier token is not shown under a later one.          *)
NothingSurvivesToken ==
  mounted /\ ~leaving /\ screen.count > 0 => screen.first > cleared

=============================================================================
