------------------------- MODULE TerminalScreenProofs -------------------------
(***************************************************************************)
(* Proofs about TerminalScreen, for every size of the buffer: a snapshot   *)
(* replaces the screen, and what an earlier token received is never shown, *)
(* however many chunks come between two renders; the screen is whole if no *)
(* more of them come than a trimming takes away.                           *)
(***************************************************************************)
EXTENDS TerminalScreen, TLAPS

\* The buffer keeps up with the renders.
BatchFits == MaxBatch <= MaxBufferedChunks - RetainedBufferedChunks

-----------------------------------------------------------------------------
(* The inductive invariant. *)

\* A buffer holds no more than it may, and nothing from before its snapshot.
Sound(b) ==
  /\ 0 <= Length(b) /\ Length(b) <= MaxBufferedChunks
  /\ b.snapshot <= b.first /\ 1 <= b.first

\* The buffer ends with what was sent; what refused callbacks leave behind is empty.
BufferInv ==
  /\ Sound(buffer) /\ buffer.last <= sent
  /\ ~mounted => ~attached /\ ~leaving
  /\ mounted /\ ~accepted => leaving
  /\ attached /\ accepted => buffer.last = sent
  /\ ~accepted => Length(buffer) = 0 /\ buffer.revision = 0

\* Revisions only grow, and each is that of one snapshot.
RevisionInv ==
  mounted /\ ~leaving =>
    /\ revision <= rendered.revision /\ rendered.revision <= buffer.revision
    /\ rendered.revision = buffer.revision =>
         /\ rendered.snapshot = buffer.snapshot
         /\ Length(rendered) > 0 => Length(buffer) > 0

\* What is on the screen is of the snapshot that the refs know.
ScreenInv ==
  mounted =>
    /\ Sound(rendered) /\ 0 <= screen.count
    /\ screen.count = 0 => written = 0
    /\ ~due => revision = rendered.revision /\ written = Length(rendered)
    /\ revision = rendered.revision =>
         /\ screen.first >= rendered.snapshot
         /\ written > 0 => Length(rendered) > 0

\* Chunks of an earlier token are neither buffered, nor rendered, nor on the screen: where its
\* first position is an old one, nothing is written there, and nothing will be but by a reset.
TokenInv ==
  /\ cleared <= sent
  /\ Length(buffer) > 0 \/ buffer.revision > 0 => buffer.first > cleared
  /\ mounted /\ ~leaving =>
       /\ Length(rendered) > 0 \/ rendered.revision > 0 => rendered.first > cleared
       /\ \/ screen.first > cleared
          \/ /\ screen.count = 0
             /\ buffer.revision = revision => Length(buffer) = 0 /\ ~attached
             /\ rendered.revision = revision => Length(rendered) = 0

Base == TypeOK /\ BufferInv /\ RevisionInv /\ ScreenInv /\ TokenInv

\* The buffer is the rendered one and the batch that came since, as far as it was kept.
BatchInv ==
  mounted /\ ~leaving =>
    /\ batch <= MaxBatch
    /\ rendered.revision = buffer.revision =>
         /\ buffer.last = rendered.last + batch
         /\ \/ buffer.first = rendered.first
            \/ /\ Length(rendered) + batch > MaxBufferedChunks
               /\ Length(buffer) = Length(rendered) + batch
                                   - (MaxBufferedChunks + 1 - RetainedBufferedChunks)

\* The refs tell what is on the screen; where they call for no reset, what is new comes next.
RefsInv ==
  mounted =>
    /\ screen.count = screen.last - screen.first + 1
    /\ written <= MaxBufferedChunks
    /\ ~due => screen.last = rendered.last
    /\ revision = rendered.revision =>
         written > Length(rendered) \/ rendered.first + written = screen.last + 1

Whole == Base /\ BatchInv /\ RefsInv

USE ChunksAssumption

LEMMA InitWhole == Init => Whole
<1> SUFFICES ASSUME Init PROVE Whole
  OBVIOUS
<1>1. /\ buffer = [revision |-> 0, snapshot |-> 0, first |-> 1, last |-> 0] /\ rendered = buffer
      /\ screen = [first |-> 1, last |-> 0, count |-> 0]
  BY DEF Init, NoBuffer, Blank
<1>2. TypeOK
  <2>1. buffer \in Buffers /\ rendered \in Buffers
    BY <1>1 DEF Buffers
  <2>2. screen \in [first : Nat, last : Nat, count : Int]
    BY <1>1
  <2> QED BY <2>1, <2>2 DEF Init, TypeOK
<1>3. BufferInv
  BY <1>1 DEF Init, BufferInv, Sound, Length
<1>4. RevisionInv /\ ScreenInv /\ TokenInv
  BY <1>1 DEF Init, RevisionInv, ScreenInv, TokenInv, Length
<1>5. BatchInv /\ RefsInv
  BY <1>1 DEF Init, BatchInv, RefsInv, Length
<1> QED BY <1>2, <1>3, <1>4, <1>5 DEF Whole, Base

\* The empty buffer.
LEMMA NoBufferSound ==
  ASSUME TypeOK
  PROVE  /\ NoBuffer \in Buffers /\ Sound(NoBuffer) /\ Length(NoBuffer) = 0 /\ NoBuffer.last = sent
BY DEF NoBuffer, TypeOK, Buffers, Sound, Length

-----------------------------------------------------------------------------
(* Messages keep what holds for batches of any length. *)

\* What appending a message does to a sound buffer that ends just before it.
LEMMA Appended ==
  ASSUME NEW b \in Buffers, Sound(b), NEW c, c = Append(b, b.last + 1)
  PROVE  /\ c \in Buffers /\ Sound(c) /\ c.last = b.last + 1
         /\ c.revision = b.revision /\ c.snapshot = b.snapshot /\ c.first >= b.first
         /\ \/ c.first = b.first /\ Length(b) < MaxBufferedChunks
            \/ Length(b) = MaxBufferedChunks /\ Length(c) = RetainedBufferedChunks
<1>1. CASE Length(b) + 1 > MaxBufferedChunks
  <2> DEFINE n == b.last + 1
  <2>1. c = [b EXCEPT !.first = n - RetainedBufferedChunks + 1, !.last = n]
    BY <1>1 DEF Append
  <2>2. /\ c.first = n - RetainedBufferedChunks + 1 /\ c.last = n
        /\ c.revision = b.revision /\ c.snapshot = b.snapshot
    BY <2>1 DEF Buffers
  <2>3. Length(b) = MaxBufferedChunks /\ Length(c) = RetainedBufferedChunks
    BY <1>1, <2>2 DEF Buffers, Sound, Length
  <2>4. c.first >= b.first
    BY <2>2, <2>3 DEF Buffers, Length
  <2>5. c \in Buffers
    <3>1. n \in Nat /\ n - RetainedBufferedChunks + 1 \in Nat
      BY <2>2, <2>4 DEF Buffers, Sound
    <3> QED BY <2>1, <3>1 DEF Buffers
  <2>6. Sound(c)
    BY <2>2, <2>3, <2>4 DEF Buffers, Sound
  <2> QED BY <2>2, <2>3, <2>4, <2>5, <2>6
<1>2. CASE ~(Length(b) + 1 > MaxBufferedChunks)
  <2>1. c = [b EXCEPT !.last = b.last + 1]
    BY <1>2 DEF Append
  <2> QED BY <1>2, <2>1 DEF Buffers, Sound, Length
<1> QED BY <1>1, <1>2

LEMMA DataBase == ASSUME Base, Data PROVE Base'
<1> USE DEF Base
<1>0. /\ mounted /\ attached /\ sent' = sent + 1
      /\ UNCHANGED <<attached, mounted, leaving, accepted, rendered, due, written, revision,
                     screen, cleared>>
  BY DEF Data
<1>1. CASE accepted
  <2>1. buffer' = Append(buffer, buffer.last + 1) /\ batch' = batch + 1 /\ buffer.last = sent
    BY <1>0, <1>1 DEF Data, AcceptsMessages, BufferInv
  <2>2. /\ buffer' \in Buffers /\ Sound(buffer)' /\ buffer'.last = buffer.last + 1
        /\ buffer'.revision = buffer.revision /\ buffer'.snapshot = buffer.snapshot
        /\ buffer'.first >= buffer.first
        /\ \/ buffer'.first = buffer.first /\ Length(buffer) < MaxBufferedChunks
           \/ Length(buffer) = MaxBufferedChunks /\ Length(buffer') = RetainedBufferedChunks
    BY <2>1, Appended DEF TypeOK, BufferInv, Sound, Length
  <2>3. TypeOK'
    BY <1>0, <2>1, <2>2 DEF TypeOK
  <2>4. BufferInv'
    BY <1>0, <1>1, <2>1, <2>2 DEF BufferInv
  <2>5. Length(buffer') > 0
    BY <2>2 DEF BufferInv, Sound, Length, TypeOK, Buffers
  <2>6. RevisionInv' /\ ScreenInv'
    BY <1>0, <2>2, <2>5 DEF RevisionInv, ScreenInv, Sound, Length
  <2>7. buffer'.first > cleared
    BY <2>1, <2>2 DEF TokenInv, BufferInv, Sound, Length, TypeOK, Buffers
  <2>8. TokenInv'
    BY <1>0, <2>1, <2>2, <2>7 DEF TokenInv, Length, TypeOK
  <2> QED BY <2>3, <2>4, <2>6, <2>8
<1>2. CASE ~accepted
  <2>1. UNCHANGED <<buffer, batch>>
    BY <1>2 DEF Data, AcceptsMessages
  <2>2. TypeOK' /\ RevisionInv' /\ ScreenInv' /\ TokenInv'
    BY <1>0, <2>1 DEF TypeOK, RevisionInv, ScreenInv, TokenInv, Sound, Length
  <2>3. BufferInv'
    BY <1>0, <1>2, <2>1 DEF TypeOK, Buffers, BufferInv, Sound, Length
  <2> QED BY <2>2, <2>3
<1> QED BY <1>1, <1>2

LEMMA SnapshotBase == ASSUME Base, Snapshot PROVE Base'
<1> USE DEF Base
<1>0. /\ mounted /\ sent' = sent + 1 /\ attached' = TRUE
      /\ UNCHANGED <<batch, mounted, leaving, accepted, rendered, due, written, revision, screen,
                     cleared>>
  BY DEF Snapshot
<1>1. CASE accepted
  <2>1. PICK first \in {sent + 1, sent + 2} :
          buffer' = [revision |-> buffer.revision + 1, snapshot |-> sent + 1, first |-> first,
                     last |-> sent + 1]
    BY <1>0, <1>1 DEF Snapshot, AcceptsMessages
  <2>2. TypeOK'
    BY <1>0, <2>1 DEF TypeOK, Buffers
  <2>3. BufferInv'
    BY <1>0, <1>1, <2>1 DEF TypeOK, Buffers, BufferInv, Sound, Length
  <2>4. RevisionInv' /\ ScreenInv'
    BY <1>0, <2>1 DEF TypeOK, Buffers, RevisionInv, ScreenInv, Sound, Length
  <2>5. TokenInv'
    BY <1>0, <2>1 DEF TypeOK, Buffers, TokenInv, RevisionInv, Length
  <2> QED BY <2>2, <2>3, <2>4, <2>5
<1>2. CASE ~accepted
  <2>1. UNCHANGED buffer
    BY <1>2 DEF Snapshot, AcceptsMessages
  <2>2. mounted /\ leaving
    BY <1>0, <1>2 DEF BufferInv
  <2>3. TypeOK' /\ RevisionInv' /\ ScreenInv' /\ TokenInv'
    BY <1>0, <2>1, <2>2 DEF TypeOK, RevisionInv, ScreenInv, TokenInv, Sound, Length
  <2>4. BufferInv'
    BY <1>0, <1>2, <2>1 DEF TypeOK, Buffers, BufferInv, Sound, Length
  <2> QED BY <2>3, <2>4
<1> QED BY <1>1, <1>2

LEMMA DetachBase == ASSUME Base, Detach PROVE Base'
<1> USE DEF Base
<1>0. /\ sent' = sent + 1 /\ attached' = FALSE
      /\ UNCHANGED <<buffer, batch, mounted, leaving, accepted, rendered, due, written, revision,
                     screen, cleared>>
  BY DEF Detach
<1>1. TypeOK'
  <2>1. sent' \in Nat
    BY <1>0 DEF TypeOK
  <2>2. attached' \in BOOLEAN
    BY <1>0
  <2> QED BY <1>0, <2>1, <2>2 DEF TypeOK
<1>2. RevisionInv' /\ ScreenInv'
  BY <1>0 DEF RevisionInv, ScreenInv, Sound, Length
<1>3. BufferInv' /\ TokenInv'
  BY <1>0 DEF TypeOK, Buffers, BufferInv, TokenInv, Sound, Length
<1> QED BY <1>1, <1>2, <1>3

-----------------------------------------------------------------------------
(* Renders and effects keep what holds for batches of any length. *)

LEMMA RenderBase == ASSUME Base, Render PROVE Base'
<1> USE DEF Base
<1>0. /\ mounted /\ ~leaving /\ ~due /\ rendered' = buffer /\ due' = TRUE /\ batch' = 0
      /\ UNCHANGED <<sent, attached, buffer, mounted, leaving, accepted, written, revision,
                     screen, cleared>>
  BY DEF Render
<1>1. TypeOK' /\ BufferInv'
  BY <1>0 DEF TypeOK, BufferInv, Sound, Length
<1>2. RevisionInv'
  BY <1>0 DEF TypeOK, Buffers, RevisionInv
<1>3. ScreenInv'
  BY <1>0 DEF TypeOK, Buffers, BufferInv, RevisionInv, ScreenInv, Sound, Length
<1>4. TokenInv'
  BY <1>0 DEF TokenInv, Length
<1> QED BY <1>1, <1>2, <1>3, <1>4

\* What the effect writes, and what is on the screen then.
LEMMA Effected ==
  ASSUME Base, WriteEffect
  PROVE  /\ screen' \in [first : Nat, last : Nat, count : Int]
         /\ 0 <= screen'.count /\ screen'.first >= rendered.snapshot
         /\ screen'.count = 0 => Length(rendered) = 0
         /\ \/ screen'.first = rendered.first /\ NeedsReset
            \/ screen'.first = screen.first /\ ~NeedsReset
<1>0. /\ mounted /\ rendered \in Buffers /\ Sound(rendered) /\ written \in Nat
      /\ screen \in [first : Nat, last : Nat, count : Int] /\ 0 <= screen.count
      /\ screen.count = 0 => written = 0
      /\ revision = rendered.revision => screen.first >= rendered.snapshot
  BY DEF Base, TypeOK, ScreenInv, WriteEffect
<1>1. CASE NeedsReset
  BY <1>0, <1>1 DEF WriteEffect, Written, Blank, Buffers, Sound, Length
<1>2. CASE ~NeedsReset
  BY <1>0, <1>2 DEF WriteEffect, NeedsReset, Written, Buffers, Sound, Length
<1> QED BY <1>1, <1>2

LEMMA WriteEffectBase == ASSUME Base, WriteEffect PROVE Base'
<1> USE DEF Base
<1>0. /\ mounted /\ due /\ due' = FALSE
      /\ written' = Length(rendered) /\ revision' = rendered.revision
      /\ UNCHANGED <<sent, attached, buffer, batch, mounted, leaving, accepted, rendered, cleared>>
      /\ rendered \in Buffers /\ Sound(rendered)
  BY DEF WriteEffect, TypeOK, ScreenInv
<1>1. TypeOK'
  <2>1. written' \in Nat /\ revision' \in Nat
    BY <1>0 DEF Buffers, Sound, Length
  <2> QED BY <1>0, <2>1, Effected DEF TypeOK
<1>2. BufferInv' /\ RevisionInv'
  BY <1>0 DEF BufferInv, RevisionInv, Sound, Length, TypeOK, Buffers
<1>3. ScreenInv'
  BY <1>0, Effected DEF ScreenInv, Sound, Length, Buffers
<1>4. TokenInv'
  <2>1. CASE leaving
    BY <1>0, <2>1 DEF TokenInv, Length
  <2>2. CASE ~leaving /\ NeedsReset
    <3>1. Length(rendered) > 0 \/ rendered.revision > 0
      <4>1. CASE revision # rendered.revision
        BY <1>0, <2>2, <4>1 DEF RevisionInv, TypeOK, Buffers
      <4>2. CASE written > Length(rendered) /\ revision = rendered.revision
        BY <1>0, <4>2 DEF ScreenInv, TypeOK, Sound, Length, Buffers
      <4> QED BY <2>2, <4>1, <4>2 DEF NeedsReset
    <3>2. screen'.first > cleared
      BY <1>0, <2>2, <3>1, Effected DEF TokenInv
    <3> QED BY <1>0, <2>2, <3>2 DEF TokenInv, Length
  <2>3. CASE ~leaving /\ ~NeedsReset
    <3>1. screen'.first = screen.first /\ revision = rendered.revision
      BY <2>3, Effected DEF NeedsReset
    <3>2. CASE screen.first > cleared
      BY <1>0, <2>3, <3>1, <3>2 DEF TokenInv, Length
    <3>3. CASE ~(screen.first > cleared)
      <4>1. /\ screen.count = 0 /\ Length(rendered) = 0
            /\ buffer.revision = revision => Length(buffer) = 0 /\ ~attached
        BY <1>0, <2>3, <3>1, <3>3 DEF TokenInv
      <4>2. screen'.count = 0
        BY <1>0, <2>3, <3>1, <4>1 DEF WriteEffect, Written, ScreenInv, TypeOK, Buffers, Length
      <4> QED BY <1>0, <2>3, <3>1, <4>1, <4>2 DEF TokenInv, Length
    <3> QED BY <3>2, <3>3
  <2> QED BY <2>1, <2>2, <2>3
<1> QED BY <1>1, <1>2, <1>3, <1>4

LEMMA MountBase == ASSUME Base, Mount PROVE Base'
<1> USE DEF Base
<1>0. /\ ~mounted /\ mounted' = TRUE /\ accepted' = TRUE /\ rendered' = buffer /\ due' = TRUE
      /\ batch' = 0 /\ written' = 0 /\ revision' = buffer.revision
      /\ screen' = [first |-> buffer.first, last |-> buffer.first - 1, count |-> 0]
      /\ cleared' = (IF accepted THEN cleared ELSE sent)
      /\ UNCHANGED <<sent, attached, buffer, leaving>>
  BY DEF Mount, Blank
<1>1. TypeOK'
  BY <1>0 DEF TypeOK, Buffers, BufferInv, Sound
<1>2. BufferInv' /\ RevisionInv'
  BY <1>0 DEF TypeOK, Buffers, BufferInv, RevisionInv, Sound, Length
<1>3. ScreenInv'
  BY <1>0 DEF TypeOK, Buffers, BufferInv, ScreenInv, Sound, Length
<1>4. TokenInv'
  BY <1>0 DEF TypeOK, Buffers, BufferInv, TokenInv, Sound, Length
<1> QED BY <1>1, <1>2, <1>3, <1>4

LEMMA UnmountBase == ASSUME Base, Unmount PROVE Base'
<1> USE DEF Base
<1>0. /\ mounted' = FALSE /\ leaving' = FALSE /\ attached' = FALSE /\ due' = FALSE /\ written' = 0
      /\ UNCHANGED <<sent, buffer, batch, accepted, rendered, revision, screen, cleared>>
  BY DEF Unmount
<1>1. TypeOK'
  BY <1>0 DEF TypeOK
<1>2. BufferInv' /\ RevisionInv' /\ ScreenInv' /\ TokenInv'
  BY <1>0 DEF BufferInv, RevisionInv, ScreenInv, TokenInv, Sound, Length
<1> QED BY <1>1, <1>2

LEMMA DeletionBase == ASSUME Base, Close \/ ApplyToken PROVE Base'
<1> USE DEF Base
<1>0. /\ leaving' = mounted /\ buffer' = NoBuffer /\ batch' = 0 /\ accepted' \in BOOLEAN
      /\ UNCHANGED <<sent, attached, mounted, rendered, due, written, revision, screen, cleared>>
      /\ NoBuffer.revision = 0
  BY DEF Close, ApplyToken, TypeOK, NoBuffer
<1>1. TypeOK'
  BY <1>0, NoBufferSound DEF TypeOK
<1>2. BufferInv'
  BY <1>0, NoBufferSound DEF TypeOK, Buffers, BufferInv, Sound, Length
<1>3. RevisionInv' /\ ScreenInv'
  BY <1>0 DEF RevisionInv, ScreenInv, Sound, Length
<1>4. TokenInv'
  BY <1>0, NoBufferSound DEF TypeOK, Buffers, TokenInv, Length
<1> QED BY <1>1, <1>2, <1>3, <1>4

LEMMA NextBase == ASSUME Base, [Next]_vars PROVE Base'
<1>1. CASE Data \/ Snapshot \/ Detach
  BY <1>1, DataBase, SnapshotBase, DetachBase
<1>2. CASE Render \/ WriteEffect
  BY <1>2, RenderBase, WriteEffectBase
<1>3. CASE Mount \/ Unmount
  BY <1>3, MountBase, UnmountBase
<1>4. CASE Close \/ ApplyToken
  BY <1>4, DeletionBase
<1>5. CASE UNCHANGED vars
  BY <1>5 DEF vars, Base, TypeOK, BufferInv, RevisionInv, ScreenInv, TokenInv, Sound, Length
<1> QED BY <1>1, <1>2, <1>3, <1>4, <1>5 DEF Next

-----------------------------------------------------------------------------
(* Where a batch is no longer than a trimming, the buffer tells what is still to be written. *)

LEMMA MessagesWhole == ASSUME BatchFits, Whole, Data \/ Snapshot \/ Detach PROVE BatchInv' /\ RefsInv'
<1>0. /\ mounted /\ UNCHANGED <<mounted, leaving, rendered, due, written, revision, screen>>
  BY DEF Data, Snapshot, Detach, Whole, Base, BufferInv
<1>1. RefsInv'
  BY <1>0 DEF Whole, RefsInv, Length
<1>2. CASE UNCHANGED <<buffer, batch>>
  BY <1>0, <1>1, <1>2 DEF Whole, BatchInv, Length
<1>3. CASE Data /\ accepted
  <2>1. /\ buffer' = Append(buffer, buffer.last + 1) /\ batch' = batch + 1 /\ batch < MaxBatch
    BY <1>3 DEF Data, AcceptsMessages, Whole, Base, BufferInv
  <2>2. /\ buffer' \in Buffers /\ buffer'.last = buffer.last + 1
        /\ buffer'.revision = buffer.revision
        /\ \/ buffer'.first = buffer.first /\ Length(buffer) < MaxBufferedChunks
           \/ Length(buffer) = MaxBufferedChunks /\ Length(buffer') = RetainedBufferedChunks
    BY <2>1, Appended DEF Whole, Base, TypeOK, BufferInv
  <2>3. BatchInv'
    BY <1>0, <2>1, <2>2
    DEF Whole, Base, BatchInv, BufferInv, ScreenInv, Sound, Length, TypeOK, Buffers, BatchFits
  <2> QED BY <1>1, <2>3
<1>4. CASE Snapshot /\ accepted
  <2>1. buffer'.revision = buffer.revision + 1 /\ batch' = batch
    BY <1>4 DEF Snapshot, AcceptsMessages
  <2>2. BatchInv'
    BY <1>0, <2>1 DEF Whole, Base, BatchInv, RevisionInv, TypeOK, Buffers
  <2> QED BY <1>1, <2>2
<1> QED BY <1>2, <1>3, <1>4 DEF Data, Snapshot, Detach, AcceptsMessages

LEMMA RenderWhole == ASSUME BatchFits, Whole, Render PROVE BatchInv' /\ RefsInv'
<1>0. /\ mounted /\ ~leaving /\ ~due /\ rendered' = buffer /\ due' = TRUE /\ batch' = 0
      /\ UNCHANGED <<buffer, mounted, leaving, written, revision, screen>>
  BY DEF Render
<1>1. BatchInv'
  BY <1>0 DEF Whole, Base, TypeOK, Buffers, BatchInv
<1>2. RefsInv'
  BY <1>0 DEF Whole, Base, TypeOK, Buffers, BufferInv, BatchInv, RevisionInv, ScreenInv, RefsInv,
              Sound, Length, BatchFits
<1> QED BY <1>1, <1>2

LEMMA WriteEffectWhole == ASSUME Whole, WriteEffect PROVE BatchInv' /\ RefsInv'
<1>0. /\ mounted /\ due' = FALSE /\ written' = Length(rendered) /\ revision' = rendered.revision
      /\ UNCHANGED <<buffer, batch, mounted, leaving, rendered>>
      /\ rendered \in Buffers /\ Sound(rendered) /\ written \in Nat
      /\ screen \in [first : Nat, last : Nat, count : Int]
  BY DEF WriteEffect, Whole, Base, TypeOK, ScreenInv
<1>1. BatchInv'
  BY <1>0 DEF Whole, BatchInv, Length
<1>2. screen'.last = rendered.last /\ screen'.count = screen'.last - screen'.first + 1
  <2>1. CASE NeedsReset
    BY <1>0, <2>1 DEF WriteEffect, Written, Blank, Buffers, Sound, Length
  <2>2. CASE ~NeedsReset
    BY <1>0, <2>2 DEF WriteEffect, NeedsReset, Written, Buffers, Sound, Length, Whole, RefsInv
  <2> QED BY <2>1, <2>2
<1>3. RefsInv'
  BY <1>0, <1>2 DEF RefsInv, Sound, Length, Buffers
<1> QED BY <1>1, <1>3

LEMMA SurfacesWhole ==
  ASSUME Whole, Mount \/ Unmount \/ Close \/ ApplyToken
  PROVE  BatchInv' /\ RefsInv'
<1>1. CASE Mount
  BY <1>1 DEF Mount, Blank, Whole, Base, TypeOK, Buffers, BufferInv, BatchInv, RefsInv, Sound, Length
<1>2. CASE Unmount
  BY <1>2 DEF Unmount, BatchInv, RefsInv
<1>3. CASE Close \/ ApplyToken
  <2>1. leaving' = mounted /\ UNCHANGED <<mounted, rendered, due, written, revision, screen>>
    BY <1>3 DEF Close, ApplyToken
  <2> QED BY <2>1 DEF Whole, BatchInv, RefsInv, Length
<1> QED BY <1>1, <1>2, <1>3

LEMMA NextWhole == ASSUME BatchFits, Whole, [Next]_vars PROVE Whole'
<1>1. Base'
  BY NextBase DEF Whole
<1>2. CASE UNCHANGED vars
  BY <1>1, <1>2 DEF vars, Whole, BatchInv, RefsInv, Length
<1>3. CASE Next
  BY <1>1, <1>3, MessagesWhole, RenderWhole, WriteEffectWhole, SurfacesWhole DEF Next, Whole
<1> QED BY <1>2, <1>3

-----------------------------------------------------------------------------
(* What follows from the invariants. *)

(* Every variable keeps its type: positions and revisions are natural numbers throughout.   *)
THEOREM TypeCorrect == Spec => []TypeOK
<1>1. Base /\ [Next]_vars => Base'
  BY NextBase
<1>2. (Base => TypeOK) /\ (Whole => Base)
  BY DEF Base, Whole
<1> QED BY InitWhole, <1>1, <1>2, PTL DEF Spec

(* If a batch is no longer than a trimming, the screen misses nothing and repeats nothing.  *)
THEOREM ScreenWhole == ASSUME BatchFits PROVE Spec => []ScreenIsWhole
<1>1. Whole /\ [Next]_vars => Whole'
  BY NextWhole
<1>2. Whole => ScreenIsWhole
  BY DEF Whole, RefsInv, ScreenIsWhole, Shows
<1> QED BY InitWhole, <1>1, <1>2, PTL DEF Spec

(* A snapshot leaves nothing older on the screen (handleTerminalSnapshot and the effect      *)
(* that writes), whatever comes between two renders.                                        *)
THEOREM SnapshotReplacesScreen == Spec => []SnapshotReplaces
<1>1. Base /\ [Next]_vars => Base'
  BY NextBase
<1>2. Base => SnapshotReplaces
  BY DEF Base, ScreenInv, SnapshotReplaces, Shows
<1>3. Whole => Base
  BY DEF Whole
<1> QED BY InitWhole, <1>1, <1>2, <1>3, PTL DEF Spec

(* What was received under an earlier token is never on the screen of a later one           *)
(* (applyToken and the callbacks of the old surfaces), whatever comes between two renders.  *)
THEOREM TokenSeparates == Spec => []NothingSurvivesToken
<1>1. Base /\ [Next]_vars => Base'
  BY NextBase
<1>2. Base => NothingSurvivesToken
  BY DEF Base, TokenInv, NothingSurvivesToken
<1>3. Whole => Base
  BY DEF Whole
<1> QED BY InitWhole, <1>1, <1>2, <1>3, PTL DEF Spec

=============================================================================
