---------------------------- MODULE ClientProofs ----------------------------
(***************************************************************************)
(* What those who use the app are promised.                                *)
(*                                                                         *)
(* Who edits a note, for any number of keystrokes, changes by others,      *)
(* visits, reads, writes and events: the types, that a clean note is       *)
(* written, that an edit is never forgotten and that a reload never takes  *)
(* one away.                                                               *)
(*                                                                         *)
(* Who opens a vault or sends it a command: one session at a time has the  *)
(* vault and the claim names it, for any number of processes and calls;    *)
(* what a command line is told is true, whatever becomes of the connection *)
(* and of the app; and one layout at a time computes for a vault without   *)
(* having been told to stop.                                               *)
(***************************************************************************)
EXTENDS DocumentSession, CliAttach, DesktopShell, SequenceTheorems, TLAPS

-------------------------------------------------------------------------------
(* The editor *)

(* What the promises need of the types; the bounds are left out. *)
TextOrNull == {Null} \union Text
ReadState == [kind : {"load", "take", "refresh", "external"}, gen : Nat,
              hash : TextOrNull, text : TextOrNull]
WriteState == [gen : Nat, text : Text, state : {"none", "sent", "landed"}]

TextsTyped ==
  /\ disk \in Text /\ rows \in SUBSET Rewrite
  /\ cached \in TextOrNull /\ buf \in TextOrNull
  /\ typed \in Nat

WritesTyped == write \in WriteState /\ generation \in Nat /\ queued \in Nat

(* An external change that is being read has the hash it was reported with. *)
ReadsTyped ==
  /\ reads \in SUBSET ReadState
  /\ \A r \in reads : r.kind = "external" => r.hash # Null
  /\ events \in Seq(Text)

(* A session that is not shown, or has no editor, has nothing to write. *)
Settled == ~ shown \/ buf = Null => ~ dirty

SessionTyped == TextsTyped /\ WritesTyped /\ ReadsTyped

TypedInv == SessionTyped /\ Settled

LEMMA NullIsNoText == Null \notin Text
BY NullAssumption

LEMMA ViewIsText == TextsTyped => View \in Text
BY DEF TextsTyped, View, Text

LEMMA NoWriteTyped == NoWrite \in WriteState
BY DEF NoWrite, WriteState, Text

(* A write that starts has the text of an editor. *)
LEMMA WritesBuffer ==
  ASSUME TypedInv, buf # Null
  PROVE  performWrite \in WriteState
BY DEF TypedInv, SessionTyped, TextsTyped, WritesTyped, performWrite, WriteState,
       TextOrNull

LEMMA ChainTyped ==
  ASSUME TypedInv, NextInChain
  PROVE  write' \in WriteState /\ queued' \in Nat
<1>1. CASE queued > 0 /\ Open
  BY <1>1, WritesBuffer DEF NextInChain, Open, TypedInv, SessionTyped, WritesTyped
<1>2. CASE ~ (queued > 0 /\ Open)
  BY <1>2, NoWriteTyped DEF NextInChain, TypedInv, SessionTyped, WritesTyped
<1> QED BY <1>1, <1>2

LEMMA FlushTyped ==
  ASSUME TypedInv, Open, flush
  PROVE  write' \in WriteState /\ queued' \in Nat
BY WritesBuffer DEF flush, Open, TypedInv, SessionTyped, WritesTyped

LEMMA AskedTyped ==
  ASSUME TypedInv, NEW kind \in {"load", "take", "refresh", "external"},
         NEW hash \in TextOrNull, kind = "external" => hash # Null,
         reads' = reads \union {[kind |-> kind, gen |-> generation, hash |-> hash, text |-> Null]},
         events' \in Seq(Text)
  PROVE  ReadsTyped'
<1>1. [kind |-> kind, gen |-> generation, hash |-> hash, text |-> Null] \in ReadState
  BY DEF TypedInv, SessionTyped, WritesTyped, ReadState, TextOrNull
<1> QED BY <1>1 DEF TypedInv, SessionTyped, ReadsTyped

(* Groups of variables a step leaves alone. *)
LEMMA LeftAlone ==
  ASSUME TypedInv
  PROVE  /\ UNCHANGED <<disk, rows, cached, buf, typed>> => TextsTyped'
         /\ UNCHANGED <<write, generation, queued>> => WritesTyped'
         /\ UNCHANGED <<reads, events>> => ReadsTyped'
         /\ UNCHANGED <<shown, buf, dirty>> => Settled'
BY DEF TypedInv, SessionTyped, TextsTyped, WritesTyped, ReadsTyped, Settled

LEMMA TypedKept == SessionSpec => []TypedInv
<1>1. SessionInit => TypedInv
  <2> SUFFICES ASSUME SessionInit PROVE TypedInv
    OBVIOUS
  <2>1. {} \in Text /\ {} # Null
    BY NullIsNoText DEF Text
  <2>2. TextsTyped
    BY <2>1 DEF SessionInit, TextsTyped, TextOrNull
  <2>3. WritesTyped
    BY NoWriteTyped DEF SessionInit, WritesTyped
  <2>4. ReadsTyped
    BY DEF SessionInit, ReadsTyped
  <2>5. Settled
    BY <2>1 DEF SessionInit, Settled
  <2> QED BY <2>2, <2>3, <2>4, <2>5 DEF TypedInv, SessionTyped
<1>2. TypedInv /\ [SessionNext]_sessionVars => TypedInv'
  <2> SUFFICES ASSUME TypedInv, [SessionNext]_sessionVars PROVE TypedInv'
    OBVIOUS
  <2>1. CASE Type
    <3>0. buf' \in Text
      <4>1. buf \in Text
        BY <2>1 DEF Type, TabShown, Open, TypedInv, SessionTyped, TextsTyped, TextOrNull
      <4>2. typed + 1 \in Typed
        BY <2>1, BoundAssumption DEF Type, Typed, TypedInv, SessionTyped, TextsTyped
      <4> QED
        BY <2>1, <4>1, <4>2 DEF Type, Text
    <3>1. TextsTyped'
        BY <2>1, <3>0 DEF Type, TypedInv, SessionTyped, TextsTyped, fileVars, TextOrNull
    <3>4. Settled'
      BY <2>1, <3>0, NullIsNoText DEF Type, TabShown, Open, Settled, fileVars
    <3>5. WritesTyped' /\ ReadsTyped'
      BY <2>1, LeftAlone DEF Type, fileVars, editorVars, docVars, hashVars, writeVars, eventVars, countVars
    <3> QED BY <3>1, <3>4, <3>5 DEF TypedInv, SessionTyped
  <2>2. CASE Flush
    <3>2. WritesTyped'
      BY <2>2, FlushTyped DEF Flush, TypedInv, SessionTyped, WritesTyped, hashVars, docVars
    <3>5. TextsTyped' /\ ReadsTyped' /\ Settled'
      BY <2>2, LeftAlone DEF Flush, fileVars, editorVars, docVars, hashVars, writeVars, eventVars, countVars
    <3> QED BY <3>2, <3>5 DEF TypedInv, SessionTyped
  <2>3. CASE LeaveTab
    <3>1. TextsTyped'
      BY <2>3 DEF LeaveTab, Hide, Evicted, TypedInv, SessionTyped, TextsTyped, TextOrNull, editorVars,
         fileVars
    <3>2. WritesTyped'
      BY <2>3, FlushTyped DEF LeaveTab, Hide, reset, TypedInv, SessionTyped, WritesTyped, hashVars
    <3>4. Settled'
      BY <2>3 DEF LeaveTab, Hide, reset, TypedInv, Settled, editorVars
    <3>5. ReadsTyped'
      BY <2>3, LeftAlone DEF LeaveTab, fileVars, editorVars, docVars, hashVars, writeVars, eventVars, countVars
    <3> QED BY <3>1, <3>2, <3>4, <3>5 DEF TypedInv, SessionTyped
  <2>4. CASE CloseVault
    <3>1. TextsTyped'
      BY <2>4 DEF CloseVault, Evicted, TypedInv, SessionTyped, TextsTyped, TextOrNull, fileVars, countVars
    <3>2. WritesTyped'
      BY <2>4 DEF CloseVault, reset, TypedInv, SessionTyped, WritesTyped
    <3>3. ReadsTyped'
      BY <2>4 DEF CloseVault, TypedInv, SessionTyped, ReadsTyped
    <3>4. Settled'
      BY <2>4 DEF CloseVault, reset, Settled
    <3> QED BY <3>1, <3>2, <3>3, <3>4 DEF TypedInv, SessionTyped
  <2>5. CASE Show
    <3>1. TextsTyped'
      BY <2>5 DEF Show, TypedInv, SessionTyped, TextsTyped, fileVars, countVars
    <3>3. ReadsTyped'
      BY <2>5, AskedTyped DEF Show, TextOrNull, eventVars, TypedInv, SessionTyped, ReadsTyped
    <3>4. Settled'
      BY <2>5 DEF Show, TypedInv, Settled, docVars
    <3>5. WritesTyped'
      BY <2>5, LeftAlone DEF Show, fileVars, editorVars, docVars, hashVars, writeVars, eventVars, countVars
    <3> QED BY <3>1, <3>3, <3>4, <3>5 DEF TypedInv, SessionTyped
  <2>6. CASE Quit
    <3>1. TextsTyped'
      <4>1. disk' \in Text
        BY <2>6 DEF Quit, Open, TypedInv, SessionTyped, TextsTyped, WritesTyped, WriteState, TextOrNull
      <4> QED
        BY <2>6, <4>1 DEF Quit, Evicted, TypedInv, SessionTyped, TextsTyped, TextOrNull, countVars
    <3>2. WritesTyped'
      BY <2>6, NoWriteTyped DEF Quit, reset, TypedInv, SessionTyped, WritesTyped
    <3>3. ReadsTyped'
      BY <2>6 DEF Quit, ReadsTyped
    <3>4. Settled'
      BY <2>6 DEF Quit, reset, Settled
    <3> QED BY <3>1, <3>2, <3>3, <3>4 DEF TypedInv, SessionTyped
  <2>7. CASE WriteLands
    <3>1. TextsTyped'
      BY <2>7 DEF WriteLands, TypedInv, SessionTyped, TextsTyped, WritesTyped, WriteState, editorVars,
         countVars
    <3>2. WritesTyped'
      BY <2>7 DEF WriteLands, TypedInv, SessionTyped, WritesTyped, WriteState, docVars, hashVars
    <3>5. ReadsTyped' /\ Settled'
      BY <2>7, LeftAlone DEF WriteLands, fileVars, editorVars, docVars, hashVars, writeVars, eventVars, countVars
    <3> QED BY <3>1, <3>2, <3>5 DEF TypedInv, SessionTyped
  <2>8. CASE WriteAnswered
    <3>1. TextsTyped'
      BY <2>8 DEF WriteAnswered, Hide, Evicted, TypedInv, SessionTyped, TextsTyped, TextOrNull, editorVars, fileVars,
         countVars
    <3>2. WritesTyped'
      BY <2>8, ChainTyped DEF WriteAnswered, Hide, reset, TypedInv, SessionTyped, WritesTyped, docVars, hashVars
    <3>4. Settled'
      BY <2>8 DEF WriteAnswered, Hide, reset, StillDirty, TypedInv, Settled, editorVars, docVars
    <3>5. ReadsTyped'
      BY <2>8, LeftAlone DEF WriteAnswered, fileVars, editorVars, docVars, hashVars, writeVars, eventVars, countVars
    <3> QED BY <3>1, <3>2, <3>4, <3>5 DEF TypedInv, SessionTyped
  <2>9. CASE WriteFails
    <3>1. TextsTyped'
      BY <2>9 DEF WriteFails, Hide, Evicted, TypedInv, SessionTyped, TextsTyped, TextOrNull, editorVars, fileVars,
         countVars
    <3>2. WritesTyped'
      BY <2>9, ChainTyped DEF WriteFails, Hide, reset, TypedInv, SessionTyped, WritesTyped, docVars, hashVars
    <3>4. Settled'
      BY <2>9 DEF WriteFails, Hide, reset, StillDirty, TypedInv, Settled, editorVars, docVars
    <3>5. ReadsTyped'
      BY <2>9, LeftAlone DEF WriteFails, fileVars, editorVars, docVars, hashVars, writeVars, eventVars, countVars
    <3> QED BY <3>1, <3>2, <3>4, <3>5 DEF TypedInv, SessionTyped
  <2>10. CASE applyExternalChange
    <3>3. ReadsTyped'
      <4>1. Head(events) \in Text /\ events' \in Seq(Text)
        BY <2>10 DEF applyExternalChange, TypedInv, SessionTyped, ReadsTyped
      <4>2. Head(events) \in TextOrNull /\ Head(events) # Null
        BY <4>1, NullIsNoText DEF TextOrNull
      <4>3. CASE Asked("external", Head(events))
        BY <4>1, <4>2, <4>3, AskedTyped DEF Asked
      <4>4. CASE UNCHANGED reads
        BY <4>1, <4>4 DEF TypedInv, SessionTyped, ReadsTyped
      <4> QED BY <2>10, <4>3, <4>4 DEF applyExternalChange
    <3>5. TextsTyped' /\ WritesTyped' /\ Settled'
      BY <2>10, LeftAlone DEF applyExternalChange, fileVars, editorVars, docVars, hashVars, writeVars, eventVars, countVars
    <3> QED BY <3>3, <3>5 DEF TypedInv, SessionTyped
  <2>11. CASE refreshFromDisk
    <3>3. ReadsTyped'
      <4>1. CASE Asked("refresh", Null)
        BY <2>11, <4>1, AskedTyped DEF refreshFromDisk, Asked, TextOrNull, TypedInv, SessionTyped, ReadsTyped
      <4>2. CASE UNCHANGED reads
        BY <2>11, <4>2 DEF refreshFromDisk, TypedInv, SessionTyped, ReadsTyped
      <4> QED BY <2>11, <4>1, <4>2 DEF refreshFromDisk
    <3>5. TextsTyped' /\ WritesTyped' /\ Settled'
      BY <2>11, LeftAlone DEF refreshFromDisk, fileVars, editorVars, docVars, hashVars, writeVars, eventVars, countVars
    <3> QED BY <3>3, <3>5 DEF TypedInv, SessionTyped
  <2>12. CASE takeDisk
    <3>3. ReadsTyped'
      BY <2>12, AskedTyped DEF takeDisk, Asked, TextOrNull, TypedInv, SessionTyped, ReadsTyped, eventVars
    <3>5. TextsTyped' /\ WritesTyped' /\ Settled'
      BY <2>12, LeftAlone DEF takeDisk, fileVars, editorVars, docVars, hashVars, writeVars, eventVars, countVars
    <3> QED BY <3>3, <3>5 DEF TypedInv, SessionTyped
  <2>13. CASE keepMine
    <3>5. TextsTyped' /\ WritesTyped' /\ ReadsTyped' /\ Settled'
      BY <2>13, LeftAlone DEF keepMine, fileVars, editorVars, docVars, hashVars, writeVars, eventVars, countVars
    <3> QED BY <3>5 DEF TypedInv, SessionTyped
  <2>14. CASE ReadServed
    <3>3. ReadsTyped'
      <4>1. PICK r \in reads : reads' = (reads \ {r}) \union {[r EXCEPT !.text = View]}
        BY <2>14 DEF ReadServed
      <4>2. /\ [r EXCEPT !.text = View] \in ReadState
            /\ [r EXCEPT !.text = View].kind = r.kind
            /\ [r EXCEPT !.text = View].hash = r.hash
        BY ViewIsText DEF TypedInv, SessionTyped, ReadsTyped, ReadState, TextOrNull
      <4> QED
        BY <2>14, <4>1, <4>2 DEF ReadServed, TypedInv, SessionTyped, ReadsTyped, eventVars
    <3>5. TextsTyped' /\ WritesTyped' /\ Settled'
      BY <2>14, LeftAlone DEF ReadServed, fileVars, editorVars, docVars, hashVars, writeVars, eventVars, countVars
    <3> QED BY <3>3, <3>5 DEF TypedInv, SessionTyped
  <2>15. CASE ReadFails
    <3>3. ReadsTyped'
      BY <2>15 DEF ReadFails, TypedInv, SessionTyped, ReadsTyped, eventVars
    <3>5. TextsTyped' /\ WritesTyped' /\ Settled'
      BY <2>15, LeftAlone DEF ReadFails, fileVars, editorVars, docVars, hashVars, writeVars, eventVars, countVars
    <3> QED BY <3>3, <3>5 DEF TypedInv, SessionTyped
  <2>16. ASSUME NEW r \in reads, LoadAnswered(r) PROVE TypedInv'
    <3>1. TextsTyped'
      <4>1. r.text \in Text
        BY <2>16, NullIsNoText DEF LoadAnswered, Answered, TypedInv, SessionTyped, ReadsTyped, ReadState, TextOrNull
      <4> QED
        BY <2>16, <4>1 DEF LoadAnswered, Replaced, TypedInv, SessionTyped, TextsTyped, TextOrNull, fileVars, countVars
    <3>3. ReadsTyped'
      BY <2>16 DEF LoadAnswered, Answered, TypedInv, SessionTyped, ReadsTyped, eventVars
    <3>4. Settled'
      BY <2>16 DEF LoadAnswered, Answered, Replaced, TypedMeanwhile, TypedInv, Settled
    <3>5. WritesTyped'
      BY <2>16, LeftAlone DEF LoadAnswered, fileVars, editorVars, docVars, hashVars, writeVars, eventVars, countVars
    <3> QED BY <3>1, <3>3, <3>4, <3>5 DEF TypedInv, SessionTyped
  <2>17. ASSUME NEW r \in reads, TakeAnswered(r) PROVE TypedInv'
    <3>1. TextsTyped'
      <4>1. r.text \in Text
        BY <2>17, NullIsNoText DEF TakeAnswered, Answered, TypedInv, SessionTyped, ReadsTyped, ReadState, TextOrNull
      <4> QED
        BY <2>17, <4>1 DEF TakeAnswered, Replaced, TypedInv, SessionTyped, TextsTyped, TextOrNull, fileVars, countVars
    <3>3. ReadsTyped'
      BY <2>17 DEF TakeAnswered, Answered, TypedInv, SessionTyped, ReadsTyped, eventVars
    <3>4. Settled'
      BY <2>17 DEF TakeAnswered, Answered, Replaced, TypedMeanwhile, TypedInv, Settled
    <3>5. WritesTyped'
      BY <2>17, LeftAlone DEF TakeAnswered, fileVars, editorVars, docVars, hashVars, writeVars, eventVars, countVars
    <3> QED BY <3>1, <3>3, <3>4, <3>5 DEF TypedInv, SessionTyped
  <2>18. ASSUME NEW r \in reads, RefreshAnswered(r) PROVE TypedInv'
    <3>1. TextsTyped'
      <4>1. r.text \in Text
        BY <2>18, NullIsNoText DEF RefreshAnswered, Answered, TypedInv, SessionTyped, ReadsTyped, ReadState, TextOrNull
      <4> QED
        BY <2>18, <4>1 DEF RefreshAnswered, Replaced, TypedInv, SessionTyped, TextsTyped, TextOrNull, fileVars, countVars
    <3>3. ReadsTyped'
      BY <2>18 DEF RefreshAnswered, Answered, TypedInv, SessionTyped, ReadsTyped, eventVars
    <3>4. Settled'
      BY <2>18 DEF RefreshAnswered, Answered, Replaced, TypedMeanwhile, TypedInv, Settled
    <3>5. WritesTyped'
      BY <2>18, LeftAlone DEF RefreshAnswered, fileVars, editorVars, docVars, hashVars, writeVars, eventVars, countVars
    <3> QED BY <3>1, <3>3, <3>4, <3>5 DEF TypedInv, SessionTyped
  <2>19. ASSUME NEW r \in reads, ExternalAnswered(r) PROVE TypedInv'
    <3>1. TextsTyped'
      <4>1. r.text \in Text
        BY <2>19, NullIsNoText DEF ExternalAnswered, Answered, TypedInv, SessionTyped, ReadsTyped, ReadState, TextOrNull
      <4> QED
        BY <2>19, <4>1 DEF ExternalAnswered, Replaced, TypedInv, SessionTyped, TextsTyped, TextOrNull, fileVars, countVars
    <3>3. ReadsTyped'
      BY <2>19 DEF ExternalAnswered, Answered, TypedInv, SessionTyped, ReadsTyped, eventVars
    <3>4. Settled'
      BY <2>19 DEF ExternalAnswered, Answered, Replaced, TypedMeanwhile, TypedInv, Settled
    <3>5. WritesTyped'
      BY <2>19, LeftAlone DEF ExternalAnswered, fileVars, editorVars, docVars, hashVars, writeVars, eventVars, countVars
    <3> QED BY <3>1, <3>3, <3>4, <3>5 DEF TypedInv, SessionTyped
  <2>20. CASE ExternalEdit
    <3>1. TextsTyped'
      BY <2>20 DEF ExternalEdit, Toggled, TypedInv, SessionTyped, TextsTyped, Text, editorVars
    <3>5. WritesTyped' /\ ReadsTyped' /\ Settled'
      BY <2>20, LeftAlone DEF ExternalEdit, fileVars, editorVars, docVars, hashVars, writeVars, eventVars, countVars
    <3> QED BY <3>1, <3>5 DEF TypedInv, SessionTyped
  <2>21. CASE WatcherReports
    <3>3. ReadsTyped'
      BY <2>21 DEF WatcherReports, TypedInv, SessionTyped, ReadsTyped, TextsTyped
    <3>5. TextsTyped' /\ WritesTyped' /\ Settled'
      BY <2>21, LeftAlone DEF WatcherReports, fileVars, editorVars, docVars, hashVars, writeVars, eventVars, countVars
    <3> QED BY <3>3, <3>5 DEF TypedInv, SessionTyped
  <2>22. CASE RenameElsewhere
    <3>1. TextsTyped'
      BY <2>22 DEF RenameElsewhere, TypedInv, SessionTyped, TextsTyped, editorVars
    <3>5. WritesTyped' /\ ReadsTyped' /\ Settled'
      BY <2>22, LeftAlone DEF RenameElsewhere, fileVars, editorVars, docVars, hashVars, writeVars, eventVars, countVars
    <3> QED BY <3>1, <3>5 DEF TypedInv, SessionTyped
  <2>23. CASE FlushRows
    <3>1. TextsTyped'
      BY <2>23, ViewIsText DEF FlushRows, TypedInv, SessionTyped, TextsTyped, editorVars, countVars
    <3>5. WritesTyped' /\ ReadsTyped' /\ Settled'
      BY <2>23, LeftAlone DEF FlushRows, fileVars, editorVars, docVars, hashVars, writeVars, eventVars, countVars
    <3> QED BY <3>1, <3>5 DEF TypedInv, SessionTyped
  <2>25. CASE Evict
    <3>1. TextsTyped'
      BY <2>25 DEF Evict, Evicted, TypedInv, SessionTyped, TextsTyped, TextOrNull, fileVars, countVars
    <3>4. Settled'
      BY <2>25 DEF Evict, TypedInv, Settled, docVars
    <3>5. WritesTyped' /\ ReadsTyped'
      BY <2>25, LeftAlone DEF Evict, fileVars, editorVars, docVars, hashVars, writeVars, eventVars, countVars
    <3> QED BY <3>1, <3>4, <3>5 DEF TypedInv, SessionTyped
  <2>26. CASE LoadFails
    <3>1. TextsTyped'
      <4>1. {} \in Text
        BY DEF Text
      <4> QED
        BY <2>26, <4>1 DEF LoadFails, TypedInv, SessionTyped, TextsTyped, TextOrNull, fileVars, countVars
    <3>3. ReadsTyped'
      BY <2>26 DEF LoadFails, TypedInv, SessionTyped, ReadsTyped, eventVars
    <3>4. Settled'
      <4>1. {} # Null
        BY NullIsNoText DEF Text
      <4> QED
        BY <2>26, <4>1 DEF LoadFails, TypedInv, Settled, docVars
    <3>5. WritesTyped'
      BY <2>26, LeftAlone DEF LoadFails, fileVars, editorVars, docVars, hashVars, writeVars, eventVars, countVars
    <3> QED BY <3>1, <3>3, <3>4, <3>5 DEF TypedInv, SessionTyped
  <2>24. CASE UNCHANGED sessionVars
    BY <2>24, LeftAlone DEF sessionVars, fileVars, editorVars, docVars, hashVars, writeVars, eventVars, countVars, TypedInv, SessionTyped
  <2> QED
    BY <2>1, <2>2, <2>3, <2>4, <2>5, <2>6, <2>7, <2>8, <2>9, <2>10, <2>11, <2>12, <2>13, <2>14, <2>15, <2>16, <2>17, <2>18, <2>19, <2>20, <2>21, <2>22, <2>23, <2>24, <2>25, <2>26 DEF SessionNext
<1> QED BY <1>1, <1>2, PTL DEF SessionSpec

(* Groups of variables the watch over the edits depends on. *)
watched == <<shown, buf, dirty, conflictHash, failed, autosave, queued, write, generation>>

LEMMA UnwatchedStep ==
  ASSUME NoEditForgotten, UNCHANGED watched
  PROVE  NoEditForgotten'
BY DEF NoEditForgotten, Open, watched

(* A flush that is not idle leaves a write under way or one waiting. *)
LEMMA FlushWrites ==
  ASSUME TypedInv, flush, UNCHANGED <<buf, generation>>
  PROVE  \/ queued' > 0
         \/ write'.state # "none" /\ write'.gen = generation' /\ write'.text = buf'
<1>1. CASE write.state = "none"
  BY <1>1 DEF flush, performWrite
<1>2. CASE write.state # "none"
  BY <1>2 DEF flush, TypedInv, SessionTyped, WritesTyped
<1> QED BY <1>1, <1>2

(* What was typed is never forgotten: while the note is open and dirty and  *)
(* neither a conflict nor a reported failure stands in the way, something  *)
(* that will write it is under way.  flush, scheduleWrite, performWrite and *)
(* the answers of documentSession.ts, for any number of anything.          *)
THEOREM EditsAreNotForgotten == SessionSpec => []NoEditForgotten
<1>1. SessionInit => NoEditForgotten
  BY DEF SessionInit, NoEditForgotten
<1>2. TypedInv /\ NoEditForgotten /\ [SessionNext]_sessionVars => NoEditForgotten'
  <2> SUFFICES ASSUME TypedInv, NoEditForgotten, [SessionNext]_sessionVars PROVE NoEditForgotten'
    OBVIOUS
  <2>1. CASE Type
    BY <2>1 DEF Type, TabShown, Open, NoEditForgotten, Scheduled, hashVars
  <2>2. CASE Flush
    BY <2>2 DEF Flush, flush, Counts, performWrite, Open, Idle, NoEditForgotten, TypedInv, SessionTyped, WritesTyped, docVars, hashVars, editorVars
  <2>3. CASE LeaveTab
    <3>1. CASE Hide
      BY <2>3, <3>1 DEF Hide, Open, NoEditForgotten
    <3>2. CASE flush /\ UNCHANGED <<editorVars, dirty, hashVars>>
      BY <2>3, <3>2, FlushWrites DEF Open, NoEditForgotten, editorVars, hashVars
    <3> QED BY <2>3, <3>1, <3>2 DEF LeaveTab
  <2>4. CASE CloseVault
    BY <2>4 DEF CloseVault, Open, NoEditForgotten
  <2>5. CASE Show
    BY <2>5 DEF Show, Open, NoEditForgotten, TypedInv, Settled, docVars, hashVars, writeVars
  <2>6. CASE Quit
    BY <2>6 DEF Quit, Open, NoEditForgotten
  <2>7. CASE WriteLands
    BY <2>7 DEF WriteLands, Open, NoEditForgotten, TypedInv, SessionTyped, WritesTyped, WriteState, docVars, hashVars, editorVars
  <2>8. CASE WriteAnswered
    <3>1. CASE LastAwaited
      BY <2>8, <3>1 DEF WriteAnswered, Hide, Open, NoEditForgotten
    <3>2. CASE ~ LastAwaited /\ queued > 0 /\ Open
      BY <2>8, <3>2 DEF WriteAnswered, NextInChain, performWrite, Open, NoEditForgotten, docVars, hashVars, editorVars
    <3>3. CASE ~ LastAwaited /\ ~ Open
      BY <2>8, <3>3 DEF WriteAnswered, Open, NoEditForgotten, editorVars
    <3>4. CASE ~ LastAwaited /\ ~ (queued > 0)
      BY <2>8, <3>4 DEF WriteAnswered, StillDirty, Open, NoEditForgotten, docVars, hashVars, editorVars
    <3> QED BY <3>1, <3>2, <3>3, <3>4
  <2>9. CASE WriteFails
    <3>1. CASE LastAwaited
      BY <2>9, <3>1 DEF WriteFails, Hide, Open, NoEditForgotten
    <3>2. CASE ~ LastAwaited /\ queued > 0 /\ Open
      BY <2>9, <3>2 DEF WriteFails, NextInChain, performWrite, Open, NoEditForgotten, docVars, hashVars, editorVars
    <3>3. CASE ~ LastAwaited /\ ~ Open
      BY <2>9, <3>3 DEF WriteFails, Open, NoEditForgotten, editorVars
    <3>4. CASE ~ LastAwaited /\ ~ (queued > 0)
      <4>1. UNCHANGED <<shown, buf, dirty, conflictHash, autosave, generation>> /\ queued = 0
        BY <2>9, <3>4 DEF WriteFails, TypedInv, SessionTyped, WritesTyped, docVars, hashVars, editorVars
      <4>2. CASE write.gen = generation
        BY <2>9, <3>4, <4>1, <4>2 DEF WriteFails, NoEditForgotten
      <4>3. CASE write.gen # generation
        BY <2>9, <3>4, <4>1, <4>3 DEF WriteFails, Open, NoEditForgotten
      <4> QED BY <4>2, <4>3
    <3> QED BY <3>1, <3>2, <3>3, <3>4
  <2>10. CASE applyExternalChange
    <3>1. Head(events) # Null
      BY <2>10, NullIsNoText DEF applyExternalChange, TypedInv, SessionTyped, ReadsTyped
    <3> QED
      BY <2>10, <3>1 DEF applyExternalChange, Open, NoEditForgotten, editorVars, writeVars
  <2>11. CASE refreshFromDisk
    BY <2>11, UnwatchedStep DEF refreshFromDisk, watched, fileVars, editorVars, docVars, hashVars, writeVars, eventVars, countVars
  <2>12. CASE takeDisk
    BY <2>12, UnwatchedStep DEF takeDisk, watched, fileVars, editorVars, docVars, hashVars, writeVars, eventVars, countVars
  <2>13. CASE keepMine
    BY <2>13 DEF keepMine, NoEditForgotten
  <2>14. CASE ReadServed
    BY <2>14, UnwatchedStep DEF ReadServed, watched, fileVars, editorVars, docVars, hashVars, writeVars, eventVars, countVars
  <2>15. CASE ReadFails
    BY <2>15, UnwatchedStep DEF ReadFails, watched, fileVars, editorVars, docVars, hashVars, writeVars, eventVars, countVars
  <2>16. ASSUME NEW r \in reads, LoadAnswered(r) PROVE NoEditForgotten'
    <3>1. CASE buf = Null
      BY <2>16, <3>1 DEF LoadAnswered, Open, NoEditForgotten, TypedInv, Settled
    <3>5. CASE Gone
      BY <2>16, <3>5 DEF LoadAnswered, Answered, Gone, Open, NoEditForgotten, hashVars
    <3>2. CASE ~ (buf = Null \/ Gone) /\ cached = r.text
      BY <2>16, <3>2 DEF LoadAnswered, Open, NoEditForgotten, hashVars
    <3>3. CASE ~ (buf = Null \/ Gone) /\ cached # r.text /\ buf = r.text
      BY <2>16, <3>3 DEF LoadAnswered, Scheduled, Open, NoEditForgotten, hashVars
    <3>4. CASE ~ (buf = Null \/ Gone) /\ cached # r.text /\ buf # r.text
      BY <2>16, <3>4 DEF LoadAnswered, Scheduled, Open, NoEditForgotten, hashVars
    <3> QED BY <3>1, <3>2, <3>3, <3>4, <3>5
  <2>17. ASSUME NEW r \in reads, TakeAnswered(r) PROVE NoEditForgotten'
    BY <2>17 DEF TakeAnswered, Replaced, Open, NoEditForgotten, writeVars
  <2>18. ASSUME NEW r \in reads, RefreshAnswered(r) PROVE NoEditForgotten'
    BY <2>18 DEF RefreshAnswered, Replaced, Open, NoEditForgotten, writeVars, hashVars
  <2>19. ASSUME NEW r \in reads, ExternalAnswered(r) PROVE NoEditForgotten'
    <3>1. r.hash # Null
      BY <2>19 DEF ExternalAnswered, TypedInv, SessionTyped, ReadsTyped
    <3> QED
      <4>1. CASE Replaced(r.text)
        BY <4>1 DEF Replaced, NoEditForgotten
      <4>2. CASE conflictHash' = r.hash
        BY <3>1, <4>2 DEF NoEditForgotten
      <4>3. CASE UNCHANGED <<buf, cached, autosave, dirty, conflictHash>>
        BY <2>19, <4>3, UnwatchedStep DEF ExternalAnswered, watched, writeVars
      <4> QED BY <2>19, <4>1, <4>2, <4>3 DEF ExternalAnswered
  <2>20. CASE ExternalEdit
    BY <2>20, UnwatchedStep DEF ExternalEdit, watched, fileVars, editorVars, docVars, hashVars, writeVars, eventVars, countVars
  <2>21. CASE WatcherReports
    BY <2>21, UnwatchedStep DEF WatcherReports, watched, fileVars, editorVars, docVars, hashVars, writeVars, eventVars, countVars
  <2>22. CASE RenameElsewhere
    BY <2>22, UnwatchedStep DEF RenameElsewhere, watched, fileVars, editorVars, docVars, hashVars, writeVars, eventVars, countVars
  <2>23. CASE FlushRows
    BY <2>23, UnwatchedStep DEF FlushRows, watched, fileVars, editorVars, docVars, hashVars, writeVars, eventVars, countVars
  <2>25. CASE Evict
    BY <2>25 DEF Evict, Open, NoEditForgotten
  <2>26. CASE LoadFails
    <3>1. CASE Open
      BY <2>26, <3>1 DEF LoadFails, NoEditForgotten
    <3>2. CASE ~ Open
      BY <2>26, <3>2 DEF LoadFails, Open, NoEditForgotten, TypedInv, Settled, docVars
    <3> QED BY <3>1, <3>2
  <2>24. CASE UNCHANGED sessionVars
    BY <2>24, UnwatchedStep DEF watched, sessionVars, fileVars, editorVars, docVars, hashVars, writeVars, eventVars, countVars
  <2> QED
    BY <2>1, <2>2, <2>3, <2>4, <2>5, <2>6, <2>7, <2>8, <2>9, <2>10, <2>11, <2>12, <2>13, <2>14, <2>15, <2>16, <2>17, <2>18, <2>19, <2>20, <2>21, <2>22, <2>23, <2>24, <2>25, <2>26 DEF SessionNext
<1> QED BY <1>1, <1>2, TypedKept, PTL DEF SessionSpec

-----------------------------------------------------------------------------
(* What was typed, of a text. *)
Keys(text) == text \intersect Typed

(* The texts that reach the editor other than by typing have been in the   *)
(* file, with respect to what was typed.                                   *)
FileRecorded ==
  /\ Keys(disk) \in past /\ {} \in past
  /\ write.state = "landed" => Keys(write.text) \in past

ReadsRecorded == \A r \in reads : r.text # Null => Keys(r.text) \in past

(* A read is of this session only if the note is shown. *)
ReadsOfSession ==
  \A r \in reads : r.gen <= generation /\ (r.kind # "load" /\ r.gen = generation => shown)

EditorRecorded ==
  /\ cached # Null => Keys(cached) \in past
  /\ ~ shown => buf = Null \/ buf = left \/ Keys(buf) \in past

CleanInv == FileRecorded /\ ReadsRecorded /\ ReadsOfSession /\ EditorRecorded /\ CleanIsWritten

LEMMA ViewKeys == TextsTyped => Keys(View) = Keys(disk)
BY EditAssumption DEF TextsTyped, Keys, View

LEMMA CleanLeftAlone ==
  ASSUME CleanInv, past \subseteq past'
  PROVE  /\ UNCHANGED <<disk, write>> => FileRecorded'
         /\ (disk' = disk \/ Keys(disk') \in past') /\ write'.state # "landed" => FileRecorded'
         /\ reads' \subseteq reads => ReadsRecorded'
         /\ reads' \subseteq reads /\ UNCHANGED <<generation, shown>> => ReadsOfSession'
         /\ UNCHANGED <<shown, cached, buf, left>> => EditorRecorded'
         /\ UNCHANGED <<shown, buf, left, dirty>> => CleanIsWritten'
<1>1. UNCHANGED <<disk, write>> => FileRecorded'
  BY DEF CleanInv, FileRecorded, Keys
<1>2. (disk' = disk \/ Keys(disk') \in past') /\ write'.state # "landed" => FileRecorded'
  BY DEF CleanInv, FileRecorded, Keys
<1>3. reads' \subseteq reads => ReadsRecorded'
  BY DEF CleanInv, ReadsRecorded, Keys
<1>4. reads' \subseteq reads /\ UNCHANGED <<generation, shown>> => ReadsOfSession'
  BY DEF CleanInv, ReadsOfSession
<1>5. UNCHANGED <<shown, cached, buf, left>> => EditorRecorded'
  BY DEF CleanInv, EditorRecorded, Keys
<1>6. UNCHANGED <<shown, buf, left, dirty>> => CleanIsWritten'
  BY DEF CleanInv, CleanIsWritten, Open, Keystrokes
<1> QED BY <1>1, <1>2, <1>3, <1>4, <1>5, <1>6

(* A session that ends: what its reads bring is no longer its own. *)
LEMMA ResetEnds ==
  ASSUME TypedInv, CleanInv, reset, reads' \subseteq reads
  PROVE  ReadsOfSession'
BY DEF TypedInv, SessionTyped, WritesTyped, ReadsTyped, ReadState, CleanInv, ReadsOfSession, reset

LEMMA AskedRecorded ==
  ASSUME TypedInv, CleanInv, past \subseteq past', NEW kind, NEW hash, kind = "load" \/ shown,
         UNCHANGED generation, shown => shown',
         reads' = reads \union {[kind |-> kind, gen |-> generation, hash |-> hash, text |-> Null]}
  PROVE  ReadsRecorded' /\ ReadsOfSession'
BY DEF TypedInv, SessionTyped, WritesTyped, CleanInv, ReadsRecorded, ReadsOfSession

(* The next write of the chain has not landed. *)
LEMMA ChainStarts == NextInChain => write'.state # "landed"
BY DEF NextInChain, performWrite, NoWrite

LEMMA CleanKept == SessionSpec => []CleanInv
<1>1. SessionInit => CleanInv
  <2> SUFFICES ASSUME SessionInit PROVE CleanInv
    OBVIOUS
  <2>1. Keys({}) = {}
    BY DEF Keys
  <2> QED
    BY <2>1 DEF SessionInit, CleanInv, FileRecorded, ReadsRecorded, ReadsOfSession, EditorRecorded,
        CleanIsWritten, Open, Keystrokes, NoWrite
<1>2. TypedInv /\ CleanInv /\ [SessionNext]_sessionVars => CleanInv'
  <2> SUFFICES ASSUME TypedInv, CleanInv, [SessionNext]_sessionVars PROVE CleanInv'
    OBVIOUS
  <2>1. CASE Type
    <3>0. past \subseteq past'
      BY <2>1 DEF Type, Recorded, fileVars
    <3>1. CleanIsWritten'
      BY <2>1 DEF Type, CleanIsWritten
    <3>2. EditorRecorded'
      BY <2>1 DEF Type, TabShown, Open, CleanInv, EditorRecorded, fileVars
    <3>3. FileRecorded' /\ ReadsRecorded' /\ ReadsOfSession'
      BY <2>1, <3>0, CleanLeftAlone DEF Type, fileVars, editorVars, docVars, hashVars, writeVars, eventVars, countVars
    <3> QED BY <3>1, <3>2, <3>3 DEF CleanInv
  <2>2. CASE Flush
    <3>0. past \subseteq past'
      BY <2>2 DEF Flush, Recorded, fileVars
    <3>1. FileRecorded'
      BY <2>2 DEF Flush, flush, performWrite, CleanInv, FileRecorded, fileVars
    <3>2. ReadsRecorded' /\ ReadsOfSession' /\ EditorRecorded' /\ CleanIsWritten'
      BY <2>2, <3>0, CleanLeftAlone DEF Flush, fileVars, editorVars, docVars, hashVars, writeVars, eventVars, countVars
    <3> QED BY <3>1, <3>2 DEF CleanInv
  <2>3. CASE LeaveTab
    <3>0. past \subseteq past'
      BY <2>3 DEF LeaveTab, Recorded, fileVars
    <3>1. FileRecorded'
      BY <2>3 DEF LeaveTab, flush, performWrite, CleanInv, FileRecorded, fileVars
    <3>2. ReadsOfSession'
      <4>1. CASE Hide
        BY <2>3, <4>1, ResetEnds DEF LeaveTab, Hide
      <4>2. CASE UNCHANGED <<editorVars, hashVars>>
        BY <2>3, <4>2, <3>0, CleanLeftAlone DEF LeaveTab, editorVars, hashVars, fileVars
      <4> QED BY <2>3, <4>1, <4>2 DEF LeaveTab
    <3>3. EditorRecorded'
      BY <2>3 DEF LeaveTab, Hide, Evicted, CleanInv, EditorRecorded, editorVars, fileVars
    <3>4. CleanIsWritten'
      BY <2>3 DEF LeaveTab, Hide, Evicted, CleanInv, CleanIsWritten, Open, Keystrokes, editorVars, fileVars
    <3>5. ReadsRecorded'
      BY <2>3, <3>0, CleanLeftAlone DEF LeaveTab, fileVars, editorVars, docVars, hashVars, writeVars, eventVars, countVars
    <3> QED BY <3>1, <3>2, <3>3, <3>4, <3>5 DEF CleanInv
  <2>4. CASE CloseVault
    <3>0. past \subseteq past'
      BY <2>4 DEF CloseVault, Recorded, fileVars
    <3>1. ReadsOfSession'
      BY <2>4, ResetEnds DEF CloseVault
    <3>2. EditorRecorded'
      BY <2>4 DEF CloseVault, Evicted, EditorRecorded
    <3>3. CleanIsWritten'
      BY <2>4 DEF CloseVault, CleanIsWritten, Open
    <3>4. FileRecorded' /\ ReadsRecorded'
      BY <2>4, <3>0, CleanLeftAlone DEF CloseVault, fileVars, editorVars, docVars, hashVars, writeVars, eventVars, countVars
    <3> QED BY <3>1, <3>2, <3>3, <3>4 DEF CleanInv
  <2>5. CASE Show
    <3>0. past \subseteq past'
      BY <2>5 DEF Show, Recorded, fileVars
    <3>1. ReadsRecorded' /\ ReadsOfSession'
      BY <2>5, <3>0, AskedRecorded DEF Show, fileVars, docVars, hashVars
    <3>2. EditorRecorded'
      BY <2>5 DEF Show, CleanInv, EditorRecorded, fileVars
    <3>3. CleanIsWritten'
      BY <2>5 DEF Show, CleanInv, EditorRecorded, CleanIsWritten, Open, Keystrokes, Keys, fileVars, docVars
    <3>4. FileRecorded'
      BY <2>5, <3>0, CleanLeftAlone DEF Show, fileVars, editorVars, docVars, hashVars, writeVars, eventVars, countVars
    <3> QED BY <3>1, <3>2, <3>3, <3>4 DEF CleanInv
  <2>6. CASE Quit
    <3>0. past \subseteq past'
      BY <2>6 DEF Quit, Recorded, fileVars
    <3>1. FileRecorded'
      BY <2>6 DEF Quit, Recorded, NoWrite, CleanInv, FileRecorded, Keys
    <3>2. ReadsOfSession'
      BY <2>6 DEF Quit, ReadsOfSession
    <3>3. EditorRecorded'
      BY <2>6 DEF Quit, Evicted, EditorRecorded
    <3>4. CleanIsWritten'
      BY <2>6 DEF Quit, CleanIsWritten, Open
    <3>5. ReadsRecorded'
      BY <2>6, <3>0, CleanLeftAlone DEF Quit, fileVars, editorVars, docVars, hashVars, writeVars, eventVars, countVars
    <3> QED BY <3>1, <3>2, <3>3, <3>4, <3>5 DEF CleanInv
  <2>7. CASE WriteLands
    <3>0. past \subseteq past'
      BY <2>7 DEF WriteLands, Recorded, fileVars
    <3>1. FileRecorded'
      BY <2>7 DEF WriteLands, Recorded, CleanInv, FileRecorded, Keys, TypedInv, SessionTyped, WritesTyped, WriteState
    <3>2. ReadsRecorded' /\ ReadsOfSession' /\ EditorRecorded' /\ CleanIsWritten'
      BY <2>7, <3>0, CleanLeftAlone DEF WriteLands, fileVars, editorVars, docVars, hashVars, writeVars, eventVars, countVars
    <3> QED BY <3>1, <3>2 DEF CleanInv
  <2>8. CASE WriteAnswered
    <3>0. past \subseteq past'
      BY <2>8 DEF WriteAnswered, Recorded, fileVars
    <3>1. FileRecorded'
      BY <2>8, ChainStarts, <3>0, CleanLeftAlone DEF WriteAnswered, fileVars
    <3>2. ReadsOfSession'
      <4>1. CASE LastAwaited
        BY <2>8, <4>1, ResetEnds DEF WriteAnswered, Hide
      <4>2. CASE ~ LastAwaited
        BY <2>8, <4>2, <3>0, CleanLeftAlone DEF WriteAnswered, editorVars, docVars, hashVars, fileVars
      <4> QED BY <4>1, <4>2
    <3>3. EditorRecorded'
      BY <2>8 DEF WriteAnswered, Hide, Evicted, CleanInv, EditorRecorded, editorVars, fileVars
    <3>4. CleanIsWritten'
      BY <2>8 DEF WriteAnswered, Hide, Evicted, StillDirty, CleanInv, FileRecorded, CleanIsWritten, Open, Keystrokes, Keys, editorVars, docVars, fileVars
    <3>5. ReadsRecorded'
      BY <2>8, <3>0, CleanLeftAlone DEF WriteAnswered, fileVars, editorVars, docVars, hashVars, writeVars, eventVars, countVars
    <3> QED BY <3>1, <3>2, <3>3, <3>4, <3>5 DEF CleanInv
  <2>9. CASE WriteFails
    <3>0. past \subseteq past'
      BY <2>9 DEF WriteFails, Recorded, fileVars
    <3>1. FileRecorded'
      BY <2>9, ChainStarts, <3>0, CleanLeftAlone DEF WriteFails, fileVars
    <3>2. ReadsOfSession'
      <4>1. CASE LastAwaited
        BY <2>9, <4>1, ResetEnds DEF WriteFails, Hide
      <4>2. CASE ~ LastAwaited
        BY <2>9, <4>2, <3>0, CleanLeftAlone DEF WriteFails, editorVars, docVars, hashVars, fileVars
      <4> QED BY <4>1, <4>2
    <3>3. EditorRecorded'
      BY <2>9 DEF WriteFails, Hide, Evicted, CleanInv, EditorRecorded, editorVars, fileVars
    <3>4. CleanIsWritten'
      BY <2>9 DEF WriteFails, Hide, Evicted, CleanInv, CleanIsWritten, Open, Keystrokes, editorVars, docVars, fileVars
    <3>5. ReadsRecorded'
      BY <2>9, <3>0, CleanLeftAlone DEF WriteFails, fileVars, editorVars, docVars, hashVars, writeVars, eventVars, countVars
    <3> QED BY <3>1, <3>2, <3>3, <3>4, <3>5 DEF CleanInv
  <2>10. CASE applyExternalChange
    <3>0. past \subseteq past'
      BY <2>10 DEF applyExternalChange, Recorded, fileVars
    <3>1. ReadsRecorded' /\ ReadsOfSession'
      <4>1. CASE UNCHANGED reads
        BY <2>10, <4>1, <3>0, CleanLeftAlone DEF applyExternalChange, fileVars, editorVars
      <4>2. CASE shown /\ Asked("external", Head(events))
        BY <2>10, <4>2, <3>0, AskedRecorded DEF applyExternalChange, Asked, fileVars, editorVars
      <4> QED BY <2>10, <4>1, <4>2 DEF applyExternalChange
    <3>2. FileRecorded' /\ EditorRecorded' /\ CleanIsWritten'
      BY <2>10, <3>0, CleanLeftAlone DEF applyExternalChange, fileVars, editorVars, docVars, hashVars, writeVars, eventVars, countVars
    <3> QED BY <3>1, <3>2 DEF CleanInv
  <2>11. CASE refreshFromDisk
    <3>0. past \subseteq past'
      BY <2>11 DEF refreshFromDisk, Recorded, fileVars
    <3>1. ReadsRecorded' /\ ReadsOfSession'
      <4>1. CASE UNCHANGED reads
        BY <2>11, <4>1, <3>0, CleanLeftAlone DEF refreshFromDisk, fileVars, editorVars, docVars, hashVars
      <4>2. CASE Open /\ Asked("refresh", Null)
        BY <2>11, <4>2, <3>0, AskedRecorded DEF refreshFromDisk, Asked, Open, fileVars, editorVars, docVars, hashVars
      <4> QED BY <2>11, <4>1, <4>2 DEF refreshFromDisk
    <3>2. FileRecorded' /\ EditorRecorded' /\ CleanIsWritten'
      BY <2>11, <3>0, CleanLeftAlone DEF refreshFromDisk, fileVars, editorVars, docVars, hashVars, writeVars, eventVars, countVars
    <3> QED BY <3>1, <3>2 DEF CleanInv
  <2>12. CASE takeDisk
    <3>0. past \subseteq past'
      BY <2>12 DEF takeDisk, Recorded, fileVars
    <3>1. ReadsRecorded' /\ ReadsOfSession'
      BY <2>12, <3>0, AskedRecorded DEF takeDisk, Asked, TabShown, Open, fileVars, editorVars, docVars, hashVars
    <3>2. FileRecorded' /\ EditorRecorded' /\ CleanIsWritten'
      BY <2>12, <3>0, CleanLeftAlone DEF takeDisk, fileVars, editorVars, docVars, hashVars, writeVars, eventVars, countVars
    <3> QED BY <3>1, <3>2 DEF CleanInv
  <2>13. CASE keepMine
    <3>0. past \subseteq past'
      BY <2>13 DEF keepMine, Recorded, fileVars
    <3>1. FileRecorded' /\ ReadsRecorded' /\ ReadsOfSession' /\ EditorRecorded' /\ CleanIsWritten'
      BY <2>13, <3>0, CleanLeftAlone DEF keepMine, fileVars, editorVars, docVars, hashVars, writeVars, eventVars, countVars
    <3> QED BY <3>1 DEF CleanInv
  <2>14. CASE ReadServed
    <3>0. past \subseteq past'
      BY <2>14 DEF ReadServed, Recorded, fileVars
    <3>1. ReadsRecorded' /\ ReadsOfSession'
      <4>1. PICK r \in reads : reads' = (reads \ {r}) \union {[r EXCEPT !.text = View]}
        BY <2>14 DEF ReadServed
      <4>2. Keys(View) \in past
        BY ViewKeys DEF TypedInv, SessionTyped, CleanInv, FileRecorded
      <4>3. /\ [r EXCEPT !.text = View].text = View
            /\ [r EXCEPT !.text = View].kind = r.kind
            /\ [r EXCEPT !.text = View].gen = r.gen
        BY DEF TypedInv, SessionTyped, ReadsTyped, ReadState
      <4>4. ReadsRecorded'
        BY <2>14, <4>1, <4>2, <4>3 DEF ReadServed, CleanInv, ReadsRecorded, Keys, fileVars
      <4>5. ReadsOfSession'
        BY <2>14, <4>1, <4>3 DEF ReadServed, CleanInv, ReadsOfSession, editorVars, docVars, hashVars
      <4> QED BY <4>4, <4>5
    <3>2. FileRecorded' /\ EditorRecorded' /\ CleanIsWritten'
      BY <2>14, <3>0, CleanLeftAlone DEF ReadServed, fileVars, editorVars, docVars, hashVars, writeVars, eventVars, countVars
    <3> QED BY <3>1, <3>2 DEF CleanInv
  <2>15. CASE ReadFails
    <3>0. past \subseteq past'
      BY <2>15 DEF ReadFails, Recorded, fileVars
    <3>1. FileRecorded' /\ ReadsRecorded' /\ ReadsOfSession' /\ EditorRecorded' /\ CleanIsWritten'
      BY <2>15, <3>0, CleanLeftAlone DEF ReadFails, fileVars, editorVars, docVars, hashVars, writeVars, eventVars, countVars
    <3> QED BY <3>1 DEF CleanInv
  <2>16. ASSUME NEW r \in reads, LoadAnswered(r) PROVE CleanInv'
    <3>0. past \subseteq past'
      BY <2>16 DEF LoadAnswered, Recorded, fileVars
    <3>1. EditorRecorded'
      BY <2>16 DEF LeftIfSame, LoadAnswered, Answered, CleanInv, EditorRecorded, ReadsRecorded, fileVars
    <3>2. CleanIsWritten'
      BY <2>16 DEF LeftIfSame, LoadAnswered, Answered, CleanInv, CleanIsWritten, ReadsRecorded, Open, Keystrokes, Keys, fileVars
    <3>3. FileRecorded' /\ ReadsRecorded' /\ ReadsOfSession'
      BY <2>16, <3>0, CleanLeftAlone DEF LoadAnswered, Answered, fileVars, editorVars, docVars, hashVars, writeVars, eventVars, countVars
    <3> QED BY <3>1, <3>2, <3>3 DEF CleanInv
  <2>17. ASSUME NEW r \in reads, TakeAnswered(r) PROVE CleanInv'
    <3>0. past \subseteq past'
      BY <2>17 DEF TakeAnswered, Recorded, fileVars
    <3>1. EditorRecorded'
      BY <2>17 DEF LeftIfSame, TakeAnswered, Answered, Replaced, CleanInv, EditorRecorded, ReadsRecorded, ReadsOfSession, fileVars
    <3>2. CleanIsWritten'
      BY <2>17 DEF LeftIfSame, TakeAnswered, Answered, Replaced, CleanInv, CleanIsWritten, ReadsRecorded, Open, Keystrokes, Keys, fileVars
    <3>3. FileRecorded' /\ ReadsRecorded' /\ ReadsOfSession'
      BY <2>17, <3>0, CleanLeftAlone DEF TakeAnswered, Answered, fileVars, editorVars, docVars, hashVars, writeVars, eventVars, countVars
    <3> QED BY <3>1, <3>2, <3>3 DEF CleanInv
  <2>18. ASSUME NEW r \in reads, RefreshAnswered(r) PROVE CleanInv'
    <3>0. past \subseteq past'
      BY <2>18 DEF RefreshAnswered, Recorded, fileVars
    <3>1. EditorRecorded'
      BY <2>18 DEF LeftIfSame, RefreshAnswered, Answered, Replaced, CleanInv, EditorRecorded, ReadsRecorded, ReadsOfSession, fileVars
    <3>2. CleanIsWritten'
      BY <2>18 DEF LeftIfSame, RefreshAnswered, Answered, Replaced, CleanInv, CleanIsWritten, ReadsRecorded, Open, Keystrokes, Keys, fileVars
    <3>3. FileRecorded' /\ ReadsRecorded' /\ ReadsOfSession'
      BY <2>18, <3>0, CleanLeftAlone DEF RefreshAnswered, Answered, fileVars, editorVars, docVars, hashVars, writeVars, eventVars, countVars
    <3> QED BY <3>1, <3>2, <3>3 DEF CleanInv
  <2>19. ASSUME NEW r \in reads, ExternalAnswered(r) PROVE CleanInv'
    <3>0. past \subseteq past'
      BY <2>19 DEF ExternalAnswered, Recorded, fileVars
    <3>1. EditorRecorded' /\ CleanIsWritten'
      <4>1. CASE Replaced(r.text) /\ r.gen = generation
        BY <2>19, <4>1 DEF ExternalAnswered, Answered, Replaced, CleanInv, EditorRecorded, CleanIsWritten,
           ReadsRecorded, ReadsOfSession, Open, Keystrokes, Keys, fileVars
      <4>2. CASE UNCHANGED <<buf, cached, dirty>>
        BY <2>19, <3>0, <4>2, <3>0, CleanLeftAlone DEF LeftIfSame, ExternalAnswered
      <4> QED BY <2>19, <4>1, <4>2 DEF ExternalAnswered
    <3>2. FileRecorded' /\ ReadsRecorded' /\ ReadsOfSession'
      BY <2>19, <3>0, CleanLeftAlone DEF ExternalAnswered, Answered, fileVars, editorVars, docVars, hashVars, writeVars, eventVars, countVars
    <3> QED BY <3>1, <3>2 DEF CleanInv
  <2>20. CASE ExternalEdit
    <3>0. past \subseteq past'
      BY <2>20 DEF ExternalEdit, Recorded, fileVars
    <3>1. FileRecorded'
      BY <2>20 DEF ExternalEdit, Recorded, CleanInv, FileRecorded, Keys, writeVars
    <3>2. ReadsRecorded' /\ ReadsOfSession' /\ EditorRecorded' /\ CleanIsWritten'
      BY <2>20, <3>0, CleanLeftAlone DEF ExternalEdit, fileVars, editorVars, docVars, hashVars, writeVars, eventVars, countVars
    <3> QED BY <3>1, <3>2 DEF CleanInv
  <2>21. CASE WatcherReports
    <3>0. past \subseteq past'
      BY <2>21 DEF WatcherReports, Recorded, fileVars
    <3>1. FileRecorded' /\ ReadsRecorded' /\ ReadsOfSession' /\ EditorRecorded' /\ CleanIsWritten'
      BY <2>21, <3>0, CleanLeftAlone DEF WatcherReports, fileVars, editorVars, docVars, hashVars, writeVars, eventVars, countVars
    <3> QED BY <3>1 DEF CleanInv
  <2>22. CASE RenameElsewhere
    <3>0. past \subseteq past'
      BY <2>22 DEF RenameElsewhere, Recorded, fileVars
    <3>1. FileRecorded' /\ ReadsRecorded' /\ ReadsOfSession' /\ EditorRecorded' /\ CleanIsWritten'
      BY <2>22, <3>0, CleanLeftAlone DEF RenameElsewhere, fileVars, editorVars, docVars, hashVars, writeVars, eventVars, countVars
    <3> QED BY <3>1 DEF CleanInv
  <2>23. CASE FlushRows
    <3>0. past \subseteq past'
      BY <2>23 DEF FlushRows, Recorded, fileVars
    <3>1. FileRecorded'
      BY <2>23, ViewKeys DEF FlushRows, TypedInv, SessionTyped, CleanInv, FileRecorded, Keys, writeVars
    <3>2. ReadsRecorded' /\ ReadsOfSession' /\ EditorRecorded' /\ CleanIsWritten'
      BY <2>23, <3>0, CleanLeftAlone DEF FlushRows, fileVars, editorVars, docVars, hashVars, writeVars, eventVars, countVars
    <3> QED BY <3>1, <3>2 DEF CleanInv
  <2>25. CASE Evict
    <3>0. past \subseteq past'
      BY <2>25 DEF Evict, fileVars
    <3>1. EditorRecorded'
      BY <2>25 DEF Evict, Evicted, EditorRecorded
    <3>2. CleanIsWritten'
      BY <2>25 DEF Evict, CleanIsWritten, Open
    <3>3. FileRecorded' /\ ReadsRecorded' /\ ReadsOfSession'
      BY <2>25, <3>0, CleanLeftAlone DEF Evict, fileVars, editorVars, docVars, hashVars, writeVars, eventVars, countVars
    <3> QED BY <3>1, <3>2, <3>3 DEF CleanInv
  <2>26. CASE LoadFails
    <3>0. past \subseteq past'
      BY <2>26 DEF LoadFails, fileVars
    <3>1. EditorRecorded' /\ CleanIsWritten'
      <4>1. buf' = Null \/ (buf' = {} /\ {} \in past')
        BY <2>26, <3>0 DEF LoadFails, CleanInv, FileRecorded
      <4>2. Keys({}) = {}
        BY DEF Keys
      <4>3. cached' = Null
        BY <2>26 DEF LoadFails
      <4> QED
        BY <4>1, <4>2, <4>3 DEF EditorRecorded, CleanIsWritten, Open, Keystrokes, Keys
    <3>2. FileRecorded' /\ ReadsRecorded' /\ ReadsOfSession'
      BY <2>26, <3>0, CleanLeftAlone DEF LoadFails, fileVars, editorVars, docVars, hashVars, writeVars, eventVars, countVars
    <3> QED BY <3>1, <3>2 DEF CleanInv
  <2>24. CASE UNCHANGED sessionVars
    BY <2>24, CleanLeftAlone DEF CleanInv, sessionVars, fileVars, editorVars, docVars, hashVars, writeVars, eventVars, countVars
  <2> QED
    BY <2>1, <2>2, <2>3, <2>4, <2>5, <2>6, <2>7, <2>8, <2>9, <2>10, <2>11, <2>12, <2>13, <2>14, <2>15, <2>16, <2>17, <2>18, <2>19, <2>20, <2>21, <2>22, <2>23, <2>24, <2>25, <2>26 DEF SessionNext
<1> QED BY <1>1, <1>2, TypedKept, PTL DEF SessionSpec

(* A note taken for clean shows a text whose keystrokes have been in the    *)
(* file, or the one its editor was left with behind other tabs, however    *)
(* many are kept (settings.liveTabLimit).                                  *)
THEOREM CleanNotesAreWritten == SessionSpec => []CleanIsWritten
<1>1. SessionSpec => []CleanInv
  BY CleanKept
<1>2. CleanInv => CleanIsWritten
  BY DEF CleanInv
<1> QED BY <1>1, <1>2, PTL

(* A text whose keystrokes are in no file yet is replaced by an answer only *)
(* if the user chose the copy on disk, or the tab is being shown: a reload  *)
(* looks at dirty again after the file was read.                           *)
THEOREM UnsavedIsNotReloaded == SessionSpec => ReloadsKeepUnsaved
<1> DEFINE Step == (Overwritten /\ (dirty \/ buf # left)) => LoadedOrTaken
<1>1. TypedInv /\ CleanInv /\ [SessionNext]_sessionVars => [Step]_sessionVars
  <2> SUFFICES ASSUME TypedInv, CleanInv, SessionNext, Overwritten, dirty \/ buf # left
               PROVE  LoadedOrTaken
    OBVIOUS
  <2> USE DEF Overwritten
  <2>1. dirty
    BY DEF CleanInv, CleanIsWritten
  <2>2. ~ Type
    BY DEF Type, TypedInv, SessionTyped, TextsTyped
  <2>3. ~ Flush
    BY DEF Flush, editorVars
  <2>4. ~ LeaveTab
    BY DEF LeaveTab, Hide, reset, TypedInv, SessionTyped, WritesTyped, editorVars, hashVars
  <2>5. ~ CloseVault
    BY DEF CloseVault, reset, TypedInv, SessionTyped, WritesTyped
  <2>6. ~ Show
    BY DEF Show, Open
  <2>7. ~ Quit
    BY DEF Quit, reset, TypedInv, SessionTyped, WritesTyped
  <2>8. ~ WriteLands
    BY DEF WriteLands, editorVars
  <2>9. ~ WriteAnswered
    BY DEF WriteAnswered, Hide, reset, TypedInv, SessionTyped, WritesTyped, editorVars
  <2>10. ~ WriteFails
    BY DEF WriteFails, Hide, reset, TypedInv, SessionTyped, WritesTyped, editorVars
  <2>11. ~ applyExternalChange
    BY DEF applyExternalChange, editorVars
  <2>12. ~ refreshFromDisk
    BY DEF refreshFromDisk, editorVars
  <2>13. ~ takeDisk
    BY DEF takeDisk, editorVars
  <2>14. ~ keepMine
    BY DEF keepMine, editorVars
  <2>15. ~ ReadServed
    BY DEF ReadServed, editorVars
  <2>16. ~ ReadFails
    BY DEF ReadFails, editorVars
  <2>17. ASSUME NEW r \in reads, LoadAnswered(r) PROVE LoadedOrTaken
    BY <2>17 DEF LoadAnswered, Answered, LoadedOrTaken
  <2>18. ASSUME NEW r \in reads, TakeAnswered(r) PROVE LoadedOrTaken
    BY <2>18 DEF TakeAnswered, Answered, LoadedOrTaken
  <2>19. ASSUME NEW r \in reads PROVE ~ RefreshAnswered(r)
    BY <2>1 DEF RefreshAnswered, TypedMeanwhile
  <2>20. ASSUME NEW r \in reads PROVE ~ ExternalAnswered(r)
    BY <2>1 DEF ExternalAnswered, TypedMeanwhile
  <2>21. ~ ExternalEdit
    BY DEF ExternalEdit, editorVars
  <2>22. ~ WatcherReports
    BY DEF WatcherReports, editorVars
  <2>23. ~ RenameElsewhere
    BY DEF RenameElsewhere, editorVars
  <2>25. ~ Evict
    BY DEF Evict, Open
  <2>26. LoadFails => LoadedOrTaken
    BY DEF LoadFails, LoadedOrTaken
  <2>24. ~ FlushRows
    BY DEF FlushRows, editorVars
  <2> QED
    BY <2>2, <2>3, <2>4, <2>5, <2>6, <2>7, <2>8, <2>9, <2>10, <2>11, <2>12, <2>13, <2>14, <2>15, <2>16, <2>17, <2>18, <2>19, <2>20, <2>21, <2>22, <2>23, <2>24, <2>25, <2>26 DEF SessionNext
<1>2. SessionSpec => [](TypedInv /\ CleanInv)
  BY TypedKept, CleanKept, PTL
<1> QED BY <1>1, <1>2, PTL DEF SessionSpec, ReloadsKeepUnsaved

-----------------------------------------------------------------------------
(* What TypeOK says beyond TypedInv: flags, hashes and the bounds.         *)
Flags == {shown, dirty, autosave, failed, changed, nudged} \subseteq BOOLEAN
Hashes == {lastWrittenHash, conflictHash, left} \subseteq TextOrNull
Chain == /\ generation \in 0..MaxVisits /\ write.gen \in 0..MaxVisits
         /\ queued \in 0..MaxQueued /\ leaving \in 0..MaxQueued + 1
         /\ flushes \in 0..MaxFlushes
Reading == (\A r \in reads : r.gen \in 0..MaxVisits) /\ Len(events) <= MaxEvents
Edits == /\ past \subseteq SUBSET Typed
         /\ typed \in 0..MaxTyped /\ others \in 0..MaxOthers

BoundsInv == Flags /\ Hashes /\ Chain /\ Reading /\ Edits

LEMMA BoundsGiveTypes == TypedInv /\ BoundsInv => TypeOK
<1> SUFFICES ASSUME TypedInv, BoundsInv PROVE TypeOK
  OBVIOUS
<1>1. write \in Write
  BY DEF TypedInv, SessionTyped, WritesTyped, WriteState, BoundsInv, Chain, Write
<1>2. reads \subseteq Read
  BY DEF TypedInv, SessionTyped, ReadsTyped, ReadState, BoundsInv, Reading, Read, TextOrNull
<1> QED
  BY <1>1, <1>2 DEF TypeOK, TypedInv, SessionTyped, TextsTyped, ReadsTyped, TextOrNull,
     BoundsInv, Flags, Hashes, Chain, Reading, Edits

(* The state keeps to its sets, and every counter to its bound: the writes   *)
(* chained behind one another and the answers a tab waits for with them    *)
(* (pendingWrite, activateWithFlush).                                        *)
THEOREM SessionIsTyped == SessionSpec => []TypeOK
<1> USE BoundAssumption
<1>1. SessionInit => BoundsInv
  <2> SUFFICES ASSUME SessionInit PROVE BoundsInv
    OBVIOUS
  <2>1. Flags
    BY DEF SessionInit, Flags
  <2>2. Hashes
    BY DEF SessionInit, Hashes, TextOrNull, Text
  <2>3. Chain
    <3>1. /\ 0 \in 0 .. MaxVisits /\ 0 \in 0 .. MaxQueued /\ 0 \in 0 .. MaxQueued + 1
          /\ 0 \in 0 .. MaxFlushes
      OBVIOUS
    <3> QED BY <3>1 DEF SessionInit, Chain, NoWrite
  <2>4. Reading
    BY DEF SessionInit, Reading
  <2>5. Edits
    BY DEF SessionInit, Edits
  <2> QED BY <2>1, <2>2, <2>3, <2>4, <2>5 DEF BoundsInv
<1>2. TypedInv /\ TypedInv' /\ BoundsInv /\ [SessionNext]_sessionVars => BoundsInv'
  <2> SUFFICES ASSUME TypedInv, TypedInv', BoundsInv, [SessionNext]_sessionVars
               PROVE  BoundsInv'
    OBVIOUS
  <2> USE DEF fileVars, editorVars, docVars, hashVars, writeVars, eventVars, countVars
  <2>t. /\ Flags /\ Hashes /\ Chain /\ Reading /\ Edits
        /\ buf \in TextOrNull /\ disk \in Text /\ Null \notin Text
    BY NullIsNoText DEF BoundsInv, TypedInv, SessionTyped, TextsTyped
  <2>r. /\ reads \in SUBSET ReadState /\ write \in WriteState
        /\ events \in Seq(Text) /\ Len(events) \in Nat
    BY DEF TypedInv, SessionTyped, ReadsTyped, WritesTyped
  <2>e. ASSUME events # <<>>
        PROVE  Head(events) \in Text /\ Len(Tail(events)) = Len(events) - 1
    BY <2>e, <2>r, HeadTailProperties
  <2>1. CASE Type
    <3>1. Flags'
      BY <2>1, <2>t DEF Flags, Type, Scheduled
    <3>2. Edits'
      BY <2>1, <2>t DEF Edits, Type, Scheduled
    <3>3. Hashes' /\ Chain' /\ Reading'
      BY <2>1, <2>t DEF LeftIfSame, TextOrNull, Hashes, Chain, Reading, Type, Scheduled
    <3> QED BY <3>1, <3>2, <3>3 DEF BoundsInv
  <2>2. CASE Flush
    <3>1. Flags'
      BY <2>2, <2>t DEF Flags, Flush, flush, Counts, performWrite
    <3>2. Chain'
      BY <2>2, <2>t DEF Chain, Flush, flush, Counts, performWrite
    <3>3. Hashes' /\ Reading' /\ Edits'
      BY <2>2, <2>t DEF Hashes, Reading, Edits, Flush, flush, Counts, performWrite
    <3> QED BY <3>1, <3>2, <3>3 DEF BoundsInv
  <2>3. CASE LeaveTab
    <3>1. Flags'
      BY <2>3, <2>t DEF Flags, LeaveTab, Hide, reset, flush, Counts, performWrite, Open
    <3>2. Hashes'
      BY <2>3, <2>t DEF Hashes, LeaveTab, Hide, Evicted, reset, flush, Counts, performWrite, Open, TextOrNull
    <3>3. Chain'
      <4>1. CASE conflictHash # Null \/ Idle
        BY <2>3, <2>t, <4>1 DEF Chain, LeaveTab, Hide, reset
      <4>2. CASE ~ (conflictHash # Null \/ Idle)
        <5>1. generation' = generation /\ write'.gen \in 0 .. MaxVisits
          BY <2>3, <2>t, <4>2 DEF Chain, LeaveTab, flush, performWrite
        <5>2. queued' \in 0 .. MaxQueued /\ leaving' \in 0 .. MaxQueued + 1 /\ flushes' \in 0 .. MaxFlushes
          BY <2>3, <2>t, <4>2 DEF Chain, LeaveTab, flush, Counts
        <5> QED BY <5>1, <5>2, <2>t DEF Chain
      <4> QED BY <4>1, <4>2
    <3>4. Reading' /\ Edits'
      BY <2>3, <2>t DEF Reading, Edits, LeaveTab, Hide, reset, flush, Counts, performWrite, Open
    <3> QED BY <3>1, <3>2, <3>3, <3>4 DEF BoundsInv
  <2>4. CASE CloseVault
    <3>1. Flags'
      BY <2>4, <2>t DEF Flags, CloseVault, reset
    <3>2. Hashes'
      BY <2>4, <2>t DEF Hashes, CloseVault, Evicted, reset, TextOrNull
    <3>3. Chain'
      BY <2>4, <2>t DEF Chain, CloseVault, reset
    <3>4. Reading'
      BY <2>4, <2>t DEF Reading, CloseVault, reset
    <3>5. Edits'
      BY <2>4, <2>t DEF Edits, CloseVault, reset
    <3> QED BY <3>1, <3>2, <3>3, <3>4, <3>5 DEF BoundsInv
  <2>5. CASE Show
    <3>1. Flags'
      BY <2>5, <2>t DEF Flags, Show
    <3>2. Reading'
      BY <2>5, <2>t DEF Reading, Chain, Show
    <3>3. Hashes' /\ Chain' /\ Edits'
      BY <2>5, <2>t DEF Hashes, Chain, Edits, Show
    <3> QED BY <3>1, <3>2, <3>3 DEF BoundsInv
  <2>6. CASE Quit
    <3>1. Flags'
      BY <2>6, <2>t DEF Flags, Quit, reset, NoWrite, Recorded, Open
    <3>2. Hashes'
      BY <2>6, <2>t DEF Hashes, Quit, Evicted, reset, NoWrite, Recorded, Open, TextOrNull
    <3>3. Chain'
      BY <2>6, <2>t DEF Chain, Quit, reset, NoWrite, Recorded, Open
    <3>4. Reading'
      BY <2>6, <2>t DEF Reading, Quit, reset, NoWrite, Recorded, Open
    <3>5. Edits'
      BY <2>6, <2>t DEF Edits, Quit, reset, NoWrite, Recorded, Open
    <3> QED BY <3>1, <3>2, <3>3, <3>4, <3>5 DEF BoundsInv
  <2>7. CASE WriteLands
    <3>1. Flags'
      BY <2>7, <2>t DEF Flags, WriteLands, Recorded
    <3>2. Chain'
      BY <2>7, <2>t DEF Chain, WriteLands, Recorded
    <3>3. Edits'
      BY <2>7, <2>t DEF Edits, WriteLands, Recorded
    <3>4. Hashes' /\ Reading'
      BY <2>7, <2>t DEF Hashes, Reading, WriteLands, Recorded
    <3> QED BY <3>1, <3>2, <3>3, <3>4 DEF BoundsInv
  <2>8. CASE WriteAnswered
    <3>1. Flags'
      BY <2>8, <2>t DEF Flags, WriteAnswered, Hide, reset, StillDirty, NextInChain, Counted, performWrite, NoWrite
    <3>2. Hashes'
      BY <2>8, <2>t, <2>r DEF Hashes, WriteAnswered, Hide, Evicted, reset, WriteState, TextOrNull
    <3>3. Chain'
      BY <2>8, <2>t DEF Chain, WriteAnswered, Hide, reset, StillDirty, NextInChain, Counted, performWrite, NoWrite
    <3>4. Reading' /\ Edits'
      BY <2>8, <2>t DEF Reading, Edits, WriteAnswered, Hide, reset, StillDirty, NextInChain, Counted, performWrite, NoWrite
    <3> QED BY <3>1, <3>2, <3>3, <3>4 DEF BoundsInv
  <2>9. CASE WriteFails
    <3>1. Flags'
      BY <2>9, <2>t DEF Flags, WriteFails, Hide, reset, NextInChain, Counted, performWrite, NoWrite
    <3>2. Hashes'
      BY <2>9, <2>t DEF Hashes, WriteFails, Hide, Evicted, reset, NextInChain, Counted, performWrite, NoWrite, TextOrNull
    <3>3. Chain'
      BY <2>9, <2>t DEF Chain, WriteFails, Hide, reset, NextInChain, Counted, performWrite, NoWrite
    <3>4. Reading' /\ Edits'
      BY <2>9, <2>t DEF Reading, Edits, WriteFails, Hide, reset, NextInChain, Counted, performWrite, NoWrite
    <3> QED BY <3>1, <3>2, <3>3, <3>4 DEF BoundsInv
  <2>10. CASE applyExternalChange
    <3>1. Flags'
      BY <2>10, <2>t DEF Flags, applyExternalChange, Asked
    <3>2. Hashes'
      BY <2>10, <2>t, <2>e DEF Hashes, applyExternalChange, Asked, TextOrNull
    <3>3. Reading'
      BY <2>10, <2>t, <2>e DEF Reading, Chain, applyExternalChange, Asked
    <3>4. Chain' /\ Edits'
      BY <2>10, <2>t DEF Chain, Edits, applyExternalChange, Asked
    <3> QED BY <3>1, <3>2, <3>3, <3>4 DEF BoundsInv
  <2>11. CASE refreshFromDisk
    <3>1. Flags'
      BY <2>11, <2>t DEF Flags, refreshFromDisk, Asked
    <3>2. Reading'
      BY <2>11, <2>t DEF Reading, Chain, refreshFromDisk, Asked
    <3>3. Hashes' /\ Chain' /\ Edits'
      BY <2>11, <2>t DEF Hashes, Chain, Edits, refreshFromDisk, Asked
    <3> QED BY <3>1, <3>2, <3>3 DEF BoundsInv
  <2>12. CASE takeDisk
    <3>1. Reading'
      BY <2>12, <2>t DEF Reading, Chain, takeDisk, Asked
    <3>2. Flags' /\ Hashes' /\ Chain' /\ Edits'
      BY <2>12, <2>t DEF Flags, Hashes, Chain, Edits, takeDisk, Asked
    <3> QED BY <3>1, <3>2 DEF BoundsInv
  <2>13. CASE keepMine
    <3>1. Flags'
      BY <2>13, <2>t DEF Flags, keepMine
    <3>2. Hashes'
      BY <2>13, <2>t DEF Hashes, keepMine, TextOrNull
    <3>3. Chain' /\ Reading' /\ Edits'
      BY <2>13, <2>t DEF Chain, Reading, Edits, keepMine
    <3> QED BY <3>1, <3>2, <3>3 DEF BoundsInv
  <2>14. CASE ReadServed
    <3>1. Reading'
      <4>1. PICK r \in reads : reads' = (reads \ {r}) \union {[r EXCEPT !.text = View]}
        BY <2>14 DEF ReadServed
      <4>2. [r EXCEPT !.text = View].gen = r.gen
        BY <2>r DEF ReadState
      <4> QED BY <2>14, <2>t, <4>1, <4>2 DEF Reading, ReadServed
    <3>2. Flags' /\ Hashes' /\ Chain' /\ Edits'
      BY <2>14, <2>t DEF Flags, Hashes, Chain, Edits, ReadServed
    <3> QED BY <3>1, <3>2 DEF BoundsInv
  <2>15. CASE ReadFails
    <3>1. Reading'
      BY <2>15, <2>t DEF Reading, ReadFails
    <3>2. Flags' /\ Hashes' /\ Chain' /\ Edits'
      BY <2>15, <2>t DEF Flags, Hashes, Chain, Edits, ReadFails
    <3> QED BY <3>1, <3>2 DEF BoundsInv
  <2>16. ASSUME NEW r \in reads, LoadAnswered(r) PROVE BoundsInv'
    <3>1. Flags'
      BY <2>16, <2>t DEF Flags, LoadAnswered, Answered, Scheduled
    <3>2. Reading'
      BY <2>16, <2>t DEF Reading, LoadAnswered, Answered, Scheduled
    <3>3. Hashes' /\ Chain' /\ Edits'
      BY <2>16, <2>t DEF LeftIfSame, TextOrNull, Hashes, Chain, Edits, LoadAnswered, Answered, Scheduled
    <3> QED BY <3>1, <3>2, <3>3 DEF BoundsInv
  <2>17. ASSUME NEW r \in reads, TakeAnswered(r) PROVE BoundsInv'
    <3>1. Flags'
      BY <2>17, <2>t DEF Flags, TakeAnswered, Answered, Replaced, Scheduled
    <3>2. Hashes'
      BY <2>17, <2>t DEF LeftIfSame, Hashes, TakeAnswered, Answered, Replaced, Scheduled, TextOrNull
    <3>3. Reading'
      BY <2>17, <2>t DEF Reading, TakeAnswered, Answered, Replaced, Scheduled
    <3>4. Chain' /\ Edits'
      BY <2>17, <2>t DEF Chain, Edits, TakeAnswered, Answered, Replaced, Scheduled
    <3> QED BY <3>1, <3>2, <3>3, <3>4 DEF BoundsInv
  <2>18. ASSUME NEW r \in reads, RefreshAnswered(r) PROVE BoundsInv'
    <3>1. Flags'
      BY <2>18, <2>t DEF Flags, RefreshAnswered, Answered, Replaced, Scheduled
    <3>2. Reading'
      BY <2>18, <2>t DEF Reading, RefreshAnswered, Answered, Replaced, Scheduled
    <3>3. Hashes' /\ Chain' /\ Edits'
      BY <2>18, <2>t DEF LeftIfSame, Hashes, Chain, Edits, RefreshAnswered, Answered, Replaced, Scheduled
    <3> QED BY <3>1, <3>2, <3>3 DEF BoundsInv
  <2>19. ASSUME NEW r \in reads, ExternalAnswered(r) PROVE BoundsInv'
    <3>1. Flags'
      BY <2>19, <2>t DEF Flags, ExternalAnswered, Answered, Replaced, Scheduled
    <3>2. Hashes'
      BY <2>19, <2>t, <2>r DEF LeftIfSame, Hashes, ExternalAnswered, Answered, Replaced, ReadState, TextOrNull
    <3>3. Reading'
      BY <2>19, <2>t DEF Reading, ExternalAnswered, Answered, Replaced, Scheduled
    <3>4. Chain' /\ Edits'
      BY <2>19, <2>t DEF Chain, Edits, ExternalAnswered, Answered, Replaced, Scheduled
    <3> QED BY <3>1, <3>2, <3>3, <3>4 DEF BoundsInv
  <2>20. CASE ExternalEdit
    <3>1. Flags'
      BY <2>20, <2>t DEF Flags, ExternalEdit, Recorded
    <3>2. Edits'
      BY <2>20, <2>t DEF Edits, ExternalEdit, Recorded
    <3>3. Hashes' /\ Chain' /\ Reading'
      BY <2>20, <2>t DEF Hashes, Chain, Reading, ExternalEdit, Recorded
    <3> QED BY <3>1, <3>2, <3>3 DEF BoundsInv
  <2>21. CASE WatcherReports
    <3>1. Flags'
      BY <2>21, <2>t DEF Flags, WatcherReports
    <3>2. Reading'
      BY <2>21, <2>t DEF Reading, WatcherReports
    <3>3. Hashes' /\ Chain' /\ Edits'
      BY <2>21, <2>t DEF Hashes, Chain, Edits, WatcherReports
    <3> QED BY <3>1, <3>2, <3>3 DEF BoundsInv
  <2>22. CASE RenameElsewhere
    <3>1. Flags'
      BY <2>22, <2>t DEF Flags, RenameElsewhere
    <3>2. Edits'
      BY <2>22, <2>t DEF Edits, RenameElsewhere
    <3>3. Hashes' /\ Chain' /\ Reading'
      BY <2>22, <2>t DEF Hashes, Chain, Reading, RenameElsewhere
    <3> QED BY <3>1, <3>2, <3>3 DEF BoundsInv
  <2>23. CASE FlushRows
    <3>1. Flags'
      BY <2>23, <2>t DEF Flags, FlushRows
    <3>2. Chain'
      BY <2>23, <2>t DEF Chain, FlushRows, Counts
    <3>3. Hashes' /\ Reading' /\ Edits'
      BY <2>23, <2>t DEF Hashes, Reading, Edits, FlushRows, Counts
    <3> QED BY <3>1, <3>2, <3>3 DEF BoundsInv
  <2>25. CASE Evict
    <3>1. Hashes'
      BY <2>25, <2>t DEF Hashes, Evict, Evicted, TextOrNull
    <3>2. Flags' /\ Chain' /\ Reading' /\ Edits'
      BY <2>25, <2>t DEF Flags, Chain, Reading, Edits, Evict
    <3> QED BY <3>1, <3>2 DEF BoundsInv
  <2>26. CASE LoadFails
    <3>1. Flags'
      BY <2>26, <2>t DEF Flags, LoadFails, Open
    <3>2. Reading'
      BY <2>26, <2>t DEF Reading, LoadFails
    <3>3. Hashes' /\ Chain' /\ Edits'
      BY <2>26, <2>t DEF LeftIfSame, TextOrNull, Hashes, Chain, Edits, LoadFails
    <3> QED BY <3>1, <3>2, <3>3 DEF BoundsInv
  <2>24. CASE UNCHANGED sessionVars
    BY <2>24, <2>t DEF sessionVars, BoundsInv, Flags, Hashes, Chain, Reading, Edits
  <2> QED
    BY <2>1, <2>2, <2>3, <2>4, <2>5, <2>6, <2>7, <2>8, <2>9, <2>10, <2>11, <2>12, <2>13, <2>14, <2>15, <2>16, <2>17, <2>18, <2>19, <2>20, <2>21, <2>22, <2>23, <2>24, <2>25, <2>26 DEF SessionNext
<1> QED BY <1>1, <1>2, BoundsGiveTypes, TypedKept, PTL DEF SessionSpec

-------------------------------------------------------------------------------
(* Processes, command lines and windows *)

(* Stages in which the session's file handle has the lock. *)
Locks(s) == pc[s] \in {"locked", "held", "opened", "open", "closing", "dropping",
                       "unlocking"}

LockInv ==
  /\ LockTypeOK
  /\ \A s \in Session : Locks(s) => lock = s
  /\ OwnerNamesHolder

LEMMA InUseLocks == \A s \in Session : InUse(s) => Locks(s)
BY DEF InUse, Locks

(* The lock, the claim and the calls keep their types, and whoever uses the
   vault has the lock and the claim. *)
THEOREM LockKept == LockSpec => []LockInv
<1> USE LockAssumption
<1>1. LockInit => LockInv
  BY DEF LockInit, LockInv, LockTypeOK, OwnerNamesHolder, Locks, InUse
<1>2. LockInv /\ [LockNext]_lockVars => LockInv'
  <2> SUFFICES ASSUME LockInv, [LockNext]_lockVars PROVE LockInv'
    OBVIOUS
  <2> USE DEF LockInv, LockTypeOK, OwnerNamesHolder, Locks, InUse, Goes,
              Opening, Closing, Ended
  <2>1. ASSUME NEW s \in Session, find_open_vault_by_canonical_path(s)
        PROVE  LockInv'
    BY <2>1 DEF find_open_vault_by_canonical_path
  <2>2. ASSUME NEW s \in Session, acquire(s) PROVE LockInv'
    BY <2>2 DEF acquire
  <2>3. ASSUME NEW s \in Session, write_payload(s) PROVE LockInv'
    BY <2>3 DEF write_payload
  <2>4. ASSUME NEW s \in Session, OpenIndexes(s) PROVE LockInv'
    BY <2>4 DEF OpenIndexes
  <2>5. ASSUME NEW s \in Session, Register(s) PROVE LockInv'
    BY <2>5 DEF Register
  <2>6. ASSUME NEW s \in Session, Close(s) PROVE LockInv'
    BY <2>6 DEF Close, Registered
  <2>7. ASSUME NEW s \in Session, CloseEnds(s) PROVE LockInv'
    BY <2>7 DEF CloseEnds
  <2>8. ASSUME NEW s \in Session, RemoveOwner(s) PROVE LockInv'
    BY <2>8 DEF RemoveOwner
  <2>9. ASSUME NEW s \in Session, Unlock(s) PROVE LockInv'
    BY <2>9 DEF Unlock
  <2>10. ASSUME NEW p \in Proc, ProcessEnds(p) PROVE LockInv'
    BY <2>10 DEF ProcessEnds
  <2>11. CASE UNCHANGED lockVars
    BY <2>11 DEF lockVars
  <2> QED
    BY <2>1, <2>2, <2>3, <2>4, <2>5, <2>6, <2>7, <2>8, <2>9, <2>10, <2>11
    DEF LockNext, DropGuard
<1> QED BY <1>1, <1>2, PTL DEF LockSpec

(* The command line and the app use the lock as its specification says: every
   step of the composition is one of the lock's or leaves it alone. *)
THEOREM AttachKeepsLock == AttachSpec => LockSpec
<1>1. AttachInit => LockInit
  BY DEF AttachInit
<1>2. [AttachNext]_attachVars => [LockNext]_lockVars
  <2> SUFFICES ASSUME AttachNext PROVE [LockNext]_lockVars
    BY DEF attachVars, lockVars
  <2>1. ASSUME NEW s \in Session, LockStep(s) PROVE LockNext
    BY <2>1 DEF LockStep, LockNext, Closes
  <2>2. ASSUME NEW p \in Proc, Ends(p) PROVE LockNext
    BY <2>2 DEF Ends, LockNext
  <2>3. CASE \E s \in Session : ScanCompletes(s)
    BY <2>3 DEF ScanCompletes
  <2>4. CASE \E c \in Cli : Runs(c) \/ RunFails(c) \/ read_owner(c)
                              \/ AnswerTimesOut(c)
    BY <2>4 DEF Runs, RunFails, read_owner, AnswerTimesOut
  <2>5. CASE \E c \in Cli \cup {Silent} : Accept(c)
    BY <2>5 DEF Accept
  <2>6. CASE ServerStep
    BY <2>6 DEF ServerStep, handle_connection, dispatch, Respond
  <2> QED BY <2>1, <2>2, <2>3, <2>4, <2>5, <2>6 DEF AttachNext
<1> QED BY <1>1, <1>2, PTL DEF AttachSpec, LockSpec

(* No two sessions have the vault. *)
THEOREM OneSessionAtATime == AttachSpec => []OneSession
<1>1. LockInv => OneSession
  BY InUseLocks DEF LockInv, OneSession
<1> QED BY <1>1, LockKept, AttachKeepsLock, PTL

(* The claim names the session that has the vault. *)
THEOREM ClaimIsTrue == AttachSpec => []OwnerNamesHolder
<1>1. LockInv => OwnerNamesHolder
  BY DEF LockInv
<1> QED BY <1>1, LockKept, AttachKeepsLock, PTL

-------------------------------------------------------------------------------
(* A command is at the client, with the server, or through with both. *)
JobTyped ==
  /\ job \in [Cli -> {"ready", "sent", "over"}]
  /\ done \in [Cli -> Nat]
  /\ told \in [Cli -> {"nothing", "ok", "failed", "refused", "late"}]
  /\ inbox \subseteq Cli \cup {Silent}
  /\ server \in Cli \cup {Silent, Nobody}
  /\ stage \in {"idle", "read", "run", "ok", "failed", "refused"}
  /\ stage = "idle" <=> server = Nobody
  /\ server = Silent => stage = "read"

Elsewhere(c) == c \notin inbox /\ server # c

JobInv ==
  /\ JobTyped
  /\ server \notin inbox
  /\ \A c \in Cli :
       /\ job[c] = "ready" => done[c] = 0 /\ told[c] = "nothing" /\ Elsewhere(c)
       /\ job[c] = "sent" => told[c] = "nothing"
       /\ c \in inbox => done[c] = 0
       /\ server = c /\ stage \in {"read", "run", "refused"} => done[c] = 0
       /\ server = c /\ stage = "ok" => done[c] = 1
       /\ done[c] <= 1
       /\ told[c] = "ok" => done[c] = 1 /\ Elsewhere(c)
       /\ told[c] = "refused" => done[c] = 0 /\ Elsewhere(c)

LEMMA JobKept == AttachSpec => []JobInv
<1> USE LockAssumption, AttachAssumption
<1>0. Nobody \notin Cli /\ Silent \notin Cli /\ Nobody # Silent
  BY DEF Cli
<1>1. AttachInit => JobInv
  BY <1>0 DEF AttachInit, JobInv, JobTyped, Elsewhere
<1>2. JobInv /\ [AttachNext]_attachVars => JobInv'
  <2> SUFFICES ASSUME JobInv, [AttachNext]_attachVars PROVE JobInv'
    OBVIOUS
  <2> USE <1>0 DEF JobInv, JobTyped, Elsewhere
  <2>1. ASSUME NEW s \in Session, LockStep(s) \/ ScanCompletes(s) PROVE JobInv'
    BY <2>1 DEF LockStep, ScanCompletes, jobVars, serverVars
  <2>2. ASSUME NEW c \in Cli, Runs(c) PROVE JobInv'
    BY <2>2 DEF Runs, Told, serverVars
  <2>3. ASSUME NEW c \in Cli, RunFails(c) PROVE JobInv'
    BY <2>3 DEF RunFails, Told, serverVars
  <2>4. ASSUME NEW c \in Cli, read_owner(c) PROVE JobInv'
    BY <2>4 DEF read_owner, Told
  <2>5. ASSUME NEW c \in Cli, AnswerTimesOut(c) PROVE JobInv'
    BY <2>5 DEF AnswerTimesOut, serverVars
  <2>6. ASSUME NEW c \in Cli \cup {Silent}, Accept(c) PROVE JobInv'
    BY <2>6 DEF Accept, jobVars
  <2>7. CASE handle_connection
    BY <2>7 DEF handle_connection, jobVars
  <2>8. CASE dispatch
    BY <2>8 DEF dispatch
  <2>9. CASE Respond
    BY <2>9 DEF Respond, Told
  <2>10. ASSUME NEW p \in Proc, Ends(p) PROVE JobInv'
    BY <2>10 DEF Ends, serverVars
  <2>11. CASE UNCHANGED attachVars
    BY <2>11 DEF attachVars, jobVars, serverVars
  <2> QED
    BY <2>1, <2>2, <2>3, <2>4, <2>5, <2>6, <2>7, <2>8, <2>9, <2>10, <2>11
    DEF AttachNext, ServerStep
<1> QED BY <1>1, <1>2, PTL DEF AttachSpec

(* What is reported as done was done, once. *)
THEOREM ReportedDone == AttachSpec => []OkMeansDone
<1>1. JobInv => OkMeansDone
  BY DEF JobInv, OkMeansDone
<1> QED BY <1>1, JobKept, PTL

(* What was refused was not done. *)
THEOREM RefusedIsNotDone == AttachSpec => []RefusedMeansNotDone
<1>1. JobInv => RefusedMeansNotDone
  BY DEF JobInv, RefusedMeansNotDone
<1> QED BY <1>1, JobKept, PTL

-------------------------------------------------------------------------------
(* The layouts of the desktop shell *)

LayoutInv ==
  /\ layout \in [Layout -> {"idle", "asked", "computes", "ends", "over"}]
  /\ running \in [Vault -> Layout \cup {NoLayout}]
  /\ OneLayout

(* The registry of layouts never loses the one that computes. *)
THEOREM LayoutKept == ShellSpec => []OneLayout
<1> USE ShellAssumption
<1>1. ShellInit => LayoutInv
  BY DEF ShellInit, LayoutInv, OneLayout
<1>2. LayoutInv /\ [ShellNext]_shellVars => LayoutInv'
  <2> SUFFICES ASSUME LayoutInv, [ShellNext]_shellVars PROVE LayoutInv'
    OBVIOUS
  <2> USE DEF LayoutInv, OneLayout
  <2>1. CASE UNCHANGED layoutVars
    BY <2>1 DEF layoutVars
  <2>2. ASSUME NEW g \in Layout, RequireGraph(g) PROVE LayoutInv'
    BY <2>2 DEF RequireGraph
  <2>3. ASSUME NEW g \in Layout, begin(g) PROVE LayoutInv'
    BY <2>3 DEF begin
  <2>4. ASSUME NEW g \in Layout, LayoutEnds(g) PROVE LayoutInv'
    BY <2>4 DEF LayoutEnds
  <2>5. ASSUME NEW g \in Layout, finish(g) PROVE LayoutInv'
    BY <2>5 DEF finish
  <2>6. ASSUME NEW v \in Vault, Cancels(v) PROVE LayoutInv'
    BY <2>6 DEF Cancels
  <2>7. ASSUME NEW t \in Tab,
               OpenTab(t) \/ prepare_open(t) \/ SpawnShell(t) \/ insert(t)
               \/ SpawnAnswered(t) \/ RemovePanel(t) \/ terminal_close(t) \/ reap(t)
               \/ ShellExits(t) \/ OutputEnds(t) \/ OutputFails(t) \/ wait_exit(t)
        PROVE  UNCHANGED layoutVars
    BY <2>7 DEF OpenTab, prepare_open, SpawnShell, insert, SpawnAnswered, RemovePanel,
                terminal_close, reap, ShellExits, OutputEnds, OutputFails, exit_hook,
                wait_exit
  <2>8. CASE terminal_reap_all
    BY <2>1, <2>8 DEF terminal_reap_all
  <2>9. ASSUME NEW v \in Vault,
               Disable(v) \/ graph_layout_cancel(v) \/ close_vault(v) \/ CloseReturns(v)
        PROVE  LayoutInv'
    BY <2>1, <2>6, <2>9 DEF Disable, graph_layout_cancel, close_vault, CloseReturns
  <2>10. CASE UNCHANGED shellVars
    BY <2>1, <2>10 DEF shellVars
  <2> QED
    BY <2>1, <2>2, <2>3, <2>4, <2>5, <2>7, <2>8, <2>9, <2>10 DEF ShellNext
<1>3. LayoutInv => OneLayout
  BY DEF LayoutInv
<1> QED BY <1>1, <1>2, <1>3, PTL DEF ShellSpec

===============================================================================
