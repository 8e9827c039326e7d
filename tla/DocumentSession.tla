--------------------------- MODULE DocumentSession ---------------------------
(***************************************************************************)
(* The session of one note in the editor: when its buffer is written, and  *)
(* what is done about changes made to the file by others.  The user        *)
(* interface is one thread, but every write and read is a promise whose    *)
(* answer comes later, after anything else has happened.                   *)
(*                                                                         *)
(* A text is the set of edits in it: keystrokes of the user, changes by    *)
(* other programs, rewrites of links queued by renames.  A hash is the     *)
(* text it is the hash of.  seenHash is left out: all it decides is        *)
(* whether the engine logs a warning.                                      *)
(***************************************************************************)
EXTENDS Integers, FiniteSets, Sequences

CONSTANTS
  Foreign, Rewrite,   \* edits that are not keystrokes
  MaxTyped,      \* bound: keystrokes
  MaxOthers,     \* bound: changes by other programs and renames
  MaxVisits,     \* bound: times the note is left
  MaxReads,      \* bound: reads under way, but for those of tabs that are shown
  MaxFlushes,    \* bound: flushes that write, of the buffer or of queued rows
  MaxQueued,     \* bound: writes waiting for the one under way
  MaxEvents,     \* bound: events on their way to the window
  Null

(* The n-th keystroke enters the edit n, or takes back the one before it. *)
Typed == 1 .. MaxTyped
Text == SUBSET (Typed \union Foreign \union Rewrite)

ASSUME NullAssumption == \A text \in Text : text # Null
ASSUME EditAssumption == Typed \intersect (Foreign \union Rewrite) = {}
ASSUME BoundAssumption ==
  /\ MaxTyped \in Nat /\ MaxOthers \in Nat /\ MaxVisits \in Nat
  /\ MaxReads \in Nat /\ MaxQueued \in Nat /\ MaxEvents \in Nat
  /\ MaxFlushes \in Nat

VARIABLES
  disk,        \* the file
  rows,        \* rewrites queued for the note
  past,        \* history: what was typed of every text the file has had
  shown,       \* the note's tab is the active one
  cached,      \* contents[id]: the text last loaded, Null when it was dropped
  buf,         \* what its editor says its content is, Null when there is none
  left,        \* history: the content its editor was left with for another tab,
               \* as long as it has it, or Null
  dirty, lastWrittenHash, conflictHash, generation,
  autosave,    \* the debounce timer is running
  write,       \* the write under way: pendingWrite
  queued,      \* writes chained behind it
  leaving,     \* answers still to come before the tab's flush is over, or 0
  failed,      \* history: a write failed, with none to follow it, or a load
  reads,       \* reads under way
  changed,     \* the watcher has not yet looked at the last change
  events,      \* vault:file-changed on their way to the window
  nudged,      \* vault:pending-rewrites-changed is on its way
  typed, others, flushes   \* keystrokes, changes by others, flushes so far

fileVars == <<disk, rows, past>>
editorVars == <<shown, cached, buf, left>>
hashVars == <<lastWrittenHash, conflictHash, generation>>
docVars == <<dirty, hashVars, autosave>>
writeVars == <<write, queued, leaving, failed>>
eventVars == <<changed, events, nudged>>
countVars == <<typed, others, flushes>>
sessionVars == <<fileVars, editorVars, docVars, writeVars, reads, eventVars, countVars>>

NoWrite == [gen |-> 0, text |-> {}, state |-> "none"]
Write == [gen : 0 .. MaxVisits, text : Text, state : {"none", "sent", "landed"}]
Read == [kind : {"load", "take", "refresh", "external"}, gen : 0 .. MaxVisits,
         hash : {Null} \union Text, text : {Null} \union Text]

(* What was typed, of the editor's content. *)
Keystrokes == buf \intersect Typed

Open == shown /\ buf # Null

(* An editor without a text to show is unmounted, and still answers, with   *)
(* the empty text.                                                         *)
Gone == buf # Null /\ cached = Null
TabShown == Open /\ ~ Gone
Toggled(t, e) == IF e \in t THEN t \ {e} ELSE t \union {e}

(* read_file_text: the file with the queued rewrites materialised. *)
View == disk \union rows
Recorded == past' = past \union {disk' \intersect Typed}

(* An editor whose content changes is not any more as it was left.          *)
LeftIfSame == left' = IF buf' = buf THEN left ELSE Null

(* The note was opened, or has just been created: adopt(knownHash).        *)
SessionInit ==
  /\ disk = {} /\ rows = {} /\ past = {{}}
  /\ shown = TRUE /\ cached = {} /\ buf = {} /\ left = Null
  /\ dirty = FALSE /\ lastWrittenHash \in {Null, disk} /\ conflictHash = Null
  /\ generation = 0 /\ autosave = FALSE
  /\ write = NoWrite /\ queued = 0 /\ leaving = 0 /\ failed = FALSE
  /\ reads = {}
  /\ changed = FALSE /\ events = <<>> /\ nudged = FALSE
  /\ typed = 0 /\ others = 0 /\ flushes = 0

-----------------------------------------------------------------------------
(* Typing and flushing.                                                    *)

(* handleContentChange, for a content that is now t: markDirty, and         *)
(* scheduleWrite, which a conflict stops.                                  *)
Scheduled(t) == autosave \/ (buf \notin {Null, t} /\ ~ Gone /\ conflictHash = Null)

Type ==
  /\ TabShown /\ typed < MaxTyped
  /\ buf' \in {buf \union {typed + 1}, buf \ {typed}} \ {buf}
  /\ autosave' = Scheduled(buf')
  /\ dirty' = TRUE
  /\ failed' = FALSE
  /\ LeftIfSame
  /\ typed' = typed + 1
  /\ UNCHANGED <<fileVars, shown, cached, hashVars, write, queued, leaving, reads,
                 eventVars, others, flushes>>

performWrite == [gen |-> generation, text |-> buf, state |-> "sent"]

(* Neither dirty nor writing: there is nothing to flush.                   *)
Idle == ~ dirty /\ write.state = "none"

(* Bound: the flushes that write are counted. *)
Counts == flushes < MaxFlushes /\ flushes' = flushes + 1

(* Fault: a flush that finds a write under way relies on it. *)
flushOnce ==
  /\ Counts
  /\ autosave' = FALSE
  /\ failed' = FALSE
  /\ write' = IF write.state = "none" THEN performWrite ELSE write
  /\ UNCHANGED queued

(* flush, past its early returns: the write starts at once, or when those  *)
(* before it have been answered.                                           *)
flush ==
  /\ Counts
  /\ autosave' = FALSE
  /\ failed' = FALSE
  /\ IF write.state = "none"
       THEN write' = performWrite /\ UNCHANGED queued
       ELSE queued < MaxQueued /\ queued' = queued + 1 /\ UNCHANGED write

(* The timer runs out, or the editor loses the focus. *)
Flush ==
  /\ Open /\ conflictHash = Null /\ (Gone => autosave)
  /\ IF Idle THEN autosave /\ autosave' = FALSE /\ UNCHANGED <<write, queued, failed, flushes>>
             ELSE flush
  /\ UNCHANGED <<fileVars, editorVars, dirty, hashVars, leaving, reads, eventVars, typed, others>>

-----------------------------------------------------------------------------
(* Coming and going.                                                       *)

reset ==
  /\ generation < MaxVisits
  /\ generation' = generation + 1
  /\ autosave' = FALSE
  /\ dirty' = FALSE
  /\ lastWrittenHash' = Null /\ conflictHash' = Null
  /\ failed' = FALSE

(* The note is not among the live tabs any more, or its tab is closed. *)
Evicted == buf' = Null /\ cached' = Null /\ left' = Null

(* Another tab is shown, whatever became of the writes that were awaited.   *)
(* The editor is kept if settings.liveTabLimit allows for another one, and *)
(* stays mounted unless something other than a loaded note is shown.       *)
Hide ==
  /\ reset
  /\ shown' = FALSE
  /\ \/ Evicted
     \/ /\ buf' = buf \/ (~ Gone /\ buf' = Null)
        /\ left' = buf'
        /\ UNCHANGED cached

(* activateWithFlush, handleSelectFile: the flush is awaited before reset. *)
(* It is over at once when it returns early.                               *)
LeaveTab ==
  /\ Open /\ leaving = 0
  /\ IF conflictHash # Null \/ Idle
       THEN Hide /\ UNCHANGED <<write, queued, leaving, flushes>>
       ELSE /\ flush
            /\ leaving' = IF write.state = "none" THEN 1 ELSE queued + 2
            /\ UNCHANGED <<editorVars, dirty, hashVars>>
  /\ UNCHANGED <<fileVars, reads, eventVars, typed, others>>

(* releaseVault: another vault replaces this one, nothing is awaited, and  *)
(* what arrives for this one is ignored.                                   *)
CloseVault ==
  /\ Open
  /\ reset
  /\ shown' = FALSE /\ Evicted
  /\ leaving' = 0
  /\ reads' = {r \in reads : r.kind # "load"}
  /\ events' = <<>> /\ nudged' = FALSE
  /\ UNCHANGED <<fileVars, write, queued, changed, countVars>>

(* Other tabs are shown, or this one is closed. *)
Evict ==
  /\ ~ shown /\ {buf, cached} # {Null}
  /\ Evicted
  /\ UNCHANGED <<fileVars, shown, docVars, writeVars, reads, eventVars, countVars>>

(* The tab is shown again, by this program or the next one to be started:  *)
(* with its editor if there is one, or one for the cached text.            *)
(* loadActiveTabContent asks for the file.                                 *)
Show ==
  /\ ~ shown
  /\ shown' = TRUE
  /\ buf' = IF buf = Null THEN cached ELSE buf
  /\ reads' = reads \union {[kind |-> "load", gen |-> generation, hash |-> Null, text |-> Null]}
  /\ UNCHANGED <<fileVars, cached, left, docVars, writeVars, eventVars, countVars>>

(* writeBeforeUnload: a write that is not chained and that nobody awaits.  *)
(* The last of the writes to be done wins, if any is.                      *)
Quit ==
  /\ Open
  /\ \/ UNCHANGED disk
     \/ write.state = "sent" /\ disk' = write.text
     \/ dirty /\ conflictHash = Null /\ disk' = buf
  /\ Recorded
  /\ reset
  /\ shown' = FALSE /\ Evicted
  /\ write' = NoWrite /\ queued' = 0 /\ leaving' = 0
  /\ reads' = {} /\ events' = <<>> /\ changed' = FALSE /\ nudged' = FALSE
  /\ UNCHANGED <<rows, countVars>>

-----------------------------------------------------------------------------
(* The answers to writes.                                                  *)

(* write_file_text replaces the file, and the watcher will notice. *)
WriteLands ==
  /\ write.state = "sent"
  /\ disk' = write.text
  /\ write' = [write EXCEPT !.state = "landed"]
  /\ changed' = TRUE
  /\ UNCHANGED <<rows, editorVars, docVars, queued, leaving, failed, reads, events,
                 nudged, countVars>>
  /\ Recorded

(* Fault: the chain is counted down when nothing waits in it.              *)
NextInChainEager ==
  /\ write' = IF queued > 0 /\ Open THEN performWrite ELSE NoWrite
  /\ queued' = IF Open THEN queued - 1 ELSE 0

(* The next write of the chain starts as soon as the one before is         *)
(* answered, before those who awaited it go on.  Once the note is not shown *)
(* those that are left concern another one.                                *)
NextInChain ==
  /\ write' = IF queued > 0 /\ Open THEN performWrite ELSE NoWrite
  /\ queued' = IF queued > 0 /\ Open THEN queued - 1 ELSE 0

(* When the flush that LeaveTab awaits is over, the tab is left.           *)
LastAwaited == leaving = 1
Counted == leaving' = IF leaving > 0 THEN leaving - 1 ELSE 0

(* Fault: what was typed since the write started is taken as written.      *)
StillDirtyNever(text) == FALSE
StillDirty(text) == dirty /\ buf # text

(* performWrite goes on, if it is still the session it wrote for. *)
WriteAnswered ==
  /\ write.state = "landed"
  /\ NextInChain /\ Counted
  /\ IF LastAwaited THEN Hide
     ELSE IF write.gen # generation THEN UNCHANGED <<editorVars, docVars, failed>>
     ELSE /\ lastWrittenHash' = write.text
          /\ dirty' = StillDirty(write.text)
          /\ UNCHANGED <<editorVars, conflictHash, generation, autosave, failed>>
  /\ UNCHANGED <<fileVars, reads, eventVars, countVars>>

(* The error is shown to the user, and nothing is tried again. *)
WriteFails ==
  /\ write.state = "sent"
  /\ NextInChain /\ Counted
  /\ IF LastAwaited THEN Hide
     ELSE /\ failed' = IF write.gen = generation THEN ~ autosave /\ queued = 0 ELSE failed
          /\ UNCHANGED <<editorVars, docVars>>
  /\ UNCHANGED <<fileVars, reads, eventVars, countVars>>

-----------------------------------------------------------------------------
(* Changes by others.                                                      *)

Asked(kind, hash) ==
  /\ Cardinality({r \in reads : r.kind # "load"}) < MaxReads
  /\ reads' = reads \union {[kind |-> kind, gen |-> generation, hash |-> hash, text |-> Null]}

(* applyExternalChange of the next event. *)
applyExternalChange ==
  /\ events # <<>>
  /\ events' = Tail(events)
  /\ LET hash == Head(events) IN
       \/ /\ ~ shown \/ hash = lastWrittenHash
          /\ UNCHANGED <<conflictHash, autosave, reads>>
       \/ /\ shown /\ hash # lastWrittenHash
          /\ dirty \/ conflictHash # Null
          /\ conflictHash' = hash
          /\ autosave' = FALSE
          /\ UNCHANGED reads
       \/ /\ shown /\ hash # lastWrittenHash
          /\ ~ dirty /\ conflictHash = Null
          /\ Asked("external", hash)
          /\ UNCHANGED <<conflictHash, autosave>>
  /\ UNCHANGED <<fileVars, editorVars, dirty, lastWrittenHash, generation, writeVars,
                 changed, nudged, countVars>>

(* refreshFromDisk, when the queue of rewrites has changed. *)
refreshFromDisk ==
  /\ nudged
  /\ nudged' = FALSE
  /\ IF Open /\ ~ dirty /\ conflictHash = Null THEN Asked("refresh", Null)
                                               ELSE UNCHANGED reads
  /\ UNCHANGED <<fileVars, editorVars, docVars, writeVars, changed, events, countVars>>

(* The two buttons of the banner. *)
takeDisk ==
  /\ TabShown /\ conflictHash # Null
  /\ Asked("take", Null)
  /\ UNCHANGED <<fileVars, editorVars, docVars, writeVars, eventVars, countVars>>

keepMine ==
  /\ TabShown /\ conflictHash # Null
  /\ conflictHash' = Null
  /\ autosave' = TRUE
  /\ failed' = FALSE
  /\ UNCHANGED <<fileVars, editorVars, dirty, lastWrittenHash, generation, write, queued,
                 leaving, reads, eventVars, countVars>>

(* The engine reads the file. *)
ReadServed ==
  /\ \E r \in reads : /\ r.text = Null
                      /\ reads' = (reads \ {r}) \union {[r EXCEPT !.text = View]}
  /\ UNCHANGED <<fileVars, editorVars, docVars, writeVars, eventVars, countVars>>

ReadFails ==
  /\ \E r \in reads : r.text = Null /\ r.kind # "load" /\ reads' = reads \ {r}
  /\ UNCHANGED <<fileVars, editorVars, docVars, writeVars, eventVars, countVars>>

(* The user is told, and contents[id] is dropped: an editor that was mounted *)
(* is not any more, and what was typed in it is gone.                      *)
LoadFails ==
  /\ \E r \in reads : r.text = Null /\ r.kind = "load" /\ reads' = reads \ {r}
  /\ cached' = Null
  /\ buf' = IF buf = Null /\ cached = Null THEN Null ELSE {}
  /\ LeftIfSame
  /\ failed' = (failed \/ Open)
  /\ UNCHANGED <<fileVars, shown, docVars, write, queued, leaving, eventVars, countVars>>

(* An answer that is let through.  Bound: one that mounts an editor again   *)
(* comes when the writes of the one that is gone have been answered.       *)
Answered(r) ==
  /\ r \in reads /\ r.text # Null
  /\ Gone => write.state = "none"
  /\ reads' = reads \ {r}

(* replaceContent: the editor reports the change like any other, and dirty *)
(* is cleared afterwards.                                                  *)
Replaced(text) ==
  /\ buf' = text /\ cached' = text
  /\ autosave' = Scheduled(text)
  /\ dirty' = FALSE

LoadAnswered(r) ==
  /\ Answered(r) /\ r.kind = "load"
  /\ cached' = r.text
  /\ IF buf = Null \/ Gone
       THEN /\ buf' = IF Gone \/ shown THEN r.text ELSE Null
            /\ UNCHANGED <<dirty, autosave, failed>>
     ELSE IF cached = r.text THEN UNCHANGED <<buf, dirty, autosave, failed>>
     ELSE /\ buf' = r.text
          /\ dirty' = (dirty \/ (shown /\ buf # r.text))
          /\ autosave' = (shown /\ Scheduled(r.text))
          /\ failed' = (failed /\ ~ autosave')
  /\ LeftIfSame
  /\ UNCHANGED <<fileVars, shown, hashVars, write, queued, leaving, eventVars, countVars>>

TakeAnswered(r) ==
  /\ Answered(r) /\ r.kind = "take"
  /\ IF r.gen = generation
       THEN Replaced(r.text) /\ lastWrittenHash' = Null /\ conflictHash' = Null
       ELSE UNCHANGED <<buf, cached, autosave, dirty, lastWrittenHash, conflictHash>>
  /\ LeftIfSame
  /\ UNCHANGED <<fileVars, shown, generation, writeVars, eventVars, countVars>>

(* Fault: the second look at dirty is left out.                            *)
TypedMeanwhileIgnored == FALSE
TypedMeanwhile == dirty

RefreshAnswered(r) ==
  /\ Answered(r) /\ r.kind = "refresh"
  /\ IF r.gen = generation /\ ~ TypedMeanwhile /\ conflictHash = Null /\ r.text # buf
       THEN Replaced(r.text)
       ELSE UNCHANGED <<buf, cached, autosave, dirty>>
  /\ LeftIfSame
  /\ UNCHANGED <<fileVars, shown, hashVars, writeVars, eventVars, countVars>>

(* The silent reload, or the banner if the user has typed meanwhile.       *)
ExternalAnswered(r) ==
  /\ Answered(r) /\ r.kind = "external"
  /\ \/ /\ r.gen # generation \/ conflictHash # Null
        /\ UNCHANGED <<buf, cached, autosave, dirty, conflictHash>>
     \/ /\ r.gen = generation /\ conflictHash = Null /\ TypedMeanwhile
        /\ conflictHash' = r.hash
        /\ autosave' = FALSE
        /\ UNCHANGED <<buf, cached, dirty>>
     \/ /\ r.gen = generation /\ conflictHash = Null /\ ~ TypedMeanwhile
        /\ Replaced(r.text)
        /\ UNCHANGED conflictHash
  /\ LeftIfSame
  /\ UNCHANGED <<fileVars, shown, lastWrittenHash, generation, writeVars,
                 eventVars, countVars>>

-----------------------------------------------------------------------------
(* The rest of the world.                                                  *)

ExternalEdit ==
  /\ others < MaxOthers
  /\ \E e \in Foreign : disk' = Toggled(disk, e)
  /\ changed' = TRUE
  /\ others' = others + 1
  /\ UNCHANGED <<rows, editorVars, docVars, writeVars, reads, events, nudged, typed, flushes>>
  /\ Recorded

(* The watcher reads the file and tells the window. *)
WatcherReports ==
  /\ changed /\ Len(events) < MaxEvents
  /\ changed' = FALSE
  /\ events' = Append(events, disk)
  /\ UNCHANGED <<fileVars, editorVars, docVars, writeVars, reads, nudged, countVars>>

(* A note that this one refers to is renamed. *)
RenameElsewhere ==
  /\ others < MaxOthers
  /\ \E e \in Rewrite : rows' = rows \union {e}
  /\ others' = others + 1
  /\ nudged' = TRUE
  /\ UNCHANGED <<disk, past, editorVars, docVars, writeVars, reads, changed, events,
                 typed, flushes>>

(* A flush announces the text it writes as its own: the watcher then has    *)
(* nothing to tell, of a change before it either.                          *)
FlushRows ==
  /\ rows # {}
  /\ rows' = {}
  /\ Counts
  /\ disk' = View
  /\ changed' = (changed /\ rows \subseteq disk)
  /\ nudged' = TRUE
  /\ UNCHANGED <<past, editorVars, docVars, writeVars, reads, events, typed, others>>

SessionNext ==
  \/ Type \/ Flush \/ LeaveTab \/ CloseVault \/ Evict \/ Show \/ Quit
  \/ WriteLands \/ WriteAnswered \/ WriteFails
  \/ applyExternalChange \/ refreshFromDisk \/ takeDisk \/ keepMine
  \/ ReadServed \/ ReadFails \/ LoadFails
  \/ \E r \in reads :
       LoadAnswered(r) \/ TakeAnswered(r) \/ RefreshAnswered(r) \/ ExternalAnswered(r)
  \/ ExternalEdit \/ WatcherReports \/ RenameElsewhere \/ FlushRows

SessionSpec == SessionInit /\ [][SessionNext]_sessionVars
-----------------------------------------------------------------------------
(* Type correctness: the state keeps to its sets, and the chain of writes   *)
(* is counted exactly.                                                     *)
TypeOK ==
  /\ disk \in Text /\ rows \subseteq Rewrite /\ past \subseteq SUBSET Typed
  /\ shown \in BOOLEAN
  /\ {cached, buf, left, lastWrittenHash, conflictHash} \subseteq {Null} \union Text
  /\ dirty \in BOOLEAN /\ autosave \in BOOLEAN /\ failed \in BOOLEAN
  /\ generation \in 0 .. MaxVisits
  /\ write \in Write /\ queued \in 0 .. MaxQueued /\ leaving \in 0 .. MaxQueued + 1
  /\ reads \subseteq Read
  /\ changed \in BOOLEAN /\ nudged \in BOOLEAN 
  /\ events \in Seq(Text) /\ Len(events) <= MaxEvents
  /\ typed \in 0 .. MaxTyped /\ others \in 0 .. MaxOthers /\ flushes \in 0 .. MaxFlushes

(* A note that the session takes for clean shows a text that is, or was, in *)
(* the file: nothing that was typed is ever counted as written that was    *)
(* not (performWrite's comparison, and what the reloads clear).  But for   *)
(* the text an editor was left with behind other tabs, while it has it:    *)
(* reset has cleared dirty, although its write may have failed or it was   *)
(* typed meanwhile.                                                        *)
CleanIsWritten == Open /\ ~ dirty => Keystrokes \in past \/ buf = left

(* What was typed is on its way to the file: a timer runs, a write waits, or *)
(* the one under way carries it.  Only a conflict, or a failure the user has *)
(* been told of, stops that (flush, scheduleWrite, keepMine).              *)
NoEditForgotten ==
  Open /\ dirty /\ conflictHash = Null /\ ~ failed =>
    \/ autosave \/ queued > 0
    \/ write.state # "none" /\ write.gen = generation /\ write.text = buf

(* The editor's text changes although what was typed is in no file yet, and *)
(* neither by typing nor by leaving the note.                              *)
Overwritten ==
  /\ Open /\ Keystrokes \notin past
  /\ buf' # buf /\ typed' = typed /\ generation' = generation

(* The answer of a load, which shows a tab, or of the copy the user chose.  *)
LoadedOrTaken == \E r \in reads \ reads' : r.kind \in {"take", "load"}

(* Neither a silent reload nor a refresh replaces text that is not yet in   *)
(* the file, whatever was typed while the file was read, and whoever has    *)
(* written meanwhile (documentSession.ts looks at dirty a second time), in *)
(* a session that has not lost sight of the text by leaving its tab.       *)
ReloadsKeepUnsaved ==
  [][ Overwritten /\ (dirty \/ buf # left) => LoadedOrTaken ]_sessionVars

(* The same of every text: "A buffer with unsaved edits is never overwritten *)
(* by a refresh" (docs/principles/view-freshness.md).                      *)
UnsavedOutlivesRefresh == [][ Overwritten => LoadedOrTaken ]_sessionVars

(* No answer at all replaces it, except the one the user asked for by      *)
(* choosing the copy on disk (docs/principles/view-freshness.md).          *)
UnsavedTextStays ==
  [][ Overwritten => \E r \in reads \ reads' : r.kind = "take" ]_sessionVars

(* What is written has been on screen: no write starts from an editor that  *)
(* is gone (performWrite, which asks the editor of the tab for its text).  *)
WritesWhatIsShown ==
  [][ write' # write /\ write'.state = "sent" => ~ Gone ]_sessionVars

(* No write starts while a conflict is unresolved ("An unresolved conflict  *)
(* suppresses every write path", docs/implementation/frontend.md).         *)
ConflictStopsWrites ==
  [][ write' # write /\ write'.state = "sent" => conflictHash = Null ]_sessionVars
=============================================================================
