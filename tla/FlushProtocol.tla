---------------------------- MODULE FlushProtocol ----------------------------
(***************************************************************************)
(* The pending-rewrites queue while it is being written out.               *)
(*                                                                         *)
(* A rename enqueues one row per referring note; a flush later reads the   *)
(* rows of a note, applies them to the note's text, replaces the file and  *)
(* deletes the rows.  Everything that enqueues or flushes holds the mutex  *)
(* flush_in_progress across the whole operation.  Four parties do not hold *)
(* it: undo_rename, the editor (read_file_text, write_file_text), the      *)
(* watcher and any program outside Cubical.  Each await of the code that   *)
(* another party's step can come between is a step of its own here.  The   *)
(* notes that are renamed, and their paths, are RenameQueue's concern:     *)
(* here a rename is the rows it leaves.                                    *)
(*                                                                         *)
(* Text is abstracted to the set of link tokens a note contains, a content *)
(* hash to the text it is the hash of.                                     *)
(***************************************************************************)
EXTENDS PendingRewrites

CONSTANTS
  File,        \* notes; a number is the path's place in ORDER BY target_file
  Token,       \* link tokens a note may contain
  Task,        \* tokio tasks that take flush_in_progress
  Rewrite,     \* <<old, new>> token pairs renames may enqueue
  InitText,    \* text of each note at the start
  Outside,     \* parties without the mutex that this instance lets run
  Fuse,        \* rows per note above which a rename flushes it (50 in the code)
  MaxOps,      \* bound: rename ops minted
  MaxSecond,   \* bound: ticks of the created_at clock
  MaxEdits,    \* bound: edits by the user and by other programs
  MaxCrashes,  \* bound: crashes
  Free,        \* nobody holds flush_in_progress
  Absent       \* no file, or no files row

Text == SUBSET Token

ASSUME FileAssumption == File \subseteq Nat \ {0}
ASSUME RewriteAssumption == Rewrite \subseteq Token \X Token
ASSUME TextAssumption ==
  InitText \in [File -> Text \union {Absent}] /\ \A text \in Text : text # Absent
ASSUME TaskAssumption == Free \notin Task
ASSUME OutsideAssumption ==
  Outside \subseteq {"undo", "editor", "watcher", "external", "crash"}
ASSUME BoundAssumption ==
  Fuse \in Nat /\ MaxOps \in Nat /\ MaxSecond \in Nat /\ MaxEdits \in Nat
  /\ MaxCrashes \in Nat

VARIABLES
  disk,     \* text of each note on disk
  hash,     \* files.content_hash, Absent when there is no row
  rows,     \* the pending_rewrites table
  nextOp,   \* config['pending_rewrites.next_rename_op_id'] + 1
  second,   \* unix_now_secs
  lock,     \* holder of flush_in_progress
  pc, todo, cur, snap, out, gated,   \* locals of each task
  gate,     \* flush_own_writes: (path, hash) pairs
  editor,   \* one document session per note
  events,   \* WatchEvents not yet handled; none where the watcher is down
  watch,    \* the event the watcher dispatcher is handling
  edits,    \* edits made so far
  crashes   \* crashes so far

tableVars == <<rows, nextOp, second>>
taskVars  == <<lock, pc, todo, cur, snap, out, gated>>
watchVars == <<events, watch>>
userVars  == <<editor, edits, crashes>>
vars == <<disk, hash, tableVars, taskVars, gate, watchVars, userVars>>

PC == {"idle", "enqueue", "next", "read", "write", "delete", "drop", "hash"}

WatchEvent == [kind : {"created", "modified", "removed"}, file : File]
NotWatching == [pc |-> "idle", kind |-> "modified", file |-> 0, text |-> Absent]

Row == [id : Nat, target : File, old : Token, new : Token, at : Nat, op : Nat]

-----------------------------------------------------------------------------
pending_for_target(f) == {r \in rows : r.target = f}

(* What a reader of note f is shown: the text with its rows applied. *)
View(f) ==
  IF disk[f] = Absent THEN Absent
  ELSE apply_pending(disk[f], pending_for_target(f))

(* enqueue_coalesced for every note of T, under one op. *)
Named(T, old) == {r \in rows : r.target \in T /\ r.old = old}

(* Fault: inserts without looking for the row to coalesce with.             *)
FreshAlways(T, old, new) ==
  {[id |-> nextOp, target |-> f, old |-> old, new |-> new,
    at |-> second, op |-> nextOp] : f \in T}

Fresh(T, old, new) ==
  {[id |-> nextOp, target |-> f, old |-> old, new |-> new,
    at |-> second, op |-> nextOp] :
       f \in {g \in T : \A r \in rows : ~ (r.target = g /\ r.old = old)}}

Renewed(T, old, new) ==
  {[r EXCEPT !.new = new, !.at = second, !.op = nextOp] : r \in Named(T, old)}

enqueue_coalesced(T, old, new) ==
  (rows \ Named(T, old)) \union
    (IF new = old THEN {} ELSE Renewed(T, old, new) \union Fresh(T, old, new))

-----------------------------------------------------------------------------
Init ==
  /\ disk = InitText
  /\ hash = InitText
  /\ rows = {} /\ nextOp = 1 /\ second = 0
  /\ lock = Free
  /\ pc = [t \in Task |-> "idle"]
  /\ todo = [t \in Task |-> {}]
  /\ cur = [t \in Task |-> 0]
  /\ snap = [t \in Task |-> {}]
  /\ out = [t \in Task |-> {}]
  /\ gated = [t \in Task |-> TRUE]
  /\ gate = {}
  /\ editor = [f \in File |-> [pc |-> "closed", buf |-> {}, dirty |-> FALSE]]
  /\ events = <<>>
  /\ watch = NotWatching
  /\ edits = 0 /\ crashes = 0

(* What the platform tells the watcher of f.                               *)
Notify(f, kind) ==
  events' = IF "watcher" \in Outside
              THEN Append(events, [kind |-> kind, file |-> f]) ELSE events

(* atomic_write renames a temporary file over the note.  Platforms differ:  *)
(* translate_event makes a Created of a rename whose source is excluded,    *)
(* and a Modified of a change of content.                                  *)
NotifyReplaced(f) == \E kind \in {"created", "modified"} : Notify(f, kind)

-----------------------------------------------------------------------------
(* Tasks that hold flush_in_progress *)

(* Fault: enqueues and flushes without waiting for the mutex.               *)
AcquireAnyway(t, next, F, useGate) ==
  /\ pc[t] = "idle"
  /\ lock' = t
  /\ pc' = [pc EXCEPT ![t] = next]
  /\ todo' = [todo EXCEPT ![t] = F]
  /\ gated' = [gated EXCEPT ![t] = useGate]
  /\ UNCHANGED <<cur, snap, out>>
  /\ UNCHANGED <<disk, hash, tableVars, gate, watchVars, userVars>>

(* Take the mutex with the notes in F still to be flushed. *)
Acquire(t, next, F, useGate) ==
  /\ pc[t] = "idle" /\ lock = Free
  /\ lock' = t
  /\ pc' = [pc EXCEPT ![t] = next]
  /\ todo' = [todo EXCEPT ![t] = F]
  /\ gated' = [gated EXCEPT ![t] = useGate]
  /\ UNCHANGED <<cur, snap, out>>
  /\ UNCHANGED <<disk, hash, tableVars, gate, watchVars, userVars>>

(* Timer tick, "save all", and the flush at close. *)
flush_all_for_vault(t) ==
  Acquire(t, "next", {r.target : r \in rows}, TRUE)

flush_pending_rewrites_for_target(t) ==
  \E f \in File : Acquire(t, "next", {f}, TRUE)

flush_target_for_link_mention(t) ==
  \E f \in File : Acquire(t, "next", {f}, FALSE)

(* A rename, an adoption, a repair or a replay takes the mutex before it    *)
(* reads the referrers.                                                    *)
BeginRename(t) == nextOp <= MaxOps /\ Acquire(t, "enqueue", {}, TRUE)

(* Its index transaction commits: one row per referrer, then the fuse.     *)
(* When the moved note cannot be read back the fuse is skipped.            *)
CommitRename(t) ==
  /\ pc[t] = "enqueue"
  /\ \E rw \in Rewrite, T \in (SUBSET File) \ {{}} :
       /\ rows' = enqueue_coalesced(T, rw[1], rw[2])
       /\ \E fused \in
              {{f \in T : Cardinality({r \in rows' : r.target = f}) > Fuse}, {}} :
            todo' = [todo EXCEPT ![t] = fused]
  /\ nextOp' = nextOp + 1
  /\ pc' = [pc EXCEPT ![t] = "next"]
  /\ UNCHANGED <<second, lock, cur, snap, out, gated>>
  /\ UNCHANGED <<disk, hash, gate, watchVars, userVars>>

(* Drop the mutex; an error leaves the targets after it unflushed. *)
Release(t) ==
  /\ lock' = Free
  /\ pc' = [pc EXCEPT ![t] = "idle"]
  /\ todo' = [todo EXCEPT ![t] = {}]
  /\ cur' = [cur EXCEPT ![t] = 0]
  /\ snap' = [snap EXCEPT ![t] = {}]
  /\ out' = [out EXCEPT ![t] = {}]
  /\ UNCHANGED gated

(* Fault: a failed rename hands an op id back, minted or not.               *)
RenameFailsReturningOp(t) ==
  /\ pc[t] = "enqueue"
  /\ nextOp' = nextOp - 1
  /\ Release(t)
  /\ UNCHANGED <<rows, second>>
  /\ UNCHANGED <<disk, hash, gate, watchVars, userVars>>

(* A transaction fails, for instance inside the scan's open one: the one    *)
(* that mints the op, or the one that commits the rows.                    *)
RenameFails(t) ==
  /\ pc[t] = "enqueue"
  /\ nextOp' \in {nextOp, nextOp + 1}
  /\ Release(t)
  /\ UNCHANGED <<rows, second>>
  /\ UNCHANGED <<disk, hash, gate, watchVars, userVars>>

-----------------------------------------------------------------------------
(* flush_pending_for_target, for the first note still to be flushed *)

First(f, F) == \A g \in F : f <= g

ReadRows(t) ==
  /\ pc[t] = "next"
  /\ \E f \in todo[t] :
       /\ First(f, todo[t]) /\ pending_for_target(f) # {}
       /\ cur' = [cur EXCEPT ![t] = f]
       /\ snap' = [snap EXCEPT ![t] = pending_for_target(f)]
  /\ pc' = [pc EXCEPT ![t] = "read"]
  /\ UNCHANGED <<lock, todo, out, gated>>
  /\ UNCHANGED <<disk, hash, tableVars, gate, watchVars, userVars>>

NoRows(t) ==
  /\ pc[t] = "next"
  /\ \E f \in todo[t] :
       /\ First(f, todo[t]) /\ pending_for_target(f) = {}
       /\ todo' = [todo EXCEPT ![t] = @ \ {f}]
  /\ UNCHANGED <<lock, pc, cur, snap, out, gated>>
  /\ UNCHANGED <<disk, hash, tableVars, gate, watchVars, userVars>>

materialized(t) ==
  IF disk[cur[t]] = Absent THEN Absent ELSE apply_pending(disk[cur[t]], snap[t])

(* The note is gone, or its text no longer holds an old token: the rows    *)
(* are dropped and nothing is written.                                     *)
NothingToWrite(t) ==
  /\ pc[t] = "read"
  /\ materialized(t) = disk[cur[t]]
  /\ pc' = [pc EXCEPT ![t] = "drop"]
  /\ UNCHANGED <<lock, todo, cur, snap, out, gated>>
  /\ UNCHANGED <<disk, hash, tableVars, gate, watchVars, userVars>>

(* Fault: deletes the rows before the file holds them.                      *)
StageWriteDeleting(t) ==
  /\ pc[t] = "read"
  /\ materialized(t) # disk[cur[t]]
  /\ out' = [out EXCEPT ![t] = materialized(t)]
  /\ rows' = rows \ pending_for_target(cur[t])
  /\ pc' = [pc EXCEPT ![t] = "write"]
  /\ UNCHANGED <<lock, todo, cur, snap, gated, nextOp, second, gate>>
  /\ UNCHANGED <<disk, hash, watchVars, userVars>>

(* The gate entry is in place before the file is replaced. *)
StageWrite(t) ==
  /\ pc[t] = "read"
  /\ materialized(t) # disk[cur[t]]
  /\ out' = [out EXCEPT ![t] = materialized(t)]
  /\ gate' = IF gated[t] THEN gate \union {<<cur[t], materialized(t)>>} ELSE gate
  /\ pc' = [pc EXCEPT ![t] = "write"]
  /\ UNCHANGED <<lock, todo, cur, snap, gated>>
  /\ UNCHANGED <<disk, hash, tableVars, watchVars, userVars>>

(* read_to_string fails on bytes that are there: `?` leaves the loop.       *)
ReadFails(t) ==
  /\ pc[t] = "read" /\ disk[cur[t]] # Absent
  /\ Release(t)
  /\ UNCHANGED <<disk, hash, tableVars, gate, watchVars, userVars>>

WriteFile(t) ==
  /\ pc[t] = "write"
  /\ disk' = [disk EXCEPT ![cur[t]] = out[t]]
  /\ NotifyReplaced(cur[t])
  /\ pc' = [pc EXCEPT ![t] = "delete"]
  /\ UNCHANGED <<lock, todo, cur, snap, out, gated>>
  /\ UNCHANGED <<hash, tableVars, gate, watch, userVars>>

WriteFails(t) ==
  /\ pc[t] = "write"
  /\ gate' = IF gated[t] THEN gate \ {<<cur[t], out[t]>>} ELSE gate
  /\ Release(t)
  /\ UNCHANGED <<disk, hash, tableVars, watchVars, userVars>>

(* delete_pending_for_target, after a write ... *)
DeleteRows(t) ==
  /\ pc[t] = "delete"
  /\ rows' = rows \ pending_for_target(cur[t])
  /\ pc' = [pc EXCEPT ![t] = "hash"]
  /\ UNCHANGED <<nextOp, second, lock, todo, cur, snap, out, gated>>
  /\ UNCHANGED <<disk, hash, gate, watchVars, userVars>>

(* On to the next note. *)
Proceed(t) ==
  /\ pc' = [pc EXCEPT ![t] = "next"]
  /\ todo' = [todo EXCEPT ![t] = @ \ {cur[t]}]
  /\ cur' = [cur EXCEPT ![t] = 0]
  /\ snap' = [snap EXCEPT ![t] = {}]
  /\ out' = [out EXCEPT ![t] = {}]
  /\ UNCHANGED <<lock, gated>>

(* Fault: rows that change nothing are kept.                                *)
DropRowsKeeping(t) ==
  /\ pc[t] = "drop"
  /\ Proceed(t)
  /\ UNCHANGED <<disk, hash, tableVars, gate, watchVars, userVars>>

(* ... and when there was nothing to write. *)
DropRows(t) ==
  /\ pc[t] = "drop"
  /\ rows' = rows \ pending_for_target(cur[t])
  /\ Proceed(t)
  /\ UNCHANGED <<nextOp, second>>
  /\ UNCHANGED <<disk, hash, gate, watchVars, userVars>>

(* UPDATE files SET content_hash: no effect when the row is gone. *)
UpdateHash(t) ==
  /\ pc[t] = "hash"
  /\ hash' = [hash EXCEPT ![cur[t]] = IF @ = Absent THEN @ ELSE out[t]]
  /\ Proceed(t)
  /\ UNCHANGED <<disk, tableVars, gate, watchVars, userVars>>

Finish(t) ==
  /\ pc[t] = "next" /\ todo[t] = {}
  /\ Release(t)
  /\ UNCHANGED <<disk, hash, tableVars, gate, watchVars, userVars>>

-----------------------------------------------------------------------------
(* Parties that do not hold flush_in_progress *)

undo_rename ==
  /\ "undo" \in Outside
  /\ \E r \in rows :
       rows' = {s \in rows : s.op # r.op}
  /\ UNCHANGED <<nextOp, second>>
  /\ UNCHANGED <<disk, hash, taskVars, gate, watchVars, userVars>>

SetEditor(f, e) ==
  /\ editor' = [editor EXCEPT ![f] = e]
  /\ UNCHANGED <<tableVars, taskVars, gate, watch, crashes>>

(* read_file_text reads the file, then asks for the rows. *)
ReadRaw(f) ==
  /\ "editor" \in Outside
  /\ editor[f].pc = "closed" /\ disk[f] # Absent
  /\ SetEditor(f, [editor[f] EXCEPT !.pc = "raw", !.buf = disk[f]])
  /\ UNCHANGED <<disk, hash, events, edits>>

materialize_on_read(f) ==
  /\ editor[f].pc = "raw"
  /\ SetEditor(f, [editor[f] EXCEPT !.pc = "open",
                     !.buf = apply_pending(@, pending_for_target(f))])
  /\ UNCHANGED <<disk, hash, events, edits>>

(* The user types or removes a link. *)
Type(f) ==
  /\ editor[f].pc = "open" /\ edits < MaxEdits
  /\ \E k \in Token :
       SetEditor(f, [editor[f] EXCEPT !.dirty = TRUE,
         !.buf = IF k \in @ THEN @ \ {k} ELSE @ \union {k}])
  /\ edits' = edits + 1
  /\ UNCHANGED <<disk, hash, events>>

(* write_file_text: the whole buffer is written, then the row updated. *)
BeginSave(f) ==
  /\ editor[f].pc = "open" /\ editor[f].dirty
  /\ hash[f] # Absent \/ disk[f] # Absent
  /\ SetEditor(f, [editor[f] EXCEPT !.pc = "saving", !.dirty = FALSE])
  /\ UNCHANGED <<disk, hash, events, edits>>

SaveFile(f) ==
  /\ editor[f].pc = "saving"
  /\ disk' = [disk EXCEPT ![f] = editor[f].buf]
  /\ NotifyReplaced(f)
  /\ SetEditor(f, [editor[f] EXCEPT !.pc = "saved"])
  /\ UNCHANGED <<hash, edits>>

(* The session keeps the buffer dirty and tries again. *)
SaveFails(f) ==
  /\ editor[f].pc = "saving"
  /\ SetEditor(f, [editor[f] EXCEPT !.pc = "open", !.dirty = TRUE])
  /\ UNCHANGED <<disk, hash, events, edits>>

SaveHash(f) ==
  /\ editor[f].pc = "saved"
  /\ hash' = [hash EXCEPT ![f] = IF @ = Absent THEN @ ELSE editor[f].buf]
  /\ SetEditor(f, [editor[f] EXCEPT !.pc = "open"])
  /\ UNCHANGED <<disk, events, edits>>

CloseNote(f) ==
  /\ editor[f].pc = "open" /\ ~ editor[f].dirty
  /\ SetEditor(f, [pc |-> "closed", buf |-> {}, dirty |-> FALSE])
  /\ UNCHANGED <<disk, hash, events, edits>>

(* Another program replaces, creates or removes the file. *)
ExternalEdit(f) ==
  /\ "external" \in Outside /\ edits < MaxEdits
  /\ \E x \in Text \union {Absent} :
       /\ x # disk[f]
       /\ disk' = [disk EXCEPT ![f] = x]
       /\ \/ x = Absent /\ Notify(f, "removed")
          \/ x # Absent /\ NotifyReplaced(f)
  /\ edits' = edits + 1
  /\ UNCHANGED <<hash, tableVars, taskVars, gate, watch, editor, crashes>>

(* apply_watch_event_to_db reads the file an event names ...               *)
WatchRead ==
  /\ watch.pc = "idle" /\ events # <<>>
  /\ LET e == Head(events) IN
       watch' = [pc |-> "row", kind |-> e.kind, file |-> e.file,
                 text |-> IF e.kind = "removed" THEN Absent ELSE disk[e.file]]
  /\ events' = Tail(events)
  /\ UNCHANGED <<disk, hash, tableVars, taskVars, gate, userVars>>

(* ... upserts or deletes its row; a file that is gone leaves it alone ... *)
WatchRow ==
  /\ watch.pc = "row"
  /\ hash' = IF watch.kind = "removed" \/ watch.text # Absent
               THEN [hash EXCEPT ![watch.file] = watch.text] ELSE hash
  /\ watch' = [watch EXCEPT !.pc = "announce"]
  /\ UNCHANGED <<disk, tableVars, taskVars, gate, events, userVars>>

(* ... and consume_own_write_hash spends an entry of the gate, or else the  *)
(* change is announced to the UI.                                          *)
Suppressed == watch.kind = "modified" /\ <<watch.file, watch.text>> \in gate

WatchAnnounce ==
  /\ watch.pc = "announce"
  /\ gate' = IF Suppressed THEN gate \ {<<watch.file, watch.text>>} ELSE gate
  /\ watch' = NotWatching
  /\ UNCHANGED <<disk, hash, tableVars, taskVars, events, userVars>>

Tick ==
  /\ second < MaxSecond
  /\ second' = second + 1
  /\ UNCHANGED <<rows, nextOp>>
  /\ UNCHANGED <<disk, hash, taskVars, gate, watchVars, userVars>>

(* Fault: the vault is opened again without a scan.                         *)
CrashWithoutScan ==
  /\ "crash" \in Outside /\ crashes < MaxCrashes
  /\ crashes' = crashes + 1
  /\ lock' = Free
  /\ pc' = [t \in Task |-> "idle"]
  /\ todo' = [t \in Task |-> {}]
  /\ cur' = [t \in Task |-> 0]
  /\ snap' = [t \in Task |-> {}]
  /\ out' = [t \in Task |-> {}]
  /\ gate' = {}
  /\ editor' = [f \in File |-> [pc |-> "closed", buf |-> {}, dirty |-> FALSE]]
  /\ events' = <<>>
  /\ watch' = NotWatching
  /\ UNCHANGED <<disk, hash, tableVars, gated, edits>>

(* The process dies and the vault is opened again: the index and the files *)
(* survive, everything in memory is gone, and the scan reads every file.   *)
Crash ==
  /\ "crash" \in Outside /\ crashes < MaxCrashes
  /\ crashes' = crashes + 1
  /\ lock' = Free
  /\ pc' = [t \in Task |-> "idle"]
  /\ todo' = [t \in Task |-> {}]
  /\ cur' = [t \in Task |-> 0]
  /\ snap' = [t \in Task |-> {}]
  /\ out' = [t \in Task |-> {}]
  /\ gate' = {}
  /\ editor' = [f \in File |-> [pc |-> "closed", buf |-> {}, dirty |-> FALSE]]
  /\ events' = <<>>
  /\ watch' = NotWatching
  /\ hash' = disk
  /\ UNCHANGED <<disk, tableVars, gated, edits>>

-----------------------------------------------------------------------------
Flush(t) ==
  \/ ReadRows(t) \/ NoRows(t) \/ NothingToWrite(t) \/ StageWrite(t) \/ WriteFile(t)
  \/ DeleteRows(t) \/ DropRows(t) \/ UpdateHash(t) \/ Finish(t)

Fail(t) == RenameFails(t) \/ ReadFails(t) \/ WriteFails(t)

TaskStep(t) ==
  \/ flush_all_for_vault(t) \/ flush_pending_rewrites_for_target(t)
  \/ flush_target_for_link_mention(t)
  \/ BeginRename(t) \/ CommitRename(t)
  \/ Flush(t) \/ Fail(t)

EditorStep(f) ==
  \/ ReadRaw(f) \/ materialize_on_read(f) \/ Type(f)
  \/ BeginSave(f) \/ SaveFile(f) \/ SaveFails(f) \/ SaveHash(f) \/ CloseNote(f)

Watcher == WatchRead \/ WatchRow \/ WatchAnnounce

Next ==
  \/ \E t \in Task : TaskStep(t)
  \/ \E f \in File : EditorStep(f) \/ ExternalEdit(f)
  \/ undo_rename \/ Watcher \/ Tick \/ Crash

Spec == Init /\ [][Next]_vars

-----------------------------------------------------------------------------
(* Types.  QueueTypeOK is what the proofs use: it says nothing of texts.    *)
QueueTypeOK ==
  /\ rows \subseteq Row
  /\ nextOp \in Nat \ {0} /\ second \in Nat
  /\ lock \in Task \union {Free}
  /\ pc \in [Task -> PC]
  /\ todo \in [Task -> SUBSET File]
  /\ cur \in [Task -> File \union {0}]
  /\ snap \in [Task -> SUBSET Row]

TextTypeOK ==
  /\ disk \in [File -> Text \union {Absent}]
  /\ hash \in [File -> Text \union {Absent}]
  /\ out \in [Task -> Text] /\ gated \in [Task -> BOOLEAN]
  /\ gate \subseteq File \X Text
  /\ editor \in [File -> [pc : {"closed", "raw", "open", "saving", "saved"},
                         buf : Text, dirty : BOOLEAN]]
  /\ events \in Seq(WatchEvent)
  /\ watch \in [pc : {"idle", "row", "announce"},
                kind : {"created", "modified", "removed"},
                file : File \union {0}, text : Text \union {Absent}]
  /\ edits \in 0 .. MaxEdits /\ crashes \in 0 .. MaxCrashes

TypeOK == QueueTypeOK /\ TextTypeOK

-----------------------------------------------------------------------------
(* A flush deletes every row of a note once it has written the note, so a   *)
(* row that joined the table after the flush read it would be lost          *)
(* unapplied: none may, from the read to the delete.                        *)
NothingDeletedUnapplied ==
  \A t \in Task :
    pc[t] \in {"read", "write", "delete", "drop"} =>
      pending_for_target(cur[t]) \subseteq snap[t]

(* Coalescing: the queue holds the net edit of each token of a note, one    *)
(* row, and no row that changes nothing.                                    *)
OneRowPerToken ==
  \A r, s \in rows :
    /\ r.old # r.new
    /\ r.target = s.target /\ r.old = s.old => r = s

(* A flush, the fuse, a failure or a crash never changes what a reader of a *)
(* note is shown.  Only a rename does, once for its op and from the old     *)
(* token to the new: a row that is lost would show the old one again.       *)
Promise == INSTANCE LinkView WITH view <- [f \in File |-> View(f)], op <- nextOp
ReadersSeeOnlyRenames == Promise!Spec

(* The mutex is always released again, and what a rename queued reaches the *)
(* files: no wait is for ever.                                              *)
QueueDrains == rows # {} ~> rows = {}

(* What a flush writes is the note as its reader is shown it at that        *)
(* moment: nothing saved since the flush read the note is overwritten.      *)
FlushWritesTheView ==
  [][\A t \in Task : WriteFile(t) => out[t] = View(cur[t])]_vars

(* With nothing in progress and every event handled the index has the hash  *)
(* of the bytes on disk, also after a crash in the middle of a flush.       *)
Quiet ==
  /\ "watcher" \in Outside
  /\ lock = Free /\ events = <<>> /\ watch.pc = "idle"
  /\ \A f \in File : editor[f].pc \notin {"saving", "saved"}
HashTracksDisk == Quiet => hash = disk

-----------------------------------------------------------------------------
(* tokio's Mutex is FIFO, so a task that waits for it gets it; the timer    *)
(* asks again after every interval; failed reads and writes are transient.  *)
Fairness ==
  \A t \in Task :
    /\ SF_vars(flush_all_for_vault(t))
    /\ WF_vars(ReadRows(t)) /\ WF_vars(NoRows(t))
    /\ SF_vars(NothingToWrite(t)) /\ SF_vars(StageWrite(t)) /\ SF_vars(WriteFile(t))
    /\ WF_vars(DeleteRows(t)) /\ WF_vars(DropRows(t))
    /\ WF_vars(UpdateHash(t)) /\ WF_vars(Finish(t))
    /\ WF_vars(CommitRename(t) \/ RenameFails(t))

FairSpec == Spec /\ Fairness

=============================================================================
