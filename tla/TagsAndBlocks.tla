---------------------------- MODULE TagsAndBlocks ----------------------------
(* Renaming a tag and renaming a block id: the rewrites queued for the notes
   the index names, the flush that applies them, and the saves, changes by
   other programs, crashes and undoing that come in between.

   A tag is the sequence of its segments.  A note is its tags, each written by
   itself (inline, or as an entry of a list), the tags that share one string of
   the frontmatter, the ids of its blocks, and the blocks it refers to. *)
EXTENDS PendingRewrites

CONSTANTS
  Note,
  InitText,    \* [Note -> a text]
  TagMoves,    \* <<old, new>> a user renames
  BlockMoves,  \* <<note, old, new>>
  Hasty,       \* whether users rename before the index has caught up
  LateUndo,    \* whether they undo what has been written or indexed since
  RowLimit,    \* rows per note above which a rename flushes it
  MaxRenames, MaxWrites, MaxTicks, MaxFalls  \* bounds: renames; saves and changes
                                             \* by others; ticks of the timer; crashes

Tag == Seq(STRING)
BlockId == STRING

(* A text. *)
Content == [tags : SUBSET Tag, joined : SUBSET SUBSET Tag,
            ids : SUBSET BlockId, refs : SUBSET (Note \X BlockId)]

ASSUME TextAssumption == InitText \in [Note -> Content]
ASSUME MoveAssumption ==
  /\ TagMoves \subseteq Tag \X Tag
  /\ \A m \in TagMoves : m[1] # m[2] /\ << >> \notin {m[1], m[2]}
  /\ BlockMoves \subseteq Note \X BlockId \X BlockId
  /\ \A m \in BlockMoves : m[2] # m[3]
ASSUME UserAssumption == Hasty \in BOOLEAN /\ LateUndo \in BOOLEAN
ASSUME LimitAssumption == {RowLimit, MaxRenames, MaxWrites, MaxTicks, MaxFalls} \subseteq Nat

VARIABLES
  text,     \* the notes on disk
  tables,   \* tags, blocks and block_refs, by note
  queue,    \* pending_rewrites
  modified,  \* notes the watcher has a Modified event for
  todo,     \* notes the flush under way has not come to
  flushed,  \* the note it has written and not yet dropped the rows of
  lastOp,
  meant,    \* what the notes should show, by what users did (a history variable)
  before,   \* the same before the last rename
  intact,   \* nothing was written or indexed since
  used      \* writes, ticks and crashes so far

tagVars == <<text, tables, queue, modified, todo, flushed, lastOp,
             meant, before, intact, used>>

-------------------------------------------------------------------------------
(* Texts and their rewriting *)

(* The tag, or one under it: tag_path = ?1, or it begins with ?1 and a slash. *)
InTag(tag, t) == IsPrefix(tag, t)

Retagged(t, old, new) ==
  IF InTag(old, t) THEN new \o SubSeq(t, Len(old) + 1, Len(t)) ELSE t

(* A string of several tags is compared as one entry, and so is left alone. *)
rewrite_tag(note, old, new) ==
  [note EXCEPT !.tags = {Retagged(t, old, new) : t \in @}]

Renamed(id, old, new) == IF id = old THEN new ELSE id

rewrite_block_ref(note, old, new) ==
  [note EXCEPT !.ids = {Renamed(i, old, new) : i \in @},
               !.refs = {<<r[1], Renamed(r[2], old, new)>> : r \in @}]

rewrite(note, row) ==
  IF row.kind = "tag" THEN rewrite_tag(note, row.old, row.new)
  ELSE rewrite_block_ref(note, row.old, row.new)

RowsOf(f) == {r \in queue : r.file = f}

Rewritten(note, rows) ==
  MapThenFoldSet(LAMBDA r, n : rewrite(n, r), note, LAMBDA r : r, LastRow, rows)

(* What every reader of the note is given. *)
Shown(f) == Rewritten(text[f], RowsOf(f))

(* Strings are split here. *)
extract_tags(note) == note.tags \cup UNION note.joined

(* The rows of tags, of blocks and, from the links with a block, of block_refs. *)
Extracted(note) == [tags |-> extract_tags(note), ids |-> note.ids, refs |-> note.refs]

TagInit ==
  /\ text = InitText
  /\ tables = [f \in Note |-> Extracted(InitText[f])]
  /\ queue = {} /\ modified = {} /\ todo = {} /\ flushed = {} /\ lastOp = 0
  /\ meant = tables /\ before = tables /\ intact = FALSE
  /\ used = [writes |-> 0, ticks |-> 0, falls |-> 0]

-------------------------------------------------------------------------------
(* Renames *)

MutexFree == todo = {} /\ flushed = {}

Settled == \A f \in Note : tables[f] = Extracted(Shown(f))

(* enqueue_coalesced for each of the notes, under one op.  An op stands for the
   second it was made in as well. *)
Enqueued(files, kind, old, new, op) ==
  LET Same(r) == r.file \in files /\ r.kind = kind /\ r.old = old
      Id(f) == IF \E r \in queue : Same(r) /\ r.file = f
                 THEN (CHOOSE r \in queue : Same(r) /\ r.file = f).id ELSE op
  IN {r \in queue : ~ Same(r)}
       \cup {[file |-> f, kind |-> kind, old |-> old, new |-> new,
              at |-> op, id |-> Id(f)] : f \in files}

(* enforce_fifty_per_file_fuse flushes them before the rename returns. *)
Fused(files, rows) == {f \in files : Cardinality({r \in rows : r.file = f}) > RowLimit}

Renames(files, kind, old, new) ==
  /\ MutexFree /\ (Hasty \/ Settled) /\ lastOp < MaxRenames
  /\ lastOp' = lastOp + 1
  /\ queue' = Enqueued(files, kind, old, new, lastOp')
  /\ todo' = Fused(files, queue')
  /\ before' = meant /\ intact' = TRUE
  /\ UNCHANGED <<text, tables, modified, flushed, used>>

(* Fault: only notes that have the tag itself. *)
FilesOfExactTag(tag) == {f \in Note : tag \in tables[f].tags}

FilesOfTag(tag) == {f \in Note : \E t \in tables[f].tags : InTag(tag, t)}

(* A tag that no note has is left at that: no op, no rows. *)
rename_tag(old, new) ==
  /\ FilesOfTag(old) # {}
  /\ Renames(FilesOfTag(old), "tag", old, new)
  /\ meant' = [f \in Note |->
                 [meant[f] EXCEPT !.tags = {Retagged(t, old, new) : t \in @}]]

(* Fault: the notes that refer to the block, without the one that has it. *)
FilesOfReferrers(f, id) == {g \in Note : <<f, id>> \in tables[g].refs}

FilesOfBlock(f, id) == {f} \cup {g \in Note : <<f, id>> \in tables[g].refs}

rename_block_id(f, old, new) ==
  /\ old \in tables[f].ids
  /\ Renames(FilesOfBlock(f, old), "block_ref", old, new)
  /\ meant' = [g \in Note |->
       [meant[g] EXCEPT
          !.ids = IF g = f THEN {Renamed(i, old, new) : i \in @} ELSE @,
          !.refs = {IF r = <<f, old>> THEN <<f, new>> ELSE r : r \in @}]]

(* Undo, offered for the last rename: its rows go, without the mutex. *)
undo_rename ==
  /\ \E r \in queue : r.at = lastOp
  /\ LateUndo \/ intact
  /\ queue' = {r \in queue : r.at # lastOp}
  /\ meant' = before /\ intact' = FALSE
  /\ UNCHANGED <<text, tables, modified, todo, flushed, lastOp, before, used>>

-------------------------------------------------------------------------------
(* The flush *)

flush_all_for_vault ==
  /\ MutexFree /\ queue # {} /\ used.ticks < MaxTicks
  /\ todo' = {r.file : r \in queue}
  /\ used' = [used EXCEPT !.ticks = @ + 1]
  /\ UNCHANGED <<text, tables, queue, modified, flushed, lastOp, meant, before, intact>>

(* Fault: the announcement in flush_own_writes keeps the watcher's event from the
   tables, and not only from the window. *)
SwallowedByGate(f) == modified

(* A note that is written with other bytes comes to the watcher. *)
Announced(f) == IF text' = text THEN modified ELSE modified \cup {f}

(* flush_pending_for_target writes the note, if that changes it ... *)
FlushWrites(f) ==
  /\ f \in todo /\ flushed = {}
  /\ text' = [text EXCEPT ![f] = Shown(f)]
  /\ modified' = Announced(f)
  /\ todo' = todo \ {f} /\ flushed' = {f} /\ intact' = FALSE
  /\ UNCHANGED <<tables, queue, lastOp, meant, before, used>>

(* ... and deletes its rows. *)
FlushDeletes ==
  /\ flushed # {}
  /\ queue' = {r \in queue : r.file \notin flushed}
  /\ flushed' = {}
  /\ UNCHANGED <<text, tables, modified, todo, lastOp, meant, before, intact, used>>

-------------------------------------------------------------------------------
(* Editor, other programs, watcher, crash *)

(* The editor saves the note as it was shown, with the rewrites in it and the
   rows still queued; another program changes what is of no concern here. *)
Writes(f, what) ==
  /\ used.writes < MaxWrites
  /\ used' = [used EXCEPT !.writes = @ + 1]
  /\ text' = [text EXCEPT ![f] = what]
  /\ modified' = modified \cup {f} /\ intact' = FALSE
  /\ UNCHANGED <<tables, queue, todo, flushed, lastOp, meant, before>>

write_file_text(f) == Writes(f, Shown(f))
ChangedByOthers(f) == Writes(f, text[f])

(* apply_watch_event_to_db, which a flush's own write goes through as well. *)
refresh_watched_markdown(f) ==
  /\ f \in modified
  /\ modified' = modified \ {f} /\ intact' = FALSE
  /\ tables' = [tables EXCEPT ![f] = Extracted(Shown(f))]
  /\ UNCHANGED <<text, queue, todo, flushed, lastOp, meant, before, used>>

(* A crash, and the scan of the next opening. *)
CrashAndScan ==
  /\ used.falls < MaxFalls
  /\ used' = [used EXCEPT !.falls = @ + 1]
  /\ tables' = [f \in Note |-> Extracted(Shown(f))]
  /\ modified' = {} /\ todo' = {} /\ flushed' = {} /\ intact' = FALSE
  /\ UNCHANGED <<text, queue, lastOp, meant, before>>

TagNext ==
  \/ \E m \in TagMoves : rename_tag(m[1], m[2])
  \/ \E m \in BlockMoves : rename_block_id(m[1], m[2], m[3])
  \/ undo_rename
  \/ flush_all_for_vault \/ FlushDeletes
  \/ \E f \in Note :
       \/ FlushWrites(f) \/ write_file_text(f) \/ ChangedByOthers(f)
       \/ refresh_watched_markdown(f)
  \/ CrashAndScan

TagSpec == TagInit /\ [][TagNext]_tagVars

-------------------------------------------------------------------------------
(* Who renames has waited for the index, and who undoes does so before anything
   is written or indexed. *)
Patient == ~ Hasty /\ ~ LateUndo

(* A tag is given a name that no tag has, is under or is over, and is not one of
   several in a string. *)
NewTags ==
  /\ \A m \in TagMoves : ~ InTag(m[2], m[1])
  /\ \A j, k \in TagMoves : /\ InTag(k[1], j[2]) => k[1] = j[2]
                            /\ j # k => ~ InTag(k[2], j[2])
  /\ \A f \in Note : \A m \in TagMoves :
       /\ \A t \in extract_tags(InitText[f]) : ~ InTag(m[2], t)
       /\ \A t \in UNION InitText[f].joined : ~ InTag(m[1], t)

(* The blocks a note f has or refers to, each with the note it is in. *)
BlocksIn(note, f) == {<<f, i>> : i \in note.ids} \cup note.refs

(* A block is given an id that no block has, and no two notes share an id. *)
NewIds ==
  /\ \A j, k \in BlockMoves : j[3] = k[3] => j = k
  /\ \A f \in Note : \A b \in BlocksIn(InitText[f], f) : \A m \in BlockMoves : b[2] # m[3]
  /\ \A f, g \in Note : \A b \in BlocksIn(InitText[f], f), c \in BlocksIn(InitText[g], g) :
       b[2] = c[2] => b = c

-------------------------------------------------------------------------------
(* A note shows the tags, the blocks and the references that the renames and
   their undoing left it with, wherever they are by now: queued, written by the
   flush or with a save, or written twice because of a crash. *)
ShownAsMeant == \A f \in Note : Extracted(Shown(f)) = meant[f]

(* Once the queue is written out and the watcher has been heard, the tables
   rename_tag and rename_block_id look into name what is in the notes. *)
TablesFollow ==
  queue = {} /\ modified = {} => \A f \in Note : tables[f] = Extracted(text[f])

(* An undoing that drops rows, and so is reported as done, is done: every note
   shows again what it showed before the rename. *)
UndoneIsUndone ==
  [][undo_rename => \A f \in Note : Extracted(Shown(f))' = before[f]]_tagVars

===============================================================================
