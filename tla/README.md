# Cubical: a verification of its engine

Cubical keeps a vault of Markdown notes. A note's path is its only identity, so
renaming a note has to rewrite every link that names it. Cubical defers that
writing: a rename moves the file, records one *pending rewrite* per referring
note in its SQLite index, shows every reader the text with the rewrites applied,
and lets a timer write the files later. Renames made by other programs, with
Cubical open or closed, are adopted into the same machinery. Around it are an
editor whose buffer shares the files, a search index and a table cache that must
not lag behind them, background tasks that live and end with an open vault, and
a lock and a socket by which the app and the command line share one vault.

This directory models those parts in TLA+, checks them with TLC, and proves with
TLAPS what does not depend on the size of the instance.

## 1. Inventory

| Part | State | Operations | Hard behaviour |
|---|---|---|---|
| rename engine (`cubical-engine/src/commands/rename.rs`) | `flush_in_progress`, `flush_own_writes`, config op counter | `rename_file`, `rename_folder`, `adopt_external_rename`, `commit_rename`, `flush_*`, `undo_rename`, journal replay | many awaits under one mutex; several effects, none atomic with the next |
| `pending_rewrites` (`cubical-index/src/pending.rs`) | rows by note | enqueue with coalescing, read in `created_at, id` order, delete per note and per op | rows follow a note that is renamed; a delete takes all rows of a note |
| index (`cubical-index`) | `files`, `links`, tags, blocks, folders | upsert, replace, cascading delete | one connection for everyone: a second transaction inside the scan's fails |
| link resolution (`cubical-core/src/vault/links.rs`) | none | extract, resolve by path, name, title | ambiguous titles; the result depends on the other paths |
| rename journal (`vault/rename_journal.rs`) | `renames.jsonl` | append, read, rewrite without | survives the index; pruned by op |
| scan (`vault/scan.rs`) | `last_seen`, batches | walk, sweep, link pass | cancellation, crash between phases |
| watcher (`vault/watcher.rs`, `engine/src/events.rs`) | debounced events | created, modified, removed, renamed | a rename arrives as one event or two, in either order |
| pairing (`engine/src/rename_pairing.rs`) | tombstones | pair by inode or hash, live and after a scan | identical notes; expiry |
| reading and writing (`engine/src/commands/vault.rs`, `vault/atomic.rs`) | none | read materialised, write whole file | not under the mutex |
| document session (`ui/src/core/documentSession.ts`) | buffer, hashes, conflict, write in flight | autosave, external change, take or keep | answers of reads and writes out of order |
| unlinked mentions, block references (`engine/src/commands/mentions.rs`, `blocks.rs`, `ui/src/backlinks`) | the list on show, token of the last fetch | fetch, link a mention, mint a block id | a byte position counted in one text is used in another |
| vault lifecycle (`engine/src/compose.rs`, `state.rs`, `events.rs`) | registry of open vaults, cancellation tokens, health flags, `scan_status`, `search_state` | open, cancel, rebuild, close with a flush | each task ends by a token of its own; a rebuild may replace one |
| vault lock (`vault_lock.rs`) | OS lock, owner file | acquire, release | claims left by processes that died |
| command line and socket (`cubical-cli`, `cubical-ipc`) | connections, deadlines | open or attach, serve, dispatch | late and lost answers, clients that say nothing |
| search (`cubical-search/src/index.rs`, `search_handle.rs`) | uncommitted writer, reader, batch counter | upsert, delete, retain, commit, rebuild | what searches see lags behind the writer; a crash loses it |
| tables (`cubical-table/src/cache.rs`) | entries, byte counter, clock | load, store, evict | files replaced under a load; two loads of one key |
| query language (`cubical-query`) | none | plan to SQL, execute over a table | two executors with one meaning |
| terminals, graph layouts (`cubical-app/src/terminal`, `engine/src/commands/graph.rs`) | sessions by tab, running layout by vault | open, close, reap; start, cancel, finish | a shell or a caller that goes at any time |
| index recovery (`vault/index_recovery.rs`) | index file | quarantine and rebuild | what is not derivable is lost |
| graph view (`cubical-graph/src/build.rs`, `ui/src/graph/graphState.ts`) | the snapshot on show, its positions, generation of the last fetch | start, refresh, stop | three queries over a changing index; answers that overtake each other |
| integrity (`engine/src/commands/integrity`, `ui/src/integrity`) | the list on show | list, repair | a list that is old when it is used; queue, index and notes change in turn |
| parser, UI, plugins, sync | | pure functions, rendering | |

How they interact: commands and the watcher reach the index through one
connection; `flush_in_progress` is held across a whole rename, adoption, flush
or replay; the editor, `undo_rename`, the watcher's own reading of files and
other programs never take it. A flush announces its own writes to the watcher
through `flush_own_writes`. The scan and the watcher feed the search index with
the notes they index. The engine tells the UI by events. The app and each
command line are processes that meet in the lock, the owner file and the socket.

What makes it correct, in a sentence each: a reader sees a rename at once and
nothing else ever; no rewrite is lost; the queue is the net edit, one row per
token; once everything has been handled the index says what the files say, and
so does the search index; a link leads to the note it led to, wherever that note
went, and never to another; nothing typed is lost; the queue drains; one process
has the vault, and a command is reported done only if it was; what a vault
started ends with it.

`PROJECT.json` lists the hazards one by one, with their lines.

## 2. Modules

### Renames

`PendingRewrites` - applying rows to a text (`apply_pending`): one after another, the
last row (`LastRow`) last. A text is the set of link tokens in it.

`FlushProtocol` - the queue while it is written out. The state is the table
(`rows`, `nextOp`), the files and their hashes, the mutex, and each task's
locals: `pc`, the notes still to be flushed (`todo`), the rows it has read
(`snap`) and the bytes it will write (`out`). `flush_pending_for_target` is one
action per await: `ReadRows`, `NothingToWrite` or `StageWrite` (the read of the
file and the gate entry), `WriteFile`, `DeleteRows`, `UpdateHash`, and the error
paths `ReadFails` and `WriteFails`. Around it are what takes the mutex
(`Acquire`: timer and save-all, one note, a link mention, a rename) and what
does not: `undo_rename`, the editor's reads and saves (each two steps), the
watcher's read, row update and gate check, other programs, and a crash followed
by the next open's scan.

`LinkView` - the abstract specification: the view of each note and the op the next
rename gets. A step takes an op and exchanges the rename's old token for its new one,
this way round, in a set of notes; a rename that fails may use an op up; nothing else
happens. Undoing is not part of it, so a row that is lost, by which a note goes back to
the old token, is no step of it, nor is a second change of one op. `FlushProtocol!Promise`
instantiates it with `view <- [f |-> View(f)]`, the text on disk with the note's rows
applied, and `op <- nextOp`.

`RenameQueue` - whole renames. The state is the disk, the index (`db`: files,
links, rows), the copy of the index an open transaction would roll back to
(`saved`), the journal, the operation under the mutex (`job`), the watcher and
its events and tombstones, and the phases of a scan. A note is an identity, a
generation (its inode is the pair: replacing a file makes a new one) and its
link tokens. Actions, in the code's order:

- `rename_file` (checks), `MoveFile`, `commit_rename` (referrers, rows, rekey,
  reconnect, one transaction), `JournalRename`, `Reextract` with the fuse, and
  the failures `MoveFails`, `CommitFails`;
- `rename_folder` (checks), `QueueFolder` and `FolderRefused` (the transaction is
  opened and the rows of all its notes are queued), `MoveFolder`, `MoveFolderFails`
  (the folder is moved while the transaction is open), `CommitFolder`,
  `CommitFolderFails`, `JournalInFolder` and `ReextractInFolder` note by note,
  `FolderEnds` with the fuse. What the watcher says of a folder is not seen per note;
- `flush_all_for_vault`, `flush_pending_for_target` (one step here), `FlushEnds`
  with the prune of the journal;
- `WatchRenamed` .. `RenamedEnds`, `WatchRemoved` (tombstone, delete),
  `WatchCreatedPairs` (`find_rename_source`, `restore_row`),
  `try_adopt_external_rename`, `PairingEnds`, `UpsertPaired` (the file as it was read before
  the lock was waited for), `WatchFile`, `WatchSkips`, `prune_expired`;
- `open_vault`, `ScanFile`, `ScanSkips` (a file that is there and cannot be read or
  upserted: its row keeps its `last_seen` and is swept), `WalkEnds`, `Sweep`, `WriteLinks`,
  `journal_renames_found_by_scan`, `replay_rename_journal`, `ReplayEntry`,
  `ReplayEnds`, and `ScanFails`, where the open transaction of a folder refuses the
  scan its own;
- `MoveExternal`, `Crash`, `close_vault`, `WipeIndex`, `Tick`.

The two state machines meet at the flush: `FlushProtocol` opens it up for fixed
notes, `RenameQueue` closes it and lets the notes move.

`TagsAndBlocks` - `rename_tag` and `rename_block_id`, which queue rows of other kinds
in the same table. A note is its tags (a tag is the sequence of its segments, so that
a rename carries what is under it), the strings of its frontmatter that hold several
tags, the ids of its blocks and the blocks it refers to; the tables of tags, blocks and
block references are what `extract_tags` and its like take from the text with its rows
applied. Actions: the two renames with their fuse, `undo_rename`,
`flush_all_for_vault` with the write and the deletion of each note, `write_file_text` of
what the editor was shown, `ChangedByOthers`, `refresh_watched_markdown` and
`CrashAndScan`. `meant` records what the notes should show by what users did.

### Editor

`DocumentSession` - one note and its editor. The state is the file, the rewrites
queued for it, the session (`buf`, `dirty`, `lastWrittenHash`, `conflictHash`,
`generation`, the autosave timer), the chain of writes (`write` under way,
`queued` behind it, `leaving` for the tab switch that awaits one), the reads
under way, and what is on its way to the window (`changed`, `events`, `nudged`).
JavaScript runs a callback to its end, so an action is a callback: from an event,
a timer or an answer to the next `await`. A write is sent, lands and is answered
in three steps, a read is asked for, served and answered in three. Actions:
`Type`, `Flush` (timer and blur), `LeaveTab`, `CloseVault`, `Evict`, `Show`, `Quit`;
`WriteLands`, `WriteAnswered`, `WriteFails`; `applyExternalChange`,
`refreshFromDisk`, `takeDisk`, `keepMine`; `ReadServed`, `ReadFails`, `LoadFails` and an
answer for each kind of read; `ExternalEdit`, `WatcherReports`, `RenameElsewhere`,
`FlushRows`. `replaceContent` makes the editor report a change like any other, so a
reload schedules the timer, and `LoadAnswered`, which nothing follows, marks the
session dirty. `cached` is `contents[id]`, from which a hidden note's editor is
mounted again. When the tab is left its editor is kept, unmounted with its text cached, or
dropped, as the limit of live tabs (`settings.liveTabLimit`, 8 by default) and what is
shown next decide: every limit is a choice of `Hide` and `Evict`. `left` is history: the
content an editor was left with for another tab, as long as it has it. An editor whose text has been dropped
while its tab is the active one (`LoadFails`) is `Gone`: it still answers, with the empty
text.

`MentionPanel` - commands that edit a note at a byte position they were given. The
note is a sequence of words with their lengths in bytes (a mention, one that is in a
link, a link that a rename changes, the end of a line with or without a block id), so
that a position is a sum and can come to lie on another word. The panel has the
token of its last fetch, the fetches under way with the text each was served from, and
the list on show. `link_mention` is the click (`handleLink`), the flush that comes first
(`flush_target_for_link_mention`), the read with its check of the span (`LinkReads`),
the write (`LinkWrites`) and what the panel does with the answer (`mention_linked`).
Meanwhile a note it links to is renamed, the timer flushes it, an editor or another
program changes it, and `create_block_ref` marks one of its lines.

`LinkIntegrity` - links that lead nowhere, and their repair. The state is what the repair
relates: the tokens in each note, its queued rows, the rows of `links`, the rows of `files`
(`tracked`). `list_dangling_links` is its two reads, `accumulate_groups` and the ranking of
candidates (`classify_candidate`, `rank_candidates`). `repair_dangling_link` is the click
(`reattach`), the reading of referrers under `flush_in_progress`, one transaction that
queues the rewrites and reconnects whatever is dangling by then (`CommitRepair`), and a
flush for each referrer, any of which may fail. Meanwhile the timer flushes, notes come and
go, are saved, and are indexed as they are shown (`refresh_links`). `kept` is history: the
links a repair was to mend, until their note or the notes they may lead to change.

`GraphView` - the graph in its tab. `build_model` numbers files, ghosts and tags of three
reads (`ReadFiles`, `ReadLinks`, `ReadTags`), between which the index changes. The view
fetches, has the snapshot laid out, subscribes, and then fetches again after each change
(`scheduleRefresh`, `refresh`); a place is recorded as the node it belongs to, so
`reconcilePositions` is that every node keeps its own. `behind` is history: a change the
view had no way to hear of.

### An open vault

`VaultSession` - the tasks of one open vault. The state is the registry's entry
(`open`, `search`, `token`), the two status cells (`status` of the scan, `cell` of
the search index), the tokens that were cancelled, one record per scan
dispatcher (the one of `open_vault` and one per `search_rebuild_index`), the
watcher's dispatcher, the flush timer with its supervisor, the health flags and
`flush_in_progress`. Each task holds its own clones of the handles, so `close_vault`
takes the session out of the registry, flushes, cancels the tokens and returns,
while the tasks stop when they come to look. A scan looks its mutex up in the
registry when it reaches the replay (`own`): on a session that has been taken out it
gets a fresh one, which nobody shares. A batch and a tick run in
tasks of their own (`run_isolated_flush_tick`), so that one that dies ends like any other
(`BatchEnds`, `TickEnds`) and the loop goes on. A loop that ends although nobody cancelled
it (`StreamEnds`, `LoopEnds`) is not started again: its health flag is cleared
(`supervise_flush_timer`), and that is all.

`SearchIndex` - what searches find. `writer` is the index as the next commit would
leave it, `reader` what a search sees. The walk of a scan reads a note in one step
and indexes it in a later one; the watcher's dispatcher likewise, with one commit
for its batch; a rename inside Cubical deletes and adds directly; the tail of a
scan compares the reader's paths with the paths walked (`retain_paths`); a rebuild
empties the index and scans again. A commit may also come on its own
(`SEARCH_COMMIT_EVERY` documents) or be lost in a crash. The code logs a failure and goes
on, and so does the model, wherever it can come: a note that the walk or the watcher
cannot read (`Walk`, `WatchSkips`), an upsert that fails before or after its deletion
(`changed`, `markdown`), a deletion, `retain_paths` (`FindOrphans`), and every commit
(`Commit`: the periodic one, that of `finish`, of the reconcile, of the watcher and of a
rename), after which the reader is as it was and the writer has or has lost what was to be
committed. The status settles at Ready all the same. `Misses` counts a failure as one of
the bounded changes and puts the notes it is about into `raced`; the next scan that begins
with no rename and no other scan under way takes them out again, because it has to put
them right. `WipeRefused` is a rebuild whose wipe fails.

`TableCache` - the cache of decoded data files. A load stamps the file, looks for
an entry of that stamp, reads the text, stamps the file again, and stores only if
the stamps agree, else forgets; `with_entry`, `without_oldest` and the byte counter
are the cache's own arithmetic. Loads run side by side while files change.

`DesktopShell` - terminals and graph layouts. A terminal tab has a panel, a call of
`terminal_open` under way, a shell, and a session that somebody holds (the call,
the registry, a reaper, the exit hook, nobody); a session that is dropped kills its shell.
The pump's exit hook, `terminal_close`, the reaping after the plugin is disabled or the
vault closed, and the removal of the panel come in any order. The hook runs when the
output ends with the shell (`OutputEnds`) or fails before it (`OutputFails`), takes the
session if the registry has it, and waits for the shell (`wait_exit`). A layout registers
itself, replaces and cancels its predecessor, and unregisters only itself.

### Between processes

`VaultLock` - `open_vault` and `close_vault` of any number of processes around the OS
lock, the owner file and the process's own registry, one action per file operation:
lock, claim, register; withdraw the claim, release. A process may die at any step:
its lock goes, its claim stays.

`CliAttach` - composes `VaultLock` with commands and the socket. A command line opens
the vault itself and runs the command, or finds it locked, reads the owner file and
sends the command to the process named there. The server takes one connection at
a time (`inbox`, `server`, `stage`), gives up on one that is silent, checks the vault,
runs the command and answers; the client gives up on an answer that takes too long.
A command comes to an error before its effect or after it (`rename_folder` when the
fuse's flush fails, `create_file` when its row cannot be written), so what the user is
told is one of four things: ok, failed (by the command itself), refused (it was never
run), or that the answer is late.
`AttachSpec => LockSpec` is a theorem: the composition uses the lock as its own
specification says.

### Pure

`QueryLanguage` - one query over records, `TABLE key WHERE key op literal SORT key
dir`, evaluated by `exec_index` (the compiled SQL: typed columns, NULLs, three-valued
comparison, the sort prefix for missing values) and by `exec_table` (comparison in
memory, stable sort, reversal). A behaviour of `QuerySpec` starts in any relation and asks
one query.

`MCFlushProtocol`, `MCRenameQueue`, `MCVaultSession`, `MCSearchIndex`, `MCCliAttach`,
`MCTagsAndBlocks` and `MCParts` hold the values the configurations use. `MCParts` runs
`TableCache`, `QueryLanguage`, `TagsAndBlocks`, `DocumentSession`, `MentionPanel`,
`LinkIntegrity` and `GraphView`, which share nothing, in one run: a behaviour is one of one
of them. `MCCliAttach` does the same for `CliAttach` and `DesktopShell`.
Operators commented *Fault* are deliberately wrong variants of the definition
that follows them, kept to see that the property that should notice does.

### Abstractions

Tokens are values, so a rewrite replaces every occurrence and
positions inside a text do not exist; a hash is the text it is the hash of; the
batches of a scan (`SCAN_BATCH_SIZE` files) are one transaction in `RenameQueue`, as
they are in a vault smaller than a batch; a tombstone's two seconds are longer than
it takes to handle one batch of events (`prune_expired` needs `events = <<>>`); a
row's AUTOINCREMENT id is the op that inserted it, rows of one op being for different
notes or tokens, and of the edits that one rename makes of one token any may come last;
`last_seen` and `created_at` are the sets `scan.seen` and
`scan.fresh`. In `DocumentSession` a flush's announcement of its own write is
always consumed by the event it is for (`FlushProtocol` has the gate in full),
`seenHash` is left out, and one note stands for all: while another is shown,
the session belongs to that one. In `GraphView` the view is started once: a vault is replaced by `releaseVault`
(`App.tsx:980`), which empties the tabs before `setVaultId` is called (`core/vaultOpen.ts`),
so the graph's tab, with its view, is gone before the identifier it watches changes. In `VaultLock` a
claim is written in one step; between the lock and the write (`vault_lock.rs:66`) the claim
of a process that died can still be read, and `OwnerNamesHolder` speaks of registered
sessions, which come later. In `TableCache` a stamp is the number of the text:
two texts of one length within the clock's grain do not occur. In `TagsAndBlocks` tags
are compared as written (the tables fold case, the rewriting does not), and a file and
its rows change while nobody renames, as the mutex has it. In `CliAttach` a command
applies once or not at all, and may come to an error either way; which command it is does
not matter, nor does an effect of which only a part was done. In `QueryLanguage` a
number is an integer with one notation, and a blank text, which a note can hold and a
data file cannot, is left out.

In `MentionPanel` the titles and aliases of a note are one mention, the other notes that
mention it are left out (a position speaks of one file), `due` stands for a refresh that
is scheduled or an event on its way that will schedule it, and the read and the write
of `create_block_ref` are one step.

## 3. Checks

| Run | Question | Result |
|---|---|---|
| `flush_parties` | Two tasks, undo, the editor, the watcher and another program: is a row ever deleted that the flush has not applied; is there ever more than one row per token? | no (`NothingDeletedUnapplied`, `OneRowPerToken`, `TypeOK`) |
| `flush_promise` | With flushes the only writers, what do readers see, what does the index say, does the queue drain? | renames only, each once and forward (`ReadersSeeOnlyRenames`, a refinement of `LinkView`), the bytes on disk (`HashTracksDisk`), yes (`QueueDrains`) |
| `flush_save` | Does a flush write what a reader is shown (`FlushWritesTheView`)? | **violated**: a save between the flush's read and its write is lost |
| `renames_crash` | Renames of notes and of a folder by the user, and of notes by others, open or closed, reported whole or in two halves, a crash at any step, in a vault whose notes can be read: do links follow, does the index agree? | yes (`LinksFollow`, `IndexAgrees`) once the vault is open and events are handled |
| `renames_any` | Every action at every time, names reused, a folder of one note, scans cancelled, transactions refused, the index wiped, notes that a scan or the watcher cannot read | `TypeOK`, `OneRowPerToken` hold |
| `renames_twins` | Identical notes that can be read, no inodes: is a link ever sent to another note? | no (`NeverMisled`) |
| `lifecycle` | An open vault whose tasks fail, whose scan is cancelled and whose index is rebuilt, and its close at any time: do health flags lie, do two parties write the queue, does a status stick, does anything run on? | no (`LiveFlagsTrue`, `OneWriterWhileOpen`, `BuildingEnds`, `ClosedComesToRest`) |
| `search` | Two notes edited, deleted and renamed, inside and outside, while scans walk, batches are handled and crashes lose what was not committed, and reads, upserts and commits fail: once all is quiet and the index says it is ready, is it? | yes (`ReadyIsTrue`), for notes that did not change under a scan and that the index has not failed on since the last scan that ran alone began |
| `attach` | The app and two command lines on one vault, dying anywhere, with late and lost answers and a client that says nothing; by themselves, a terminal closed, disabled and reaped while it starts, and two layouts of one vault | one session at a time (`OneSession`), the owner file names it (`OwnerNamesHolder`), what is reported done was done once and what was refused was not (`OkMeansDone`, `RefusedMeansNotDone`), every request is taken (`RequestsTaken`); no shell whose output has not failed outlives its tab (`ShellsEnd`), the layout that computes can be cancelled (`OneLayout`) |
| `parts` | Tables loaded while their files change; every relation of three records and every query; tags and block ids renamed and undone while notes are flushed, saved and scanned again; one note, typed into, flushed, left with its editor kept or not, and shown again, with a change by others and with writes, reads and loads that fail; the mentions in a note, listed and linked while it changes; dangling links listed and repaired while notes come and go; the graph of an index that changes | answers are not older than the question (`Fresh`), the cache keeps its ceiling (`UnderCeiling`); the executors agree (`ExecutorsAgree`), with a missing value last in both directions (`MissingComesLast`); notes show what was meant (`ShownAsMeant`) and the tables what is in them (`TablesFollow`); nothing typed is taken for written that is not, forgotten, or replaced by a reload (`CleanIsWritten`, `NoEditForgotten`, `ReloadsKeepUnsaved`), as long as the session has not lost sight of it by leaving its tab, and the chain of writes is counted right (`TypeOK`); a link is made where the mention was listed (`LinksWhatWasChosen`) and the panel comes to show what is there (`PanelSettles`); a repaired link leads where the user chose, in the note and in the index (`RepairHolds`); the graph comes to be that of the index, every node in its place (`GraphSettles`) |
| `renames_referrer` | A note is renamed, then a note that refers to it, then the first again, all before a flush: do links follow (`LinksFollow`)? | **violated**: the second rename of the note misses the referrer |
| `tag_undo` | A tag is renamed, a note with it is saved, and the rename is undone before any flush: does every note show again what it showed (`UndoneIsUndone`)? | **violated**: the row of the saved note is dropped and counted, and the note keeps the new tag |

### Bounds, and why they are enough

- `flush_parties`: one note, two tokens, two tasks, two ops, one edit.
  The hazard is a row that arrives between a read and a delete of the same note:
  a second note adds nothing to it, a second task and a second op are what it
  takes. The fuse is 1, so a rename's own flush runs too. The clock
  ticks once.
- `flush_promise`: two notes and two independent renames, so that one rename
  spans two notes and one note carries two rows; one crash, anywhere in a flush.
- `renames_crash`: eight paths of which four have notes, two of them in a folder,
  three renames by anyone, of notes or the folder, with a chain A, B, C whose last
  hop may be external, two referrers of one note and a note that refers to its
  referrer, one crash anywhere, external renames reported in either form and either
  order. Names are never used again, other programs move one note only, and no
  note with queued rows is moved (`renames_referrer` is that case). 1.4 million
  states.
- `renames_any`: two paths for one note and its referrer, the note alone in a folder
  that is renamed too, two renames there and back, one crash, close or cancelled scan, the
  index wiped, and any note unreadable at any time. Nothing about
  links is claimed there: the instance is for the structure of the queue and the
  transactions.
- `renames_twins`: two identical notes, four deletions or renames, no inodes.
- `parts`, the note in its editor: one file, two keystrokes (the second may take the first back), two
  flushes that write, one of them chained or of queued rows, one change by another program or
  one rename, the read of the tab that is shown and one other under way, the note left once
  and shown again.
  Each property is about a race of one answer with one keystroke or one change, so
  one of each and one more is what it takes. `MaxFlushes` is there because a flush
  while a write is under way always chains another, for ever.
  There is no bound on kept editors: of this note's there is one or none, and other
  notes have sessions of their own. 0.8 million states, of the 1.4 million of the run.
- `parts`, mentions: a note with two mentions after a link that its rename makes
  longer by exactly a mention, so that the position of the one, used in the wrong text, is
  that of the other; one change of each kind, and two fetches, so that an answer can be
  late. Nobody changes the note between the flush of `link_mention` and its write
  (`Unhurried = TRUE`), and one link is made at a time (`Call` has one element): section 5
  says what fails otherwise.
- `parts`, dangling links: two referrers, of which one may be flushed when the other
  fails; three notes, two of one name and the third with it for a title, so that a bare token
  is ambiguous, is ranked by name and by title, and is cut by both limits; two repairs and two
  notes that come or go, or saves, so that a list is old and a repair follows another.
- `parts`, graph: three files, one of them new, a ghost and a tag; two changes and two
  fetches after the first, so that an answer can be overtaken and a change can come between
  the reads. Numbers shift when the first file goes.
- `lifecycle`: one rebuild beside the scan of the opening. The races are of a
  scan with a rebuild, of either with the close, and of a token that is spent with
  the one that replaces it: two dispatchers and two tokens are what each needs.
- `search`: two notes with two texts, two changes, two scans. A rename needs two
  paths; a ghost or a missing document needs one change and one scan, and the
  second of each is the rebuild or the reopening that has to repair it. A failure is one of
  the two changes. 2.5 million states, with the notes symmetric.
- `attach`: one session of the app and two command lines, so that two clients
  can wait for each other at the server and one can find the claim of the other.
  One terminal tab and two layouts of one vault.
- `parts`: two keys of different files, two loads, three texts of sizes that fit,
  fit alone and never fit, so that storing replaces, evicts and refuses; three records, five texts that sort
  differently as text and as number, two numbers (sorting needs three to be stable
  or not; the conditions are per record).
- `parts`, tags and blocks: three notes with a tag and one under it, a string of
  several tags, a block with two referrers and one that refers back; three renames of
  the chains A to D, D to E/D with D/C to Z, and of a block id X to Z to A, so that a
  rename builds on the one before, on another row of the same note or on a descendant;
  one save or change by others, one tick, one crash; a limit of 1 makes the fuse blow.
  Users rename once the tables have caught up (`Hasty = FALSE`), give no name twice,
  and undo as long as nothing has been written or indexed since (`LateUndo = FALSE`).
- `renames_referrer`: three paths for the note, two for its referrer, three renames.
- `tag_undo`: two notes with one tag, one rename, one save.
- `Fuse` is 50 in the code; 0, 1 and 2 here make it blow or not.

Where an instance says `Hasty = FALSE`, users act when the watcher has caught up
and tombstones have expired. `LinksFollow` cannot be stated without it: a second
rename before the watcher has refreshed the links of a flushed referrer enqueues
a token that is no longer in the text. `Outside` without `"crash"` lets the vault go
down only when nothing is in progress.

`CHECK_DEADLOCK FALSE` where the system really may stop: every bound is used up and
everything is settled, the vault is closed, the commands are answered.

### Fairness

`QueueDrains` is checked under `FairSpec`. A flush or a rename that has started
goes on (weak fairness of each task's own steps: tokio polls a ready future). The
timer takes the mutex again and again, so `flush_all_for_vault` is strongly fair:
tokio's mutex is first come, first served, and `flush_timer_loop` goes on while the vault
is open, each tick being isolated from it (`run_isolated_flush_tick`): one that fails or
panics is followed by the next. A loop that ended nevertheless would not be started again
(`VaultSession` has that case, and its health flag). Reading and
writing a note is strongly fair: an I/O error is retried at the next tick, and
no note fails for ever. Without that last assumption the property is false: a
note that can never be read keeps `flush_all_for_vault` from those behind it.

`BuildingEnds` and `ClosedComesToRest`: a task that has started goes on, whoever waits
for `flush_in_progress` gets it (strongly fair, the mutex being a queue), and a task
notices in the end that its token is cancelled although it may have other work each
time (strongly fair: each loop's `select!` or check of the token comes round). Nobody
is obliged to close, to cancel or to rebuild.

`RequestsTaken`: the server's own step is weakly fair, because every read and write
of it has a deadline (`handle_connection`), and each waiting connection is accepted
in the end (strongly fair: the operating system's backlog is a queue).

`ShellsEnd`: calls of the UI and of the runtime are carried out once asked for, and the
UI's effect removes the panels of a disabled plugin; output that has ended is noticed, and
a hook that waits for a shell returns when it is over. No shell is assumed to end by
itself, which is the case the property is about.

## 4. Proofs

Every theorem holds for any values of the constants that satisfy the named
assumptions of its module, which TLC evaluates in the runs.

`PendingRewritesProofs`, about the fold: `ApplyAtOnce` (where no row writes what another
reads, a text changes by all rows at once, in whatever order they are applied) and
`ApplyTyped` (finitely many rows make a text of a text). A theorem of the library that does
induction takes its predicate as a parameter, which no installed prover can instantiate;
instead a least counterexample is looked at, the smallest number or the smallest set of
rows for which the fact fails (`LeastNumber`, `SmallestSet`). That the function exists
which a fold chooses is shown the same way, for one more element at a time. The sums of
`TableCache` and the positions of `MentionPanel` are folds too and rest on one lemma,
`SumExists`.

`FlushProtocolProofs`, for any notes, tokens and tasks:
`QueueTyped`, `MutexHeld` (a task is at work exactly when it holds
`flush_in_progress`), `NoRewriteLost` (`Spec => []NothingDeletedUnapplied`) and
`QueueCoalesced` (`Spec => []OneRowPerToken`). `NothingDeletedUnapplied` is not
inductive: a step of another task could insert rows between a flush's read and its
delete. `LockInv` (at most one task is not idle, and it holds the mutex) is what
rules that step out; the other writer of the table, `undo_rename`, only shrinks it.
`OneRowPerToken` needs only the types: `enqueue_coalesced` takes the rows it renews
out of the table before it puts them back.
`TextsTyped` (`Spec => []TypeOK`) is the rest of the types, that the notes and what is about to
be written are texts. It rests on `RowsOrdered`: a note has finitely many rows at any
time, no two with one id and none with an id that is still to come, and the rows a flush
holds can be put in order; without these the fold would be over anything.
`IndexTracksDisk` (`Spec => []HashTracksDisk`) is about instances in which flushes alone
write the notes (`OnlyFlushesWrite`), whatever undo, the watcher's delay and crashes do,
and assumes that notes exist (`NotesExist`). Its invariant: `FlushInv`, what a task has
written is in the file until it has updated the hash; and `TrackInv`, a note whose hash is
behind has an event on its way or is just being read, and a text the watcher has read is
the file's unless a later event follows.
`RenamesAloneAreSeen` (`Spec => ReadersSeeOnlyRenames`) is the refinement: every step is a
rename of `LinkView`, forward and with an op of its own, or leaves what readers see. A row
that is lost before the file has it would bring the old token back, and no step of
`LinkView` does, so the theorem says that no flush, fuse, failure or crash loses any. It assumes `NamesUsedOnce` (no rename
writes a name that one reads, and no two read one name) and `FlushesAlone` (beside flushes there are the
watcher and crashes: no undo, editor or other program); Section 5 says what fails
without. Its invariant `ViewInv` says that rows come from the renames, that no editor has a
copy, and `FlushKnows`: what a flush is about to write is its rows applied all at once,
and after the write those rows find nothing left to exchange. So the write, and the
deletion of rows that follows it some steps later, leave the view as it is.

`RenameQueueProofs`, for any notes, names, folders and bounds: `OneRewritePerToken`
(`Spec => []OneRowPerToken`), the same promise where whole renames, scans, crashes and
transactions meet. It is not inductive there, because a crash or a folder that cannot
be moved brings back the index as it was: `QueueInv` adds that the saved index keeps the
promise as well while a transaction is open, that the open transaction is the scan's or
a folder's and never both (either would throw away what the other saved), that a
closed vault has no job and no watcher to go on, and that what a folder rename plans is
part of one folder. `RekeyKeeps` is the step where rows follow a note over the rows at
its new path; it needs `FolderAssumption`, that no two notes of a folder end at one path.
`RenamesTyped` (`Spec => []TypeOK`) is about everything else the state consists of: an
index to roll back to is there exactly while a transaction is open, a rename at work has
its two paths, the watcher at work has its event, an entry is replayed only in the phase
of the replay (`StageInv`), and what the fold over a note's rows gives is a text. The last
rests on the queue: paths and tokens are assumed to be finitely many, and because a note
has one row per token (`QueueKeeps`) so are its rows.

The third fact there is `NobodyIsMisled` (`Spec => []NeverMisled`): whoever renames what,
whatever scans, watcher, flushes and replays do in between, and wherever the program
stops, is rolled back or loses its index, no link ever leads to another note than it led
to at the start. It is stated where nothing competes (`NothingCompeting`, that some `O`
fulfils `NoneCompete`): each path is one note's, a name is of one note's paths only, no link
is misled at the start, no two notes are copies, and a note moves between its own paths.
`MCRenameQueue` has TLC evaluate the condition for every instance but `renames_twins`,
where it is false and where a crash does mislead (Section 5). `NeverMisled` alone is not
inductive: a wrong row in the index, a wrong entry in the journal or a wrong pairing
misleads nobody until a flush writes it out. `OwnedInv` says of every place where a path is
kept that what is kept there is its owner's: the file, the row and the tombstone at a path
have the owner's identity; rewrites, whether queued, saved for a rollback or in a flush's
hands, and the links of the index bring in names of the note meant only; events, pairings
and journal entries go between two paths of one note. A copy could break it in one place
alone, where a vanished row is paired with a file of the same text (`AlikeAreOne`); the other
steps that carry weight are that the rewrites a rename queues name its own note
(`RewritesOwn`), and that rows which follow a note stay its own (`RekeyOwn`).

`ClientProofs`, about the editor, for any keystrokes, changes, reads, writes and visits:
`EditsAreNotForgotten` (`SessionSpec => []NoEditForgotten`) from `TypedInv`, the types with the
fact that a session without an editor has nothing to write; `SessionIsTyped`
(`SessionSpec => []TypeOK`) from that and `BoundsInv`, which has the parts the first does not
need: flags, hashes, the chain of writes and the reads under way; and, with as many editors
kept behind other tabs as one likes, `CleanNotesAreWritten` and
`UnsavedIsNotReloaded` from `CleanInv`: a text taken for clean has been in the file or is the
one its editor was left with, because every file text is recorded in `past`, every served
read carries a recorded text, and a read of an older session is told by its generation.

`VaultSessionProofs`, for any number of rebuilds: `SessionKept` with
`SessionInv = TypeOK /\ MutexInv /\ FlagInv`, and from it `FlagsAreTrue` and
`WritersExcluded`. `OneWriterWhileOpen` is not inductive without `MutexInv`, which says
that each of the four writers has the mutex at the step that writes, and that in an
open session every dispatcher looked up the session's own mutex.

`SearchIndexProofs`, for any notes and texts and any number of changes, scans, batches,
crashes, and reads, upserts and commits that fail: `IndexKept` and from it `ReadyIsTruthful` (`ReadyIsTrue`). The invariant follows a note
that is not in `raced` from the disk to the reader. `EventsInv`: the last event on its way
says whether the note is there. `Swept`: what a scan has walked is what there is.
`Committed`: what a scan has committed is in the reader. `Cared`: a note that the reader
shows otherwise than it is, is already right in the writer with a commit to come, or has
an event on its way, or is ahead of a scan that will put it right. A note leaves one of
these only into the next, or into `raced` when something fails on it, and when all is quiet
and the status is ready none is left. A scan that begins alone takes every note out of
`raced` and into `WillFix`: what failed before it is healed by it, whatever the reader and
the writer had become, which is the part of the theorem that failures make hard.

`ClientProofs`, about processes and command lines, for any sessions and commands: `LockKept`
(`LockSpec => []LockInv`: who is in the vault has the lock, and the owner file names
its process), the refinement `AttachKeepsLock` (`AttachSpec => LockSpec`, the identity on
the lock's variables), and through both `OneSessionAtATime` and `ClaimIsTrue` of the
composition; `ReportedDone` and `RefusedIsNotDone` from `JobInv`, which follows a command
from its client to the server and back: it is in one place at a time, it has been applied at
most once, and not at all as long as it is before the stage that runs it or is refused. For any vaults and layouts, `LayoutKept`.

`NoteRewriteProofs`, about tags and blocks, for any notes, tags, ids and bounds, and for any
saves, flushes, changes by others, undoings and crashes: `NotesShowWhatWasMeant`
(`TagSpec => []ShownAsMeant`) and `TablesAreTrue` (`[]TablesFollow`). They ask three things of the users, which `MCParts` assumes as well, so
that TLC has found them true of the instance: `Patient` (a rename waits for the index, and
an undoing is asked for before anything is written or indexed since), `NewTags` (a tag is
given a name that none has, is under or is over, and is not one of several in a string) and
`NewIds` (a block is given a new id, and no two notes share one). Section 5 says what fails
without each.
No part of the promise is inductive alone, because the notes are a fold over the rows, and
the rows may be applied twice: by a save and the flush, or by a flush that crashed before it
deleted them. What makes this harmless is `NamesUsed`: there is a set of renames, those made
and not undone, such that no note shows a name one of them has taken away, and no other
rename's new name is anywhere. So every row leaves alone what its note shows (`ShownTwice`),
nothing is ever coalesced, and a new row comes after all others and is applied to what they
give (`NewRows`). `SinceRename` says the same of the queue without the last rename's rows,
as long as nothing has been written or indexed: that is what an undoing comes back to. For the
tables, `TablesTrue`: a note that needs no rewriting and that no event is under way for is
what the tables say. A rename cannot make a note of the second kind one of the first,
because a new name would have to be in the file already.

`NoteRewriteProofs`, about dangling links, for any notes, names, repairs, notes that come
and go, saves and failed flushes: `RepairedLinksHold` (`RepairSpec => []RepairHolds`). It
asks of the names only what paths give (`NameAssumption`). `RepairHolds` is not inductive:
what a note shows is a fold over its rows, and a flush that wrote the note and did not
delete them applies them again. `RepairInv` adds `Firm`, that no row is queued for the token
of a repair that counts, so that it stays however often the rows are applied
(`TokenStays`), and `RowsInTurn`, that the rows of a repair come after all others of the
note (`NewestLast`). The repaired token itself is still there when the row that was queued
for it is replaced (`TokenWithout`), and the new one leads to the chosen note
(`RepairLeads`). The panel and the ranking play no part: whatever the user chooses, the
repair keeps.

`ViewProofs`, what the index and the notes are shown as:

- the graph (`GraphKept`, `GraphComesToRest`): a call has read what the index has, or a
  later change will be told to the view, or is in `behind`; the numbers of calls are their
  own, and only the last one may still replace what is shown (`LastCallInv`);
- the panel of mentions (`PanelKept`, `PanelComesToRest`): the list is that of the text on
  screen, or a refresh is due, or the last fetch is not answered. `LinkIsWhereListed`
  (`LinksWhatWasChosen`), for one call at a time and a note that nobody else changes
  meanwhile (`Unhurried`): what the call reads after its flush is what is on
  screen (`ChosenInv`), a prefix that has not changed puts a word where it was
  (`OffsetOfPrefix`), and because words have a length no two spell the mention at one
  position (`OffsetGrows`, `OneSpelling`);
- the table cache, for any keys, loads, sizes and ceiling: `CacheKept`, that a load's stamp
  is never ahead of what it read and its text never ahead of the file, and that an entry's
  table is that of its stamp; from it `AnswersAreFresh` and `NoFalseEntry`. `StaysUnderCeiling`
  from `CountInv`, that the counter is the sum of the sizes of the entries held, whatever
  order they were stored, replaced and evicted in; it assumes finitely many keys;
- the query language, for relations of any size over any texts and numbers: `Agreement`
  (`QuerySpec => []ExecutorsAgree`) along `SameMatches` (the condition selects the same
  records), `SameLess` (the two orders compare alike) and `SameOrder` (so the sorted
  positions agree); `AnswersAreSorted`, that the positions are those of the order asked for,
  and from it `MissingIsLast` (`MissingComesLast`). No induction over behaviours is needed: a
  state is a query.

Only model-checked: `LinksFollow` and `IndexAgrees` of `RenameQueue`, whose inductive
invariant would have to say what every phase of a scan leaves in the index, the journal
and the queue; `NeverMisled` where notes are copies of each other; and all liveness and every `ENABLED`, which the prover
does not reach.

## 5. Known limits of the code

What follows are states the models reach, each with the definition that states the
promise and an instance in which TLC finds it violated. The first three are among the
runs; the next three are reproduced by the configuration of the run they name with that
property in it, the others by a configuration with the constants given.

- `FlushWritesTheView` (`flush_save`): a save between a flush's read of a note and
  its write is written over.
- `LinksFollow` (`renames_referrer`): `commit_rename` extracts the links of the moved
  note from the text on disk, not from the text with its rows applied, so the index
  forgets where they lead until the flush, and a rename of their target in between
  does not find them. `rename_folder` does the same: a folder one note of which
  refers by path to another violates `IndexAgrees` in a single operation.
- `UndoneIsUndone` (`tag_undo`): undo deletes what is queued, and reports as undone the
  row of a note that was saved with the rename in it.
- `DroppedAreGone` (in `search`): a scan drops the document of a note that was created
  or moved behind its walk, or that it could not read, which
  `docs/implementation/search-index.md:329` calls always safe. The watcher indexes such a
  note again if its event comes after; a removal still queued there takes the document of
  a note renamed to that path since. `ReadyIsTrue` exempts these notes, and those a read, an
  upsert or a commit has failed on (all of which the code logs and passes over, with the
  status at Ready), until the next scan that runs alone begins.
- `NoOrphans` (in `attach`): when the output of a terminal fails while its shell runs,
  the exit hook takes the session out of the registry and waits for the shell, and neither
  closing the tab nor closing the vault ends it. `ShellsEnd` exempts that. Beside it, a vault
  that is closed between the check and the insert of `terminal_open` leaves a shell until its
  tab goes, and a shell that ends before the insert leaves an entry in the registry, without
  a pump to remove it, until its tab goes.
- `UnsavedOutlivesRefresh` (in `parts`): leaving a tab clears `dirty` whatever became of its
  flush (`ui/src/tabs/activation.ts:18`). An editor that is kept behind the other tab with
  text whose write failed, or that was typed while the flush was awaited, is taken for clean
  when it is shown again, and a refresh or a silent reload replaces the text
  (`docs/principles/view-freshness.md:9`). `CleanIsWritten` and `ReloadsKeepUnsaved` exempt
  exactly that text, until the editor has another.
- `ReadersSeeOnlyRenames`, with a name used again (`Rewrite` there and back): between
  the write and the delete of the rows a note that holds both names is read wrongly.
- `LinksFollow` with `FromAToB` and `Outside = {"wipe"}`: the replay of the journal does
  not chain entries, so A to B to C and a wipe leaves a referrer of A dangling.
- `LinksFollow` with a crash between the two halves of a split rename (`Hasty = TRUE`):
  the tombstones are in memory only. Likewise an external rename while a scan walks,
  a burst of external renames handled after all of them, and a crash between the
  sweep and the journalling of the pairs. A second crash, in the scan that recovers
  from the first (`MaxCrashes = 2`), loses the pairing, and so does a scan that is
  refused its transaction by a folder's. A folder that another program renames while
  the vault is open is not adopted.
- `LinksFollow` with names used again and a scan between the renames (`Moves` B to C,
  A to B, B to D; a referrer R of A and B; one crash before the last rename): the scan
  extracts the links of R from the view, and the rename of B then coalesces with the
  row B to C, which was of the other note. `docs/implementation/engine-ipc.md:209`
  takes `old_token` for the untouched text on disk.
- `IndexAgrees` and `LinksFollow` with `"unreadable"` in `Outside`: a scan skips a note whose
  metadata, text or row fails (`scan.rs:199-225`, `233-249`), and the sweep takes its row, which
  has its old `last_seen`, with its links and those that led to it. So the index has no row
  for a note that is there, a rename of a note it refers to misses it, and the links of
  others to it lead nowhere until it is indexed again. `NeverMisled` fails for copies: of two
  identical notes the one that was skipped looks as if it had vanished, and is paired with a
  file that appeared. Where no two notes are copies it holds with unreadable notes too
  (`NobodyIsMisled`). `renames_crash` and `renames_twins` have notes that can be read;
  `renames_any` has the others.
- `ShownAsMeant` of `TagsAndBlocks`, with other notes or names than in `parts`: tags that
  share one string of the frontmatter (`tags: "foo, bar"`, which
  `docs/implementation/vault-core.md:324` says are split) are in the table and never
  rewritten; a block id that occurs in two notes is renamed in both if one refers to the other
  (`docs/architecture/document-model.md:55`: per file); a tag renamed to one under itself
  and saved before the flush is rewritten twice; two tags become one when names are
  used again with a scan between (A to C, B to A, A to D coalesces with the row of the
  other tag); with `Hasty = TRUE` undoing a coalesced rename goes back past the one
  before it.
- `TablesFollow` when a tag is renamed and renamed back (A to D, D to A) before a flush: a note
  that was indexed in between shows D, and then A again, which is what is in the file.
  `flush_pending_for_target` finds nothing to write and deletes the rows, so no event comes to
  the watcher and the tables have D for good.
  And with `LateUndo = TRUE`: undoing a rename whose notes have been indexed in between gives
  the text back and leaves the tables with the new name, because `undo_rename`
  (`rename.rs:1298`) indexes nothing.
- `NeverMisled` with moves during a scan, without inodes: the copy of a deleted note,
  renamed while the scan runs, is taken for it. And in the instance of `renames_twins`
  with `Outside = {"crash"}`: one twin is deleted and the other renamed while the vault is
  open, the watcher handles one of the two removals and the program stops. The scan at the
  next start misses one copy only, pairs it with the file that appeared, and the links
  of the deleted twin follow the other.
- `ConflictStopsWrites` (`docs/implementation/frontend.md:82`): a write chained behind the
  one under way starts although a conflict has been raised.
- `UnsavedTextStays` (`docs/principles/view-freshness.md:9`): the load of a note that is shown
  again replaces what was typed meanwhile, or was kept from before.
- `WritesWhatIsShown`: when the load of a note that is shown again fails, the app drops its
  text (`App.tsx:635-640`) and its editor is unmounted, and what asks it for its content is
  given the empty text (`Editor.tsx:355`). A timer that was running, or one more flush, then
  writes an empty file (`documentSession.ts:56`).
- `LinksWhatWasChosen` with `Unhurried = FALSE` or two elements of `Call`: `link_mention`
  writes the text it read, so a change of the note between the two, or another mention that
  is linked meanwhile, is lost. The panel disables only the row that was clicked.
- `NeverNested`: when a fetch is started while a mention is linked, the panel leaves its
  list as it was until the answer comes. The next mention in it, if names are one byte
  long, has the position at which the link now spells the name: the check of the span
  passes and a link is put into the link. `LinksWhatWasChosen` does not claim the place
  once what comes before it has changed.
- `BlockIdOnLine` (`docs/archive/layers/layer-3-spec.md:517`): `create_block_ref` takes a
  position of the text the editor shows, with rewrites applied, for one of the file, which
  they have not reached, and unlike `link_mention` does not flush them before: the id may
  come to stand on another line.
- `RepairHolds` without `Unmistaken`: `derive_reattach_token` gives a bare token the bare
  name of the note that was chosen and does not ask the resolver, which leads a name that
  two notes have nowhere. `docs/implementation/engine-ipc.md:471` has the token widened only
  where it would be the old one. And a row of `links` that is older than its note is
  reconnected although there is nothing to rewrite; such rows are not in `kept`.
- `RepairHolds` without the last condition of `had`, or with `kept` for `Outlived`, in a note
  whose flush fails (`repair_dangling_link` returns on the error and keeps the rows). Notes
  `x` and `d/y`, titled `T` and `X`, and a referrer with `x` and `T`: `x` is repaired to
  `y` while its note is away, the note comes back, `T` is repaired to it as `x`, and the
  flush writes the note but not the deletion. The next one applies `x` to `y` again, to a
  link that was repaired to `x`. Or, with a third note `z`, its note leaves again and `x` is
  repaired to `z`: `enqueue_coalesced` has one row per token, so this one replaces that of
  the first repair, and the link that was to become `y` becomes `z`, although the index
  says it leads to the note of `y`.
- `GraphSettles` without `behind`: the view subscribes after its layout has ended, so a
  change between the first snapshot and the subscription is not shown until the next one
  comes, nor is one whose fetch fails.
- `OneQueueWriter`: on a session that is closing, a scan that reaches its replay gets a
  mutex of its own and writes the queue beside the flush of `close_vault`.
- `NeverStuckBuilding`: when the wipe of the search index fails, `search_rebuild_index`
  returns with the status at Building.
- `OneFrontend`: a command that is dispatched when the app closes the vault runs while
  another process opens it.
- An error after the effect: commands return one when the flush of the fuse, or the row of a
  file just made, fails after the rename is committed or the file is there (`rename.rs:710`,
  `799`, `880`, `vault.rs:213`), so "failed" does not say that nothing was done.
  `RefusedMeansNotDone` is about refusals only.

## 6. Not modelled

The copy that stands in for a rename across file systems is left out, and so is the table
of folders: a folder exists, and is tracked, while a note in it does. The
commands that create, delete and move notes and folders, Markdown links, embeds and
headings, tags that differ in case and folders in the index are left out. In the repair
of links the watcher reads a note and replaces its rows in one step, two repairs are never
under way at once nor in one second, and tokens with an extension or a part of a path do
not occur. In the graph, frames that come after the layout's answer, the filters of a
snapshot, which the view does not use, and labels are left out.

Most of the remaining lines hold no state and take no part in an ordering, and a
model of them would repeat them: the Markdown and query parsers, extraction of
tags and frontmatter, the text of SQL statements, types of the API and their
conversions, formatting of answers, delimited and spreadsheet reading, ranking and
snippets of a search, floating-point graph layout, windows and menus. The map
therefore covers the parts where steps interleave and fail rather than the bulk of
the source. Plugins are a table of flags, and the sync crate is a placeholder.
