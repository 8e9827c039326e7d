------------------------------ MODULE SearchIndex ------------------------------
(***************************************************************************)
(* The full-text index of a vault.  A scan feeds it the notes it walks     *)
(* past and then drops the documents of notes it did not see; the watcher  *)
(* feeds it changes, with one commit for a batch; a rename inside Cubical  *)
(* feeds it directly; a rebuild empties it and scans again.  The writer    *)
(* and the searches' reader part until a commit, and a crash or a close    *)
(* loses what was not committed.  A file that cannot be read, a document   *)
(* the writer does not take and a commit that fails are logged and passed  *)
(* over: the status settles as if nothing had happened.                    *)
(***************************************************************************)
EXTENDS Naturals, Sequences, FiniteSets

CONSTANTS
  Note,
  MaxVersion,   \* bound: texts a note can have, 0 stands for no file
  MaxChanges,   \* bound: changes of the vault and failures of its index
  MaxScans,     \* bound: scans, of open_vault and of rebuilds
  Nobody

ASSUME SearchAssumption ==
  /\ {MaxVersion, MaxScans} \subseteq Nat \ {0} /\ MaxChanges \in Nat
  /\ Nobody \notin 1..MaxScans

VARIABLES
  disk,      \* the text of each note
  writer,    \* the documents as the next commit would leave them
  reader,    \* the documents searches see
  cell,      \* search_state
  queue,     \* events on their way to the watcher's dispatcher
  batch,     \* events it is at
  held,      \* <<note, text>> read by the dispatcher or a scan, to be indexed
  scan,      \* per scan: how far it is
  todo,      \* per scan: notes the walk has not come past, then its orphans
  seen,      \* per scan: SearchScanSink.seen
  tx,        \* the scan whose transaction is open on the one connection
  rename,    \* <<from, to>> of a rename inside Cubical whose file has moved
  changes,
  raced      \* notes that changed or lost their documents under a scan or a rename,
             \* or that the index could not be told of

docs == <<writer, reader>>
watch == <<queue, batch>>
scans == <<scan, todo, seen, tx>>
vars == <<disk, docs, cell, watch, held, scans, rename, changes, raced>>

Version == 0..MaxVersion
Scan == 1..MaxScans
Idle == {"off", "done"}
Walking == {"begin", "walk", "rebatch", "retain", "drop"}
NoDocs == [n \in Note |-> 0]

ScanIn(stages) == \E k \in Scan : scan[k] \in stages
Scanning == \E k \in Scan : scan[k] \notin Idle

(* Something fails, and is logged, at which the index misses these notes. *)
Misses(ns) ==
  IF ns = {}
  THEN UNCHANGED <<changes, raced>>
  ELSE changes < MaxChanges /\ changes' = changes + 1 /\ raced' = raced \cup ns

(* index.commit, of what the writer has then: its own commit and the reload of the
   reader may fail.  The searches stay as they are, and the writer has or has lost
   the documents by which the two differ. *)
Commit(w, missed) ==
  \/ writer' = w /\ reader' = w /\ Misses(missed)
  \/ LET unsure == {n \in Note : w[n] # reader[n]}
     IN /\ reader' = reader
        /\ writer' \in {f \in [Note -> Version] :
                          \A n \in Note : f[n] \in {w[n], reader[n]}}
        /\ Misses(missed \cup unsure)

Init ==
  /\ disk \in [Note -> {0, 1}]
  /\ writer \in {NoDocs, [n \in Note |-> 1]} /\ reader = writer
  /\ cell = "Building"
  /\ queue = <<>> /\ batch = <<>>
  /\ held = [a \in {0} \cup Scan |-> <<>>]
  /\ scan = [k \in Scan |-> IF k = 1 THEN "begin" ELSE "off"]
  /\ todo = [k \in Scan |-> Note]
  /\ seen = [k \in Scan |-> {}]
  /\ tx = Nobody
  /\ rename = <<>>
  /\ changes = 0
  /\ raced = {}

-------------------------------------------------------------------------------
(* The vault changes, by Cubical's commands or by another program, and the
   watcher hears of it. *)

Changes(d, ev, ns, late) ==
  /\ changes < MaxChanges
  /\ changes' = changes + 1
  /\ disk' = d
  /\ queue' = Append(queue, ev)
  /\ raced' = IF ScanIn(Walking) \/ rename # <<>> \/ late THEN raced \cup ns ELSE raced
  /\ UNCHANGED <<docs, cell, batch, held, scans>>

Save(n) ==
  /\ disk[n] < MaxVersion
  /\ Changes([disk EXCEPT ![n] = @ + 1], [kind |-> "Modified", note |-> n], {n}, FALSE)
  /\ UNCHANGED rename

Delete(n) ==
  /\ disk[n] # 0
  /\ Changes([disk EXCEPT ![n] = 0], [kind |-> "Removed", note |-> n], {n}, FALSE)
  /\ UNCHANGED rename

OnItsWay(ns) ==
  \E i \in DOMAIN (queue \o batch) :
    LET ev == (queue \o batch)[i] IN ev.kind # "flush" /\ ev.note \in ns

(* rename_file moves the file.  The event of it finds the new path tracked and
   takes the old one away.  A removal of the new path's former note that has
   not been handled yet will take the new one's document. *)
RenameMoves(n, m) ==
  /\ rename = <<>> /\ disk[n] # 0 /\ disk[m] = 0
  /\ Changes([disk EXCEPT ![m] = disk[n], ![n] = 0],
             [kind |-> "Removed", note |-> n], {n, m}, OnItsWay({n, m}))
  /\ rename' = <<n, m>>

(* commit_rename tells the sink: removed, changed, flush.  It fails before
   when the file is gone again or a scan's transaction is open, or for another
   reason; and the sink may take less than it is told. *)
commit_rename ==
  /\ rename # <<>>
  /\ LET n == rename[1]
         m == rename[2]
     IN IF disk[m] = 0 \/ tx # Nobody
        THEN UNCHANGED docs /\ Misses({})
        ELSE \/ UNCHANGED docs /\ Misses({n, m})
             \/ Commit([writer EXCEPT ![n] = 0, ![m] = disk[m]], {})
             \/ \E a \in {0, writer[n]}, b \in {0, writer[m], disk[m]} :
                  Commit([writer EXCEPT ![n] = a, ![m] = b], {n, m})
  /\ rename' = <<>>
  /\ UNCHANGED <<disk, cell, watch, held, scans>>

-------------------------------------------------------------------------------
(* The watcher's dispatcher: one commit for a batch. *)

handle_watch_batch ==
  /\ batch = <<>> /\ queue # <<>>
  /\ batch' = Append(queue, [kind |-> "flush"]) /\ queue' = <<>>
  /\ UNCHANGED <<disk, docs, cell, held, scans, rename, changes, raced>>

ReadWatched ==
  /\ batch # <<>> /\ Head(batch).kind = "Modified" /\ held[0] = <<>>
  /\ LET n == Head(batch).note
     IN /\ disk[n] # 0
        /\ held' = [held EXCEPT ![0] = <<n, disk[n]>>]
  /\ UNCHANGED <<disk, docs, cell, watch, scans, rename, changes, raced>>

(* A file that is gone or cannot be read leaves the index as it is. *)
WatchSkips ==
  /\ batch # <<>> /\ Head(batch).kind = "Modified" /\ held[0] = <<>>
  /\ batch' = Tail(batch)
  /\ LET n == Head(batch).note
     IN Misses(IF disk[n] = 0 THEN {} ELSE {n})
  /\ UNCHANGED <<disk, docs, cell, queue, held, scans, rename>>

(* An upsert deletes the document there was and adds the new one; it may fail
   before either, or between the two. *)
changed ==
  /\ held[0] # <<>>
  /\ LET n == held[0][1]
         text == held[0][2]
     IN \/ writer' = [writer EXCEPT ![n] = text] /\ Misses({})
        \/ writer' \in {writer, [writer EXCEPT ![n] = 0]} /\ Misses({n})
  /\ held' = [held EXCEPT ![0] = <<>>]
  /\ batch' = Tail(batch)
  /\ UNCHANGED <<disk, reader, cell, queue, scans, rename>>

removed ==
  /\ batch # <<>> /\ Head(batch).kind = "Removed"
  /\ LET n == Head(batch).note
     IN \/ writer' = [writer EXCEPT ![n] = 0] /\ Misses({})
        \/ UNCHANGED writer /\ Misses({n})
  /\ batch' = Tail(batch)
  /\ UNCHANGED <<disk, reader, cell, queue, held, scans, rename>>

flush ==
  /\ batch # <<>> /\ Head(batch).kind = "flush"
  /\ Commit(writer, {})
  /\ batch' = <<>>
  /\ UNCHANGED <<disk, cell, queue, held, scans, rename>>

WatcherStep ==
  handle_watch_batch \/ ReadWatched \/ WatchSkips \/ changed \/ removed \/ flush

-------------------------------------------------------------------------------
(* The scan and its sink *)

Goes(k, from, to) == scan[k] = from /\ scan' = [scan EXCEPT ![k] = to]

(* A second transaction on the connection is refused, and the scan with it.
   The walk lets its transaction go after every batch of files. *)
Begin(k) ==
  /\ \E from \in {"begin", "rebatch"} :
       IF tx = Nobody
       THEN /\ tx' = k /\ Goes(k, from, "walk")
            /\ raced' = IF from = "begin" /\ rename = <<>> /\ ~OnItsWay(raced)
                             /\ \A j \in Scan \ {k} : scan[j] \in Idle
                        THEN {} ELSE raced
       ELSE Goes(k, from, "failed") /\ UNCHANGED <<tx, raced>>
  /\ UNCHANGED <<disk, docs, cell, watch, held, todo, seen, rename, changes>>

Rebatch(k) ==
  /\ Goes(k, "walk", "rebatch") /\ held[k] = <<>>
  /\ tx' = Nobody
  /\ UNCHANGED <<disk, docs, cell, watch, held, todo, seen, rename, changes, raced>>

(* The walk comes past the place of a note and reads it if it is there.  It skips
   a note that cannot be read, or whose row cannot be written. *)
Walk(k, n) ==
  /\ scan[k] = "walk" /\ held[k] = <<>> /\ n \in todo[k]
  /\ todo' = [todo EXCEPT ![k] = @ \ {n}]
  /\ \/ disk[n] = 0 /\ UNCHANGED held /\ Misses({})
     \/ disk[n] # 0 /\ held' = [held EXCEPT ![k] = <<n, disk[n]>>] /\ Misses({})
     \/ disk[n] # 0 /\ UNCHANGED held /\ Misses({n})
  /\ UNCHANGED <<disk, docs, cell, watch, scan, seen, tx, rename>>

(* A note has been seen, whether it could be parsed and indexed or not.  Every
   SEARCH_COMMIT_EVERY documents there is a commit. *)
markdown(k) ==
  /\ held[k] # <<>>
  /\ LET n == held[k][1]
         text == held[k][2]
     IN /\ seen' = [seen EXCEPT ![k] = @ \cup {n}]
        /\ \E d \in {text, writer[n], 0} :
             LET w == [writer EXCEPT ![n] = d]
                 missed == IF d = text THEN {} ELSE {n}
             IN \/ writer' = w /\ UNCHANGED reader /\ Misses(missed)
                \/ Commit(w, missed)
  /\ held' = [held EXCEPT ![k] = <<>>]
  /\ UNCHANGED <<disk, cell, watch, scan, todo, tx, rename>>

(* A cancellation, or an error of the index, ends the walk as it is; a note
   that has been read is not given to the sink any more. *)
WalkStops(k) ==
  /\ Goes(k, "walk", "failed")
  /\ held' = [held EXCEPT ![k] = <<>>]
  /\ tx' = Nobody
  /\ UNCHANGED <<disk, docs, cell, watch, todo, seen, rename, changes, raced>>

(* finish: a commit; after a cancellation nothing else. *)
WalkEnds(k) ==
  /\ \E to \in {"retain", "failed"} : Goes(k, "walk", to)
  /\ held[k] = <<>> /\ todo[k] = {}
  /\ tx' = Nobody
  /\ Commit(writer, {})
  /\ UNCHANGED <<disk, cell, watch, held, todo, seen, rename>>

(* retain_paths looks for orphans among the committed documents, and drops none
   if it fails ... *)
FindOrphans(k) ==
  /\ LET orphans == {n \in Note : reader[n] # 0} \ seen[k]
     IN \/ /\ Goes(k, "retain", "drop")
           /\ todo' = [todo EXCEPT ![k] = orphans]
           /\ Misses({})
        \/ /\ Goes(k, "retain", "links")
           /\ UNCHANGED todo
           /\ Misses(orphans)
  /\ UNCHANGED <<disk, docs, cell, watch, held, seen, tx, rename>>

(* Fault: orphans are dropped by the writer but not committed. *)
DropsUncommitted(k) ==
  /\ Goes(k, "drop", "links")
  /\ writer' = [n \in Note |-> IF n \in todo[k] THEN 0 ELSE writer[n]]
  /\ UNCHANGED <<reader, disk, cell, watch, held, todo, seen, tx, rename, changes, raced>>

(* ... and deletes them with the writer, and what was added to it meanwhile. *)
DropOrphans(k) ==
  /\ Goes(k, "drop", "links")
  /\ IF todo[k] = {}
     THEN UNCHANGED docs /\ Misses({})
     ELSE Commit([n \in Note |-> IF n \in todo[k] THEN 0 ELSE writer[n]], {})
  /\ UNCHANGED <<disk, cell, watch, held, todo, seen, tx, rename>>

(* The links are written in a transaction of their own. *)
LinkPass(k) ==
  /\ \/ Goes(k, "links", IF tx = Nobody THEN "settle" ELSE "failed")
     \/ Goes(k, "links", "failed")
  /\ UNCHANGED <<disk, docs, cell, watch, held, todo, seen, tx, rename, changes, raced>>

(* The status settles, and the sink goes with its scan. *)
settle_after_scan(k) ==
  /\ \/ Goes(k, "settle", "done") /\ cell' = "Ready"
     \/ Goes(k, "failed", "done") /\ cell' = "Error"
  /\ todo' = [todo EXCEPT ![k] = Note] /\ seen' = [seen EXCEPT ![k] = {}]
  /\ UNCHANGED <<disk, docs, watch, held, tx, rename, changes, raced>>

ScanStep(k) ==
  \/ Begin(k) \/ Rebatch(k) \/ (\E n \in Note : Walk(k, n)) \/ markdown(k)
  \/ WalkStops(k) \/ WalkEnds(k)
  \/ FindOrphans(k) \/ DropOrphans(k)
  \/ LinkPass(k) \/ settle_after_scan(k)

-------------------------------------------------------------------------------
Unused == {k \in Scan : scan[k] = "off"}
Fresh == CHOOSE k \in Unused : \A j \in Unused : k <= j

(* delete_all, a commit, and a further scan beside any that runs. *)
search_rebuild_index ==
  /\ Unused # {}
  /\ cell' = "Building"
  /\ writer' = NoDocs /\ reader' = NoDocs
  /\ scan' = [scan EXCEPT ![Fresh] = "begin"]
  /\ raced' = IF Scanning THEN Note ELSE raced
  /\ UNCHANGED <<disk, watch, held, todo, seen, tx, rename, changes>>

(* Either of the two fails, and no scan is begun. *)
WipeRefused ==
  /\ cell' = "Building"
  /\ writer' \in {writer, NoDocs} /\ Misses(Note)
  /\ UNCHANGED <<disk, reader, watch, held, scans, rename>>

(* The session ends, by a close or a crash, and the vault is opened again; in
   between its files may have changed and its index may have been spoiled, or
   have got a stamp of another version, and is wiped.  What the writer has is
   there again only if it was the reload that a commit had failed at. *)
Reopen ==
  /\ Unused # {}
  /\ \/ UNCHANGED <<disk, changes>>
     \/ /\ changes < MaxChanges /\ changes' = changes + 1
        /\ \E n \in Note : disk' = [disk EXCEPT ![n] = IF @ = 0 THEN 1 ELSE 0]
  /\ writer' \in {reader, writer, NoDocs} /\ reader' = writer'
  /\ cell' = "Building"
  /\ queue' = <<>> /\ batch' = <<>>
  /\ held' = [a \in DOMAIN held |-> <<>>]
  /\ scan' = [k \in Scan |-> IF k = Fresh THEN "begin"
                             ELSE IF k \in Unused THEN "off" ELSE "done"]
  /\ tx' = Nobody
  /\ rename' = <<>>
  /\ raced' = {}
  /\ todo' = [k \in Scan |-> Note] /\ seen' = [k \in Scan |-> {}]

Next ==
  \/ \E n \in Note : Save(n) \/ Delete(n) \/ \E m \in Note : RenameMoves(n, m)
  \/ commit_rename
  \/ WatcherStep
  \/ \E k \in Scan : ScanStep(k)
  \/ search_rebuild_index \/ WipeRefused \/ Reopen

Spec == Init /\ [][Next]_vars

-------------------------------------------------------------------------------
Event == [kind : {"Modified", "Removed"}, note : Note]

(* The types of the documents, the events and the scans. *)
TypeOK ==
  /\ disk \in [Note -> Version] /\ writer \in [Note -> Version] /\ reader \in [Note -> Version]
  /\ cell \in {"Building", "Ready", "Error"}
  /\ queue \in Seq(Event)
  /\ batch \in Seq(Event \cup [kind : {"flush"}])
  /\ held \in [{0} \cup Scan -> {<<>>} \cup (Note \X Version)]
  /\ scan \in [Scan -> Idle \cup Walking \cup {"links", "settle", "failed"}]
  /\ todo \in [Scan -> SUBSET Note] /\ seen \in [Scan -> SUBSET Note]
  /\ tx \in Scan \cup {Nobody}
  /\ rename \in {<<>>} \cup (Note \X Note)
  /\ changes \in 0..MaxChanges
  /\ raced \subseteq Note

Quiet == queue = <<>> /\ batch = <<>> /\ rename = <<>> /\ ~Scanning

(* When the index says Ready and nothing is under way, a search finds each
   note with its text and no note that is gone, whatever was saved, deleted,
   renamed, rebuilt, cancelled, crashed or wiped before, but for notes that
   changed while the last scan ran or were renamed with events still due, and
   for those the index failed on since the last scan that ran alone began. *)
ReadyIsTrue ==
  Quiet /\ cell = "Ready" => \A n \in Note \ raced : reader[n] = disk[n]

(* The documents a scan drops as orphans are of notes that are not there any more.
   The walk is taken for the authoritative set of notes on disk, and dropping
   what is not in it is said to be always safe. *)
DroppedAreGone ==
  \A k \in Scan : scan[k] = "drop" => \A n \in todo[k] : disk[n] = 0

===============================================================================
