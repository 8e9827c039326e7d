----------------------------- MODULE RenameQueue -----------------------------
(***************************************************************************)
(* Renaming notes: the file on disk, its row and the links in the index,   *)
(* the rewrites queued for its referrers, the rename journal, the watcher  *)
(* that adopts renames made by other programs, and the scan that finds     *)
(* those made while the vault was closed.                                  *)
(*                                                                         *)
(* Each await between two effects of a rename, a scan or a replay is a     *)
(* boundary where the process may die or another party may run.  What a    *)
(* flush does to one note is one step here: FlushProtocol takes it apart.  *)
(* A note is its identity, the number of times its file was replaced (the  *)
(* two together are its inode) and the link tokens in its text; its body,  *)
(* which some notes share, never changes.                                  *)
(***************************************************************************)
EXTENDS PendingRewrites, Functions

CONSTANTS
  Path,           \* paths of notes
  Token,          \* link tokens
  Title, Stem,    \* [Path -> Token]: note_title, strip_markdown_extension
  InitText,       \* [Path -> SUBSET Token, or Absent]
  Body,           \* [Path -> Path]: notes whose text is otherwise the same
  HasInode,       \* whether the platform reports inodes
  Moves,          \* <<from, to>> a user of Cubical may rename
  FolderMoves,    \* renames of folders: the <<from, to>> of what is in one
  ExternalMoves,  \* <<from, to>> another program may; to Absent is deletion
  When,           \* phases in which users act: "closed", "scan", "open"
  Hasty,          \* whether they act before the watcher has caught up
  Splits,         \* whether platforms may report a rename as two events
  Outside,        \* "crash": the vault goes down also before the watcher has
                  \* caught up; "close": it is closed; "wipe": the index goes;
                  \* "unreadable": scan or watcher cannot read a file there is
  Fuse,           \* rows per note above which a rename flushes it
  MaxSecond,      \* bound: ticks of the created_at clock
  MaxMoves,       \* bound: renames attempted, by anyone
  MaxCrashes,     \* bound: crashes and closes
  Absent, Null    \* no file or row; no target

(* A vault has finitely many paths and its notes finitely many tokens. *)
ASSUME FiniteAssumption == IsFiniteSet(Path) /\ IsFiniteSet(Token)
ASSUME NameAssumption == Title \in [Path -> Token] /\ Stem \in [Path -> Token]
ASSUME TextAssumption == InitText \in [Path -> (SUBSET Token) \union {Absent}]
ASSUME FileAssumption == Body \in [Path -> Path] /\ HasInode \in BOOLEAN
ASSUME MoveAssumption ==
  /\ Moves \subseteq Path \X Path /\ FolderMoves \subseteq SUBSET (Path \X Path)
  /\ ExternalMoves \subseteq Path \X (Path \union {Absent})
(* No two notes of a folder end at the same path. *)
ASSUME FolderAssumption == \A m \in FolderMoves : \A x, y \in m : x[2] = y[2] => x = y
ASSUME PartyAssumption ==
  /\ Hasty \in BOOLEAN /\ Splits \in BOOLEAN
  /\ When \subseteq {"closed", "scan", "open"} /\ Outside \subseteq {"crash", "close", "wipe", "unreadable"}
ASSUME BoundAssumption ==
  /\ Fuse \in Nat /\ MaxSecond \in Nat
  /\ MaxMoves \in Nat /\ MaxCrashes \in Nat

VARIABLES
  disk,     \* the note at each path
  db,       \* the index: files, links, rows, nextOp
  saved,    \* the index as it was when the open transaction began
  journal,  \* renames.jsonl
  second,   \* unix_now_secs
  job,      \* the operation that holds flush_in_progress
  watch,    \* what the watcher does with the event at the head of events
  events,   \* WatchEvents of the current batch
  tombs,    \* tombstones of files seen to disappear
  phase,    \* the vault: closed, or how far its scan has come
  scan,     \* locals of the scan
  moves,    \* renames attempted so far
  crashes   \* crashes and closes so far

vars == <<disk, db, saved, journal, second, job, watch, events, tombs, phase,
          scan, moves, crashes>>

Note  == [id : Path, gen : Nat, text : SUBSET Token]
Link  == [src : Path, raw : Token, target : Path \union {Null}]
Row   == [id : Nat, target : Path, old : Token, new : Token, at : Nat, op : Nat]
Entry == [op : Nat, from : Path, to : Path]

Stored == Note \union {Absent}
Index == [files : [Path -> Stored], links : SUBSET Link, rows : SUBSET Row,
          nextOp : Nat \ {0}]
(* No index is mistaken for none, and no path for no target. *)
ASSUME NullAssumption == Null \notin Index /\ Null \notin Path

Idle == [pc |-> "idle", from |-> Null, to |-> Null, folder |-> {}, plans |-> {},
         todo |-> {}, prune |-> FALSE, n |-> 0]
NotWatching == [pc |-> "idle", from |-> Null, read |-> Absent, restored |-> FALSE,
                adopted |-> FALSE]
NoScan == [paths |-> {}, seen |-> {}, fresh |-> {}, found |-> {}, gone |-> {}]

-----------------------------------------------------------------------------
(* Names *)

OnDisk == {p \in Path : disk[p] # Absent}
Tracked(p) == db.files[p] # Absent
TrackedPaths == {p \in Path : Tracked(p)}

(* PathResolver::resolve: the exact path, or else the only one of that     *)
(* title; a title that several notes have names none of them.              *)
resolve(k, F) ==
  IF \E p \in F : Stem[p] = k THEN CHOOSE p \in F : Stem[p] = k
  ELSE IF \E p \in F : {q \in F : Title[q] = k} = {p}
         THEN CHOOSE p \in F : Title[p] = k
         ELSE Null

token_names_file(k, p) == k \in {Title[p], Stem[p]}

derive_wikilink_new_token(k, from, to) ==
  IF k = Title[from] THEN Title[to] ELSE Stem[to]

inode(s) == <<s.id, s.gen>>
content_hash(s) == <<Body[s.id], s.text>>
key(by, s) == IF by = "inode" THEN inode(s) ELSE content_hash(s)

-----------------------------------------------------------------------------
(* Operators on the index *)

pending_for_target(f) == {r \in db.rows : r.target = f}

(* The text of the note at p with its rows applied. *)
View(p) == apply_pending(disk[p].text, pending_for_target(p))

(* refresh_links_with_doc: the rows of links for one note's tokens.        *)
link_rows(src, text, F) ==
  {[src |-> src, raw |-> k, target |-> resolve(k, F)] : k \in text}

(* A links row belongs to a files row: without one nothing is inserted.    *)
replace_links_for_file(L, src, text, F) ==
  {l \in L : l.src # src} \union (IF src \in F THEN link_rows(src, text, F) ELSE {})

(* DELETE FROM files cascades to the links the file contains. *)
delete_files(d, P) ==
  [d EXCEPT !.files = [p \in Path |-> IF p \in P THEN Absent ELSE @[p]],
            !.links = {l \in @ : l.src \notin P}]

Tokens(E) == {<<e.target, e.old>> : e \in E}

(* The rows after edits E of their tokens; one that was there keeps its id. *)
coalesced(R, E, at, op) ==
  LET Of(k) == {r \in R : <<r.target, r.old>> = k}
      Edit(k) == CHOOSE e \in E : <<e.target, e.old>> = k
      Id(k) == IF Of(k) = {} THEN op ELSE (CHOOSE r \in Of(k) : TRUE).id
  IN {[id |-> Id(k), target |-> k[1], old |-> k[2], new |-> Edit(k).new,
       at |-> at, op |-> op] : k \in Tokens(E)}

untouched(R, E) == {r \in R : <<r.target, r.old>> \notin Tokens(E)}

(* Fault: the row is written also when the token ends where it started.    *)
EnqueueAlways(R, E, at, op) == untouched(R, E) \union coalesced(R, E, at, op)

(* enqueue_coalesced for every edit of E, under one op at one time: one row *)
(* per token, and none for a token that ends where it started.             *)
enqueue_coalesced(R, E, at, op) ==
  untouched(R, E) \union {r \in coalesced(R, E, at, op) : r.new # r.old}

(* REATTACHABLE_LINK, for links whose token names the old path. *)
broken_referrers_naming(L, from) ==
  {l \in L : l.target \in {Null, from} /\ token_names_file(l.raw, from)}

collect_referrers(d, from) ==
  {l \in d.links : l.target = from} \union broken_referrers_naming(d.links, from)

rewrites_for(L, from, to) ==
  {[target |-> l.src, old |-> l.raw,
    new |-> derive_wikilink_new_token(l.raw, from, to)] : l \in L}

(* Links that lead nowhere and name a note that moves lead to where it is,  *)
(* for every <<from, to>> of M.                                            *)
reconnect_broken_links_to(L, M) ==
  LET Named(l) == {m \in M : l \in broken_referrers_naming(L, m[1])}
  IN {IF Named(l) = {} THEN l
      ELSE [l EXCEPT !.target = (CHOOSE m \in Named(l) : TRUE)[2]] : l \in L}

Moved(p, M) == IF \E m \in M : m[1] = p THEN (CHOOSE m \in M : m[1] = p)[2] ELSE p

(* What is queued for the notes of M goes with them, over the rewrites that  *)
(* were queued for a note at the new path.                                 *)
rekey_rows(R, M) ==
  {[id |-> r.id, target |-> Moved(r.target, M), old |-> r.old, new |-> r.new,
    at |-> r.at, op |-> r.op] : r \in {s \in R : \A m \in M : s.target # m[2]}}

(* The row of a file that has one goes to the file's new path. *)
rekey_files(F, M) ==
  LET Here == {m \in M : F[m[1]] # Absent}
  IN [p \in Path |->
        IF \E m \in Here : m[2] = p THEN F[(CHOOSE m \in Here : m[2] = p)[1]]
        ELSE IF \E m \in M : m[1] = p THEN Absent ELSE F[p]]

rekey_links(L, M) ==
  reconnect_broken_links_to(
    {[l EXCEPT !.src = Moved(@, M), !.target = Moved(@, M)] : l \in L}, M)

(* Everything keyed by an old path moves to the new one. *)
rekey_file_in_tx(d, M) ==
  [d EXCEPT !.files = rekey_files(@, M), !.links = rekey_links(@, M),
            !.rows = rekey_rows(@, M)]

-----------------------------------------------------------------------------
(* The rename journal *)

append_entry(j, op, from, to) == Append(j, [op |-> op, from |-> from, to |-> to])

(* The ops whose entries have nothing left to repair. *)
prunable(j, d) ==
  {e.op : e \in {x \in Range(j) :
     /\ d.files[x.from] = Absent
     /\ \/ d.files[x.to] = Absent
        \/ \A r \in d.rows : ~ token_names_file(r.old, x.from)}}

(* Entries are dropped by op, whichever of them was found to be done. *)
rewrite_without(j, ops) ==
  FoldLeft(LAMBDA s, e : IF e.op \in ops THEN s ELSE Append(s, e), <<>>, j)

prune_materialized_journal(j, d) == rewrite_without(j, prunable(j, d))

-----------------------------------------------------------------------------
InitNote(p) ==
  IF InitText[p] = Absent THEN Absent ELSE [id |-> p, gen |-> 0, text |-> InitText[p]]

Init ==
  /\ disk = [p \in Path |-> InitNote(p)]
  /\ db = [files |-> disk,
           links |-> UNION {link_rows(p, disk[p].text, OnDisk) : p \in OnDisk},
           rows |-> {}, nextOp |-> 1]
  /\ saved = Null
  /\ journal = <<>> /\ second = 0
  /\ job = Idle /\ watch = NotWatching /\ events = <<>> /\ tombs = {}
  /\ phase = "open" /\ scan = NoScan
  /\ moves = 0 /\ crashes = 0

Up == phase # "closed"
Free == Up /\ job.pc = "idle"
(* A scan or the rename of a folder has a transaction open on the connection *)
(* everybody shares.                                                       *)
InTransaction == phase \in {"walk", "links"} \/ job.pc \in {"queued", "relocated"}

Removed(p) == [kind |-> "removed", from |-> p, path |-> p]
Created(p) == [kind |-> "created", from |-> p, path |-> p]
(* What the watcher is told of a rename: one event, or two in either order. *)
RenameEvents(from, to) ==
  {<<[kind |-> "renamed", from |-> from, path |-> to]>>} \union
  (IF Splits THEN
     {<<Removed(from), Created(to)>>, <<Created(to), Removed(from)>>}
   ELSE {})

NotifyRename(from, to) ==
  IF Up THEN \E es \in RenameEvents(from, to) : events' = events \o es
  ELSE events' = events

(* Nobody is at work and the watcher has caught up. *)
Quiet == job.pc = "idle" /\ events = <<>> /\ watch.pc = "idle"

(* When this instance lets a note be moved and a flush start. *)
Allowed ==
  /\ (IF phase \in {"closed", "open"} THEN phase ELSE "scan") \in When
  /\ Hasty \/ (Quiet /\ tombs = {})

Relocated(from, to) == [disk EXCEPT ![to] = disk[from], ![from] = Absent]

-----------------------------------------------------------------------------
(* Renames *)

(* rename_file under the lock: the checks ... *)
rename_file ==
  /\ Free /\ moves < MaxMoves /\ Allowed
  /\ \E m \in Moves :
       /\ m[1] # m[2] /\ disk[m[2]] = Absent /\ Tracked(m[1])
       /\ job' = [Idle EXCEPT !.pc = "checked", !.from = m[1], !.to = m[2]]
  /\ moves' = moves + 1
  /\ UNCHANGED <<disk, db, saved, journal, second, watch, events, tombs, phase,
                 scan, crashes>>

(* ... then std::fs::rename ... *)
MoveFile ==
  /\ job.pc = "checked" /\ disk[job.from] # Absent
  /\ disk' = Relocated(job.from, job.to)
  /\ NotifyRename(job.from, job.to)
  /\ job' = [job EXCEPT !.pc = "moved"]
  /\ UNCHANGED <<db, saved, journal, second, watch, tombs, phase, scan, moves,
                 crashes>>

MoveFails ==
  /\ job.pc = "checked"
  /\ job' = Idle
  /\ UNCHANGED <<disk, db, saved, journal, second, watch, events, tombs, phase,
                 scan, moves, crashes>>

(* files.path is unique. *)
Rekeyable(from, to) == ~ (Tracked(from) /\ Tracked(to))

(* ... then commit_rename: the index transaction; a row keeps its last_seen  *)
(* and its created_at ...                                                  *)
commit_rename ==
  /\ job.pc = "moved" /\ ~ InTransaction /\ Rekeyable(job.from, job.to)
  /\ LET L == collect_referrers(db, job.from)
         M == {<<job.from, job.to>>}
         queued == [db EXCEPT
           !.rows = enqueue_coalesced(@, rewrites_for(L, job.from, job.to),
                                      second, db.nextOp),
           !.nextOp = @ + 1]
     IN /\ db' = rekey_file_in_tx(queued, M)
        /\ job' = [job EXCEPT !.pc = "committed", !.todo = {l.src : l \in L}]
        /\ scan' = [scan EXCEPT !.seen = {Moved(p, M) : p \in @},
                                !.fresh = {Moved(p, M) : p \in @}]
  /\ watch' = [watch EXCEPT !.adopted = (watch.pc = "adopting")]
  /\ UNCHANGED <<disk, saved, journal, second, events, tombs, phase,
                 moves, crashes>>

(* ... which fails inside the scan's, or on a row in the way ... *)
CommitFails ==
  /\ job.pc = "moved"
  /\ \/ InTransaction /\ UNCHANGED db
     \/ ~ Rekeyable(job.from, job.to) /\ ~ InTransaction
        /\ db' = [db EXCEPT !.nextOp = @ + 1]
  /\ job' = Idle
  /\ UNCHANGED <<disk, saved, journal, second, watch, events, tombs, phase,
                 scan, moves, crashes>>

(* ... the journal, with the op just minted ... *)
JournalRename ==
  /\ job.pc = "committed"
  /\ journal' = append_entry(journal, db.nextOp - 1, job.from, job.to)
  /\ job' = [job EXCEPT !.pc = "journaled"]
  /\ UNCHANGED <<disk, db, saved, second, watch, events, tombs, phase, scan,
                 moves, crashes>>

(* ... the moved note's own links, from its bytes on disk, and the fuse.   *)
(* When the note cannot be read the rename ends here with an error.        *)
Reextract ==
  /\ job.pc = "journaled"
  /\ IF disk[job.to] = Absent
       THEN /\ job' = Idle /\ UNCHANGED db
            /\ watch' = [watch EXCEPT !.adopted = FALSE]
       ELSE /\ db' = [db EXCEPT !.links =
                        replace_links_for_file(@, job.to, disk[job.to].text, TrackedPaths)]
            /\ job' = [job EXCEPT !.pc = "flush",
                         !.todo = {f \in @ : Cardinality(pending_for_target(f)) > Fuse}]
            /\ UNCHANGED watch
  /\ UNCHANGED <<disk, saved, journal, second, events, tombs, phase,
                 scan, moves, crashes>>

-----------------------------------------------------------------------------
(* Renames of folders, whose transaction is open while the folder is moved  *)

(* rename_folder: the checks.  A folder is there while a note is in it.    *)
rename_folder ==
  /\ Free /\ moves < MaxMoves /\ Allowed
  /\ \E m \in FolderMoves :
       /\ \A x \in m : disk[x[2]] = Absent
       /\ \E x \in m : Tracked(x[1])
       /\ job' = [Idle EXCEPT !.pc = "planned", !.folder = m,
                              !.plans = {x \in m : Tracked(x[1])}]
  /\ moves' = moves + 1
  /\ UNCHANGED <<disk, db, saved, journal, second, watch, events, tombs, phase,
                 scan, crashes>>

(* path_map: where the note at p goes with its folder. *)
path_map(p) == Moved(p, job.plans)

(* Fault: the notes of the folder are the only referrers looked at. *)
RewritesInside ==
  UNION {rewrites_for({[l EXCEPT !.src = path_map(@)] : l \in
                         {k \in collect_referrers(db, x[1]) : path_map(k.src) # k.src}},
                      x[1], x[2]) : x \in job.plans}

(* The rewrites of the referrers, those inside the folder under new paths. *)
folder_rewrites ==
  UNION {rewrites_for({[l EXCEPT !.src = path_map(@)] : l \in collect_referrers(db, x[1])},
                      x[1], x[2]) : x \in job.plans}

(* Every note is rekeyed and then every rewrite queued, under one op, ...  *)
QueueFolder ==
  /\ job.pc = "planned" /\ ~ InTransaction
  /\ \A x \in job.plans : Rekeyable(x[1], x[2])
  /\ saved' = [db EXCEPT !.nextOp = @ + 1]
  /\ db' = [rekey_file_in_tx(saved', job.plans) EXCEPT
              !.rows = enqueue_coalesced(@, folder_rewrites, second, db.nextOp)]
  /\ job' = [job EXCEPT !.pc = "queued", !.todo = {e.target : e \in folder_rewrites}]
  /\ scan' = [scan EXCEPT !.seen = {path_map(p) : p \in @}, !.fresh = {path_map(p) : p \in @}]
  /\ UNCHANGED <<disk, journal, second, watch, events, tombs, phase, moves, crashes>>

(* ... unless a transaction is open already or a row is in the way ...     *)
FolderRefused ==
  /\ job.pc = "planned"
  /\ \/ InTransaction /\ UNCHANGED db
     \/ /\ ~ InTransaction /\ \E x \in job.plans : ~ Rekeyable(x[1], x[2])
        /\ db' = [db EXCEPT !.nextOp = @ + 1]
  /\ job' = Idle
  /\ UNCHANGED <<disk, saved, journal, second, watch, events, tombs, phase, scan,
                 moves, crashes>>

(* What is in the folder goes along, whether the index has it or not.  The  *)
(* watcher reports the folder and none of its notes.                       *)
WithFolder(here, there) ==
  [p \in Path |->
     IF \E x \in job.folder : x[there] = p
       THEN disk[(CHOOSE x \in job.folder : x[there] = p)[here]]
     ELSE IF \E x \in job.folder : x[here] = p THEN Absent ELSE disk[p]]

(* ... then move_folder_on_disk ... *)
MoveFolder ==
  /\ job.pc = "queued"
  /\ \E x \in job.folder : disk[x[1]] # Absent
  /\ \A x \in job.folder : disk[x[2]] = Absent
  /\ disk' = WithFolder(1, 2)
  /\ job' = [job EXCEPT !.pc = "relocated"]
  /\ UNCHANGED <<db, saved, journal, second, watch, events, tombs, phase, scan, moves,
                 crashes>>

(* Rolled back with it is what the watcher wrote since the beginning.      *)
RolledBack ==
  /\ db' = saved /\ saved' = Null
  /\ job' = Idle

MoveFolderFails ==
  /\ job.pc = "queued" /\ RolledBack
  /\ UNCHANGED <<disk, journal, second, watch, events, tombs, phase, scan, moves, crashes>>

(* ... then the commit, or the folder is moved back ... *)
CommitFolder ==
  /\ job.pc = "relocated"
  /\ saved' = Null
  /\ job' = [job EXCEPT !.pc = "listed"]
  /\ UNCHANGED <<disk, db, journal, second, watch, events, tombs, phase, scan, moves,
                 crashes>>

(* Fault: the folder stays where it was moved to. *)
CommitFailsInPlace ==
  /\ job.pc = "relocated" /\ RolledBack
  /\ UNCHANGED <<disk, journal, second, watch, events, tombs, phase, scan, moves, crashes>>

CommitFolderFails ==
  /\ job.pc = "relocated" /\ RolledBack
  /\ disk' = IF \A x \in job.folder : disk[x[1]] = Absent THEN WithFolder(2, 1) ELSE disk
  /\ UNCHANGED <<journal, second, watch, events, tombs, phase, scan, moves, crashes>>

(* ... then the journal and the links of one note after the other, of which *)
(* one that cannot be read is passed over ...                              *)
JournalInFolder ==
  /\ job.pc = "listed"
  /\ \E x \in job.plans :
       /\ journal' = append_entry(journal, db.nextOp - 1, x[1], x[2])
       /\ job' = [job EXCEPT !.pc = "listing", !.to = x[2], !.plans = @ \ {x}]
  /\ UNCHANGED <<disk, db, saved, second, watch, events, tombs, phase, scan, moves,
                 crashes>>

ReextractInFolder ==
  /\ job.pc = "listing"
  /\ db' = IF disk[job.to] = Absent THEN db
           ELSE [db EXCEPT !.links =
                   replace_links_for_file(@, job.to, disk[job.to].text, TrackedPaths)]
  /\ job' = [job EXCEPT !.pc = "listed"]
  /\ UNCHANGED <<disk, saved, journal, second, watch, events, tombs, phase, scan, moves,
                 crashes>>

(* ... and the fuse. *)
FolderEnds ==
  /\ job.pc = "listed" /\ job.plans = {}
  /\ job' = [Idle EXCEPT !.pc = "flush",
               !.todo = {f \in job.todo : Cardinality(pending_for_target(f)) > Fuse}]
  /\ UNCHANGED <<disk, db, saved, journal, second, watch, events, tombs, phase, scan,
                 moves, crashes>>

-----------------------------------------------------------------------------
(* Flushes *)

flush_all_for_vault ==
  /\ Free /\ db.rows # {} /\ Allowed
  /\ job' = [Idle EXCEPT !.pc = "flush", !.prune = TRUE,
                         !.todo = {r.target : r \in db.rows}]
  /\ UNCHANGED <<disk, db, saved, journal, second, watch, events, tombs, phase,
                 scan, moves, crashes>>

(* A note that is gone, or that no row changes, is not written. *)
flush_pending_for_target(f) ==
  /\ job.pc = "flush" /\ f \in job.todo
  /\ LET dropped == [db EXCEPT !.rows = @ \ pending_for_target(f)]
     IN IF disk[f] = Absent \/ View(f) = disk[f].text
          THEN db' = dropped /\ UNCHANGED <<disk, events>>
          ELSE /\ disk' = [disk EXCEPT ![f].text = View(f), ![f].gen = @ + 1]
               /\ db' = [dropped EXCEPT !.files[f] =
                           IF @ = Absent THEN @ ELSE [@ EXCEPT !.text = View(f)]]
               /\ events' = Append(events,
                              [kind |-> "modified", from |-> f, path |-> f])
  /\ job' = [job EXCEPT !.todo = @ \ {f}]
  /\ UNCHANGED <<saved, journal, second, watch, tombs, phase, scan, moves, crashes>>

FlushEnds ==
  /\ job.pc = "flush" /\ job.todo = {}
  /\ journal' = IF job.prune THEN prune_materialized_journal(journal, db) ELSE journal
  /\ job' = Idle
  /\ UNCHANGED <<disk, db, saved, second, watch, events, tombs, phase, scan,
                 moves, crashes>>

-----------------------------------------------------------------------------
(* Other programs, and the watcher *)

MoveExternal ==
  /\ moves < MaxMoves /\ Allowed
  /\ \E m \in ExternalMoves :
       /\ disk[m[1]] # Absent
       /\ \/ /\ m[2] \in Path /\ disk[m[2]] = Absent
             /\ disk' = Relocated(m[1], m[2])
             /\ NotifyRename(m[1], m[2])
          \/ /\ m[2] = Absent
             /\ disk' = [disk EXCEPT ![m[1]] = Absent]
             /\ events' = IF Up THEN Append(events, Removed(m[1])) ELSE events
  /\ moves' = moves + 1
  /\ UNCHANGED <<db, saved, journal, second, job, watch, tombs, phase, scan, crashes>>

(* What adopt_external_rename demands of a pair. *)
Adoptable(from, to, d) ==
  /\ from # to
  /\ disk[to] # Absent /\ disk[from] = Absent
  /\ d.files[from] # Absent /\ d.files[to] = Absent

(* Under the lock, a pair that passes goes on as commit_rename. *)
adopt_external_rename(from, to) ==
  /\ job.pc = "idle"
  /\ job' = IF Adoptable(from, to, db)
               THEN [Idle EXCEPT !.pc = "moved", !.from = from, !.to = to] ELSE job

Handled == events' = Tail(events) /\ watch' = NotWatching

(* last_seen, and created_at of a row that is new, while a scan is on.     *)
Touched(P) ==
  IF phase = "open" THEN scan
  ELSE [scan EXCEPT !.seen = @ \union P, !.fresh = @ \union (P \ TrackedPaths)]

WatchEventIs(kinds) ==
  Up /\ watch.pc = "idle" /\ events # <<>> /\ Head(events).kind \in kinds

(* WatchEvent::Renamed. *)
WatchRenamed ==
  /\ WatchEventIs({"renamed"})
  /\ adopt_external_rename(Head(events).from, Head(events).path)
  /\ watch' = [NotWatching EXCEPT !.pc = "adopting"]
  /\ UNCHANGED <<disk, db, saved, journal, second, events, tombs, phase, scan, moves,
                 crashes>>

(* When it is over, the new path was seen, or else the old one. *)
RenamedEnds ==
  /\ watch.pc = "adopting" /\ watch.read = Absent /\ job.pc = "idle"
  /\ LET e == Head(events) IN
       scan' = Touched({IF watch.adopted THEN e.path ELSE e.from} \intersect TrackedPaths)
  /\ Handled
  /\ UNCHANGED <<disk, db, saved, journal, second, job, tombs, phase, moves, crashes>>

(* WatchEvent::Removed: capture_tombstone, then the row is deleted. *)
WatchRemoved ==
  /\ WatchEventIs({"removed"})
  /\ LET p == Head(events).path IN
       /\ tombs' = IF Tracked(p)
                     THEN {t \in tombs : t.path # p} \union
                            {[path |-> p, stats |-> db.files[p]]}
                     ELSE tombs
       /\ db' = delete_files(db, {p})
  /\ Handled
  /\ UNCHANGED <<disk, saved, journal, second, job, phase, scan, moves, crashes>>

(* find_rename_source: the one candidate, among rows and tombstones, that   *)
(* is gone from disk and has the inode; or else the one with the hash, if  *)
(* a tombstone has it.                                                     *)
Candidates(to, by) ==
  {p \in TrackedPaths \ {to} : key(by, db.files[p]) = key(by, disk[to])} \union
  {t.path : t \in {u \in tombs : u.path # to /\ key(by, u.stats) = key(by, disk[to])}}

find_rename_source(to) ==
  LET byInode == {p \in Candidates(to, "inode") : HasInode /\ disk[p] = Absent}
      byHash == IF \E t \in tombs : t.path # to /\ content_hash(t.stats) = content_hash(disk[to])
                  THEN Candidates(to, "hash") ELSE {}
      pool == IF byInode # {} THEN byInode ELSE byHash
  IN {p \in pool : pool = {p} /\ disk[p] = Absent}

(* try_pair_created_as_rename looks at files that have no row yet. *)
Unpaired(e) ==
  IF e.kind = "created" /\ disk[e.path] # Absent /\ ~ Tracked(e.path)
    THEN find_rename_source(e.path) ELSE {}

(* restore_row, from the tombstone of a file whose row is gone. *)
restore_row(p) ==
  IF Tracked(p) THEN db
  ELSE [db EXCEPT !.files[p] = (CHOOSE t \in tombs : t.path = p).stats]

(* A source that was found waits for the lock, its row restored; what was   *)
(* read of the file that was created waits along.                          *)
WatchCreatedPairs ==
  /\ WatchEventIs({"created"})
  /\ \E from \in Unpaired(Head(events)) :
       /\ db' = restore_row(from)
       /\ watch' = [NotWatching EXCEPT !.pc = "paired", !.from = from,
                      !.read = disk[Head(events).path], !.restored = ~ Tracked(from)]
       /\ scan' = IF Tracked(from) \/ phase = "open" THEN scan
                  ELSE [scan EXCEPT !.seen = @ \union {from}]
  /\ UNCHANGED <<disk, saved, journal, second, job, events, tombs, phase, moves, crashes>>

try_adopt_external_rename ==
  /\ watch.pc = "paired"
  /\ adopt_external_rename(watch.from, Head(events).path)
  /\ watch' = [watch EXCEPT !.pc = "adopting"]
  /\ UNCHANGED <<disk, db, saved, journal, second, events, tombs, phase, scan, moves,
                 crashes>>

(* The tombstone is spent, or the restored row goes away again. *)
PairingEnds ==
  /\ watch.pc = "adopting" /\ watch.read # Absent /\ job.pc = "idle"
  /\ tombs' = IF watch.adopted THEN {t \in tombs : t.path # watch.from} ELSE tombs
  /\ db' = IF watch.restored /\ ~ watch.adopted THEN delete_files(db, {watch.from}) ELSE db
  /\ watch' = [watch EXCEPT !.pc = "upsert"]
  /\ UNCHANGED <<disk, saved, journal, second, job, events, phase, scan, moves, crashes>>

(* upsert_file and refresh_watched_markdown of s, which was read at p: its  *)
(* links are those of the text a reader is shown.                          *)
upsert_file(p, s) ==
  /\ db' = [db EXCEPT !.files[p] = s, !.links =
               replace_links_for_file(@, p, apply_pending(s.text, pending_for_target(p)),
                                      TrackedPaths \union {p})]
  /\ scan' = Touched({p})

(* The file that was created goes the way of a modified one, as it was read *)
(* before the lock was had.                                                *)
UpsertPaired ==
  /\ watch.pc = "upsert"
  /\ upsert_file(Head(events).path, watch.read)
  /\ Handled
  /\ UNCHANGED <<disk, saved, journal, second, job, tombs, phase, moves, crashes>>

(* WatchEvent::Created or Modified.  A file that is gone is left alone.    *)
WatchFile ==
  /\ WatchEventIs({"created", "modified"})
  /\ LET p == Head(events).path
     IN /\ Unpaired(Head(events)) = {}
        /\ IF disk[p] = Absent THEN UNCHANGED <<db, scan>> ELSE upsert_file(p, disk[p])
  /\ Handled
  /\ UNCHANGED <<disk, saved, journal, second, job, tombs, phase, moves, crashes>>

(* So is one that cannot be read. *)
WatchSkips ==
  /\ "unreadable" \in Outside
  /\ WatchEventIs({"created", "modified"})
  /\ Handled
  /\ UNCHANGED <<disk, db, saved, journal, second, job, tombs, phase, scan, moves, crashes>>

(* TOMBSTONE_TTL passes: two seconds, longer than a batch takes. *)
prune_expired ==
  /\ events = <<>> /\ tombs # {}
  /\ tombs' = {}
  /\ UNCHANGED <<disk, db, saved, journal, second, job, watch, events, phase, scan,
                 moves, crashes>>

-----------------------------------------------------------------------------
(* Opening the vault: scan, then replay *)

(* The walk runs inside one transaction (SCAN_BATCH_SIZE files at a time). *)
open_vault ==
  /\ phase = "closed"
  /\ phase' = "walk" /\ saved' = db
  /\ scan' = [NoScan EXCEPT !.paths = Path]
  /\ UNCHANGED <<disk, db, journal, second, job, watch, events, tombs, moves, crashes>>

ScanFile(p) ==
  /\ phase = "walk" /\ p \in scan.paths
  /\ IF disk[p] = Absent
       THEN scan' = [scan EXCEPT !.paths = @ \ {p}] /\ UNCHANGED db
       ELSE /\ db' = [db EXCEPT !.files[p] = disk[p]]
            /\ scan' = [Touched({p}) EXCEPT !.paths = @ \ {p},
                          !.found = @ \union {[src |-> p, text |-> View(p)]}]
  /\ UNCHANGED <<disk, saved, journal, second, job, watch, events, tombs, phase,
                 moves, crashes>>

(* A file whose metadata or text cannot be read is skipped: its row keeps   *)
(* its last_seen, by which it is swept, and its links go with it.          *)
ScanSkips(p) ==
  /\ "unreadable" \in Outside
  /\ phase = "walk" /\ p \in scan.paths /\ disk[p] # Absent
  /\ scan' = [scan EXCEPT !.paths = @ \ {p}]
  /\ UNCHANGED <<disk, db, saved, journal, second, job, watch, events, tombs, phase,
                 moves, crashes>>

(* Fault: the walk's transaction is left open. *)
WalkEndsUncommitted ==
  /\ phase = "walk" /\ scan.paths = {}
  /\ phase' = "sweep"
  /\ UNCHANGED <<disk, db, saved, journal, second, job, watch, events, tombs, scan, moves,
                 crashes>>

WalkEnds ==
  /\ phase = "walk" /\ scan.paths = {}
  /\ phase' = "sweep" /\ saved' = Null
  /\ UNCHANGED <<disk, db, journal, second, job, watch, events, tombs, scan, moves,
                 crashes>>

(* collect_vanished, and DELETE FROM files WHERE last_seen < the start. *)
Sweep ==
  /\ phase = "sweep" /\ ~ InTransaction
  /\ LET gone == TrackedPaths \ scan.seen IN
       /\ db' = delete_files(db, gone)
       /\ scan' = [scan EXCEPT !.paths = TrackedPaths \ gone,
             !.gone = {[path |-> p, stats |-> db.files[p]] : p \in gone}]
  /\ phase' = "links" /\ saved' = db'
  /\ UNCHANGED <<disk, journal, second, job, watch, events, tombs, moves, crashes>>

(* A folder's transaction refuses the next one of the scan, which ends there *)
(* with an error: what vanished is forgotten, and nothing is replayed.     *)
ScanFails ==
  /\ phase = "sweep" /\ InTransaction
  /\ db' = delete_files(db, TrackedPaths \ scan.seen)
  /\ phase' = "open" /\ scan' = NoScan
  /\ UNCHANGED <<disk, saved, journal, second, job, watch, events, tombs, moves, crashes>>

(* The links found on the walk, resolved against the paths now known. *)
WriteLinks ==
  /\ phase = "links"
  /\ LET written == {f \in scan.found : Tracked(f.src)} IN
       db' = [db EXCEPT !.links =
                {l \in @ : \A f \in scan.found : f.src # l.src} \union
                UNION {link_rows(f.src, f.text, scan.paths) : f \in written}]
  /\ phase' = "pair" /\ saved' = Null
  /\ UNCHANGED <<disk, journal, second, job, watch, events, tombs, scan, moves, crashes>>

(* pair_vanished_after_scan: a file that vanished and one that appeared are *)
(* the same note when an inode, or else a hash, is theirs alone.           *)
appeared_since == {[path |-> p, stats |-> db.files[p]] : p \in scan.fresh \intersect TrackedPaths}
surviving_hashes == {content_hash(db.files[p]) : p \in TrackedPaths \ scan.fresh}

(* Fault: one of several files that vanished is taken for the one that came. *)
AlikeOneWay(by) ==
  {x \in scan.gone \X appeared_since :
     /\ key(by, x[1].stats) = key(by, x[2].stats)
     /\ {b \in appeared_since : key(by, b.stats) = key(by, x[1].stats)} = {x[2]}}

Alike(by) ==
  {x \in scan.gone \X appeared_since :
     /\ {h \in scan.gone : key(by, h.stats) = key(by, x[2].stats)} = {x[1]}
     /\ {b \in appeared_since : key(by, b.stats) = key(by, x[1].stats)} = {x[2]}}

pair_vanished_after_scan ==
  LET byInode == {x \in Alike("inode") : HasInode}
      byHash == {x \in Alike("hash") :
                   /\ \A y \in byInode : y[1] # x[1] /\ y[2] # x[2]
                   /\ content_hash(x[2].stats) \notin surviving_hashes}
  IN {<<x[1].path, x[2].path>> : x \in {y \in byInode \union byHash : disk[y[1].path] = Absent}}

journal_renames_found_by_scan ==
  /\ phase = "pair"
  /\ journal' = journal \o SetToSeq({[op |-> 0, from |-> x[1], to |-> x[2]] :
                                       x \in pair_vanished_after_scan})
  /\ phase' = "replay"
  /\ UNCHANGED <<disk, db, saved, second, job, watch, events, tombs, scan, moves, crashes>>

replay_rename_journal ==
  /\ phase = "replay" /\ Free
  /\ job' = [Idle EXCEPT !.pc = "replay", !.n = 1]
  /\ UNCHANGED <<disk, db, saved, journal, second, watch, events, tombs, phase, scan,
                 moves, crashes>>

(* One entry, in a transaction of its own. *)
ReplayEntry ==
  /\ job.pc = "replay" /\ job.n <= Len(journal)
  /\ LET e == journal[job.n]
         L == broken_referrers_naming(db.links, e.from)
     IN db' = IF Tracked(e.from) \/ ~ Tracked(e.to) \/ L = {} THEN db
              ELSE [db EXCEPT
                !.links = reconnect_broken_links_to(@, {<<e.from, e.to>>}),
                !.rows = enqueue_coalesced(@, rewrites_for(L, e.from, e.to), second, db.nextOp),
                !.nextOp = @ + 1]
  /\ job' = [job EXCEPT !.n = @ + 1]
  /\ UNCHANGED <<disk, saved, journal, second, watch, events, tombs, phase, scan,
                 moves, crashes>>

ReplayEnds ==
  /\ job.pc = "replay" /\ job.n > Len(journal)
  /\ journal' = prune_materialized_journal(journal, db)
  /\ job' = Idle /\ phase' = "open" /\ scan' = NoScan
  /\ UNCHANGED <<disk, db, saved, second, watch, events, tombs, moves, crashes>>

-----------------------------------------------------------------------------
(* Closing *)

Closed ==
  /\ crashes < MaxCrashes
  /\ "crash" \in Outside \/ Quiet
  /\ phase' = "closed" /\ saved' = Null
  /\ job' = Idle /\ watch' = NotWatching /\ events' = <<>> /\ tombs' = {}
  /\ scan' = NoScan
  /\ crashes' = crashes + 1
  /\ UNCHANGED <<disk, journal, second, moves>>

(* A transaction that is open is rolled back.  Tombstones are lost with the *)
(* program, and with them the rename whose creation is still to be handled: *)
(* an instance that is not hasty does not crash between the two.            *)
Crash ==
  /\ Up
  /\ Hasty \/ tombs = {}
  /\ db' = IF InTransaction THEN saved ELSE db
  /\ Closed

(* close_vault has flushed, and cancels a scan that is writing, which commits *)
(* what it has; a scan past its transactions runs to its end.              *)
close_vault ==
  /\ "close" \in Outside
  /\ phase \in {"walk", "links", "open"} /\ Free /\ db.rows = {}
  /\ UNCHANGED db
  /\ Closed

(* The index is derived state: anyone may delete it while it is not in use. *)
Blank == [files |-> [p \in Path |-> Absent], links |-> {}, rows |-> {}, nextOp |-> 1]

WipeIndex ==
  /\ "wipe" \in Outside
  /\ phase = "closed" /\ db # Blank
  /\ db' = Blank
  /\ UNCHANGED <<disk, saved, journal, second, job, watch, events, tombs, phase, scan,
                 moves, crashes>>

Tick ==
  /\ second < MaxSecond
  /\ second' = second + 1
  /\ UNCHANGED <<disk, db, saved, journal, job, watch, events, tombs, phase, scan,
                 moves, crashes>>

FolderRename == rename_folder \/ QueueFolder \/ FolderRefused \/ MoveFolder
  \/ MoveFolderFails \/ CommitFolder \/ CommitFolderFails \/ JournalInFolder
  \/ ReextractInFolder \/ FolderEnds
Rename == rename_file \/ MoveFile \/ MoveFails \/ commit_rename \/ CommitFails
          \/ JournalRename \/ Reextract
Flush == flush_all_for_vault \/ FlushEnds \/ \E f \in Path : flush_pending_for_target(f)
Watcher == WatchRenamed \/ RenamedEnds \/ WatchRemoved \/ WatchCreatedPairs
           \/ try_adopt_external_rename \/ PairingEnds \/ UpsertPaired \/ WatchFile \/ WatchSkips
           \/ prune_expired
Scan == open_vault \/ (\E p \in Path : ScanFile(p) \/ ScanSkips(p)) \/ WalkEnds \/ Sweep \/ ScanFails \/ WriteLinks
        \/ journal_renames_found_by_scan \/ replay_rename_journal \/ ReplayEntry \/ ReplayEnds

Next == Rename \/ FolderRename \/ Flush \/ Watcher \/ Scan \/ MoveExternal \/ Crash \/ close_vault
        \/ WipeIndex \/ Tick

Spec == Init /\ [][Next]_vars

-----------------------------------------------------------------------------
(* Types. *)
TypeOK ==
  /\ disk \in [Path -> Stored]
  /\ db.files \in [Path -> Stored] /\ db.links \subseteq Link
  /\ db.rows \subseteq Row /\ db.nextOp \in Nat \ {0}
  /\ journal \in Seq(Entry) /\ second \in 0 .. MaxSecond
  /\ job.pc \in {"idle", "checked", "moved", "committed", "journaled", "flush", "replay",
                 "planned", "queued", "relocated", "listed", "listing"}
  /\ job.todo \subseteq Path
  /\ phase \in {"closed", "walk", "sweep", "links", "pair", "replay", "open"}
  /\ (saved # Null) = InTransaction

-----------------------------------------------------------------------------
(* Nothing is in progress and every event has been handled. *)
Settled == phase = "open" /\ Quiet

(* The notes a text leads to from the point of view of its reader. *)
LeadsTo(text, D, F) == {D[resolve(k, F)].id : k \in {x \in text : resolve(x, F) # Null}}

(* The notes that links led to at the start. *)
LedTo(n) ==
  LET origin == {q \in Path : InitText[q] # Absent}
  IN LeadsTo(InitText[n], [q \in origin |-> InitNote(q)], origin)

(* Every link leads to the note it led to at the start, wherever that note  *)
(* has been moved, whoever moved it, whatever happened on the way.  A       *)
(* referrer a scan could not read has no links in the index, and the next   *)
(* rename misses it: this is of vaults whose files can be read.            *)
LinksFollow ==
  Settled => \A p \in OnDisk : LeadsTo(View(p), disk, OnDisk) = LedTo(disk[p].id)

(* At no time does a link lead to another note than it led to at the start: *)
(* where a rename cannot be told for sure its links are left alone.        *)
NeverMisled ==
  \A p \in OnDisk : LeadsTo(View(p), disk, OnDisk) \subseteq LedTo(disk[p].id)

(* What keeps a link from being taken for another note's: O says whose each   *)
(* path is, so that a name is of one note's paths only, at the start no link  *)
(* names another note than it leads to, no two notes are copies, and a note   *)
(* moves between its own paths.                                            *)
NoneCompete(O) ==
  /\ \A p, q \in Path :
       {Title[p], Stem[p]} \intersect {Title[q], Stem[q]} # {} => O[p] = O[q]
  /\ \A p \in {o \in Path : InitText[o] # Absent} :
       /\ O[p] = p
       /\ \A k \in InitText[p], q \in Path : token_names_file(k, q) => O[q] \in LedTo(p)
       /\ \A q \in Path : InitText[q] # Absent /\ Body[p] = Body[q] => p = q
  /\ \A m \in Moves \union ExternalMoves \union UNION FolderMoves :
       m[2] \in Path => O[m[1]] = O[m[2]]

(* The index has a row for each file and no others, and its links lead      *)
(* where a reader's do: backlinks agree with the notes.  This too is of     *)
(* vaults whose files can be read: a scan sweeps the row of one that cannot. *)
IndexAgrees ==
  Settled =>
    /\ TrackedPaths = OnDisk
    /\ \A p \in OnDisk :
         {l.target : l \in {x \in db.links : x.src = p}} =
         {resolve(k, OnDisk) : k \in View(p)}

(* Coalescing: one rewrite per token of a note, and none that changes        *)
(* nothing, also when rows follow a note to a path that had rows.          *)
OneRowPerToken ==
  \A r, s \in db.rows :
    /\ r.old # r.new
    /\ r.target = s.target /\ r.old = s.old => r = s

=============================================================================
