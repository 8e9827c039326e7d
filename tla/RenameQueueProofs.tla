-------------------------- MODULE RenameQueueProofs --------------------------
(***************************************************************************)
(* Two facts for any notes, names and renames: the queue keeps one rewrite  *)
(* per token, and every part of the state holds what it is declared to hold.*)
(* The types rest on the queue: a note has finitely many rows because it has*)
(* one per token, and only finitely many can be applied one after the other.*)
(* A third for notes that do not compete: no link leads to another note than*)
(* it led to, since whatever is kept under a path is one note's.           *)
(***************************************************************************)
EXTENDS RenameQueue, PendingRewritesProofs, TLAPS

OneRow(R) ==
  \A r, s \in R : /\ r.old # r.new
                  /\ r.target = s.target /\ r.old = s.old => r = s

IsIndex(d) == DOMAIN d = {"files", "links", "rows", "nextOp"}

QueueKept(d) == IsIndex(d) /\ OneRow(d.rows)

(* The index as it is and the one a transaction would be rolled back to. *)
RowsInv ==
  /\ QueueKept(db)
  /\ InTransaction => QueueKept(saved)

(* A transaction is the scan's or a folder's; a closed vault has neither a  *)
(* job nor a watcher; a planned folder moves along one of its renames.     *)
TurnInv ==
  /\ phase \in {"walk", "links"} => job.pc \notin {"queued", "relocated"}
  /\ phase = "closed" => job.pc = "idle" /\ watch.pc = "idle"
  /\ job.pc = "planned" => \E m \in FolderMoves : job.plans \subseteq m
  /\ DOMAIN job = DOMAIN Idle /\ DOMAIN watch = DOMAIN NotWatching

QueueInv == RowsInv /\ TurnInv

-----------------------------------------------------------------------------
(* What is done to the rows. *)

LEMMA EnqueueKeeps ==
  ASSUME NEW R, NEW E, NEW at, NEW op, OneRow(R)
  PROVE  OneRow(enqueue_coalesced(R, E, at, op))
<1>1. \A r \in coalesced(R, E, at, op) : <<r.target, r.old>> \in Tokens(E)
  BY DEF coalesced, Tokens
<1>2. \A r, s \in coalesced(R, E, at, op) :
        r.target = s.target /\ r.old = s.old => r = s
  BY DEF coalesced, Tokens
<1>3. \A r \in untouched(R, E) : r \in R /\ <<r.target, r.old>> \notin Tokens(E)
  BY DEF untouched
<1> QED BY <1>1, <1>2, <1>3 DEF enqueue_coalesced, OneRow

(* No two pairs of M lead to one path. *)
Injective(M) == \A x, y \in M : x[2] = y[2] => x = y

LEMMA RekeyKeeps ==
  ASSUME NEW R, NEW M, OneRow(R), Injective(M)
  PROVE  OneRow(rekey_rows(R, M))
<1> DEFINE Kept == {s \in R : \A m \in M : s.target # m[2]}
           Rekeyed(r) == [id |-> r.id, target |-> Moved(r.target, M), old |-> r.old,
                      new |-> r.new, at |-> r.at, op |-> r.op]
<1>1. \A p, q : /\ \A m \in M : p # m[2] /\ q # m[2]
                /\ Moved(p, M) = Moved(q, M)
                => p = q
  BY DEF Moved, Injective
<1>2. \A r, s \in Kept : Rekeyed(r).target = Rekeyed(s).target /\ Rekeyed(r).old = Rekeyed(s).old => r = s
  BY <1>1 DEF OneRow
<1>3. rekey_rows(R, M) = {Rekeyed(r) : r \in Kept}
  BY DEF rekey_rows
<1>4. \A r \in Kept : Rekeyed(r).old # Rekeyed(r).new
  BY DEF OneRow
<1> QED BY <1>2, <1>3, <1>4 DEF OneRow

LEMMA RekeyFileKeeps ==
  ASSUME NEW d, NEW M, QueueKept(d), Injective(M)
  PROVE  QueueKept(rekey_file_in_tx(d, M))
BY RekeyKeeps DEF rekey_file_in_tx, QueueKept, IsIndex

LEMMA FewerRows ==
  ASSUME NEW R, NEW S, OneRow(R), S \subseteq R
  PROVE  OneRow(S)
BY DEF OneRow

-----------------------------------------------------------------------------
(* The queue of the index, and of the index a transaction would go back to,   *)
(* is kept by every step, also across crashes.                                *)
THEOREM QueueKeeps == Spec => []QueueInv
<1>1. Init => QueueInv
  BY DEF Init, QueueInv, RowsInv, TurnInv, QueueKept, IsIndex, OneRow, InTransaction,
         Idle, NotWatching
<1>2. QueueInv /\ [Next]_vars => QueueInv'
  <2> SUFFICES ASSUME QueueInv, [Next]_vars PROVE QueueInv'
    OBVIOUS
  <2> USE DEF QueueInv, RowsInv, TurnInv, InTransaction, Free, Up, Idle, NotWatching
  <2>1. CASE UNCHANGED vars
    BY <2>1 DEF vars
  <2>2. CASE rename_file
    BY <2>2 DEF rename_file
  <2>3. CASE MoveFile
    BY <2>3 DEF MoveFile
  <2>4. CASE MoveFails
    BY <2>4 DEF MoveFails
  <2>5. CASE commit_rename
    <3> DEFINE M == {<<job.from, job.to>>}
               E == rewrites_for(collect_referrers(db, job.from), job.from, job.to)
               rows == enqueue_coalesced(db.rows, E, second, db.nextOp)
               queued == [db EXCEPT !.rows = rows, !.nextOp = @ + 1]
    <3>1. OneRow(rows)
      BY EnqueueKeeps DEF QueueKept
    <3>2. QueueKept(queued)
      <4> HIDE DEF rows
      <4> QED BY <3>1 DEF QueueKept, IsIndex
    <3>3. QueueKept(rekey_file_in_tx(queued, M))
      <4> HIDE DEF queued
      <4> QED BY <3>2, RekeyFileKeeps DEF Injective
    <3>4. db' = rekey_file_in_tx(queued, M)
      BY <2>5 DEF commit_rename
    <3>5. QueueKept(db)'
      <4> HIDE DEF queued, M
      <4> QED BY <3>3, <3>4 DEF QueueKept, IsIndex
    <3>6. /\ UNCHANGED <<saved, phase>> /\ job.pc = "moved"
          /\ \E todo : job' = [job EXCEPT !.pc = "committed", !.todo = todo]
          /\ \E to : watch' = [watch EXCEPT !.adopted = to]
      BY <2>5 DEF commit_rename
    <3>7. ~ InTransaction
      BY <2>5 DEF commit_rename
    <3> QED BY <3>5, <3>6, <3>7 DEF QueueKept
  <2>6. CASE CommitFails
    BY <2>6 DEF CommitFails, QueueKept, IsIndex
  <2>7. CASE JournalRename
    BY <2>7 DEF JournalRename
  <2>8. CASE Reextract
    <3>1. QueueKept(db)'
      BY <2>8 DEF Reextract, QueueKept, IsIndex
    <3>2. /\ UNCHANGED <<saved, phase>> /\ job.pc = "journaled"
          /\ \/ job' = Idle
             \/ \E todo : job' = [job EXCEPT !.pc = "flush", !.todo = todo]
          /\ watch' = watch \/ watch' = [watch EXCEPT !.adopted = FALSE]
      BY <2>8 DEF Reextract
    <3>3. /\ DOMAIN watch' = DOMAIN NotWatching /\ watch'.pc = watch.pc
          /\ DOMAIN job' = DOMAIN Idle /\ job'.pc \in {"idle", "flush"}
      <4>1. DOMAIN watch' = DOMAIN NotWatching /\ watch'.pc = watch.pc
        BY <3>2
      <4>2. CASE job' = Idle
        BY <4>1, <4>2
      <4>3. CASE \E todo : job' = [job EXCEPT !.pc = "flush", !.todo = todo]
        BY <4>1, <4>3
      <4> QED BY <3>2, <4>2, <4>3
    <3> HIDE DEF Idle, NotWatching
    <3> QED BY <3>1, <3>2, <3>3 DEF QueueKept
  <2>9. CASE rename_folder
    BY <2>9 DEF rename_folder
  <2>10. CASE QueueFolder
    <3>1. Injective(job.plans)
      BY <2>10, FolderAssumption DEF QueueFolder, Injective
    <3>2. QueueKept(saved') /\ IsIndex(db)
      BY <2>10 DEF QueueFolder, QueueKept, IsIndex
    <3>3. QueueKept(rekey_file_in_tx(saved', job.plans))
      BY <3>1, <3>2, RekeyFileKeeps
    <3> QED BY <2>10, <3>2, <3>3, EnqueueKeeps DEF QueueFolder, QueueKept, IsIndex
  <2>11. CASE FolderRefused
    BY <2>11 DEF FolderRefused, QueueKept, IsIndex
  <2>12. CASE MoveFolder
    BY <2>12 DEF MoveFolder
  <2>13. CASE MoveFolderFails
    BY <2>13 DEF MoveFolderFails, RolledBack
  <2>14. CASE CommitFolder
    BY <2>14 DEF CommitFolder
  <2>15. CASE CommitFolderFails
    BY <2>15 DEF CommitFolderFails, RolledBack
  <2>16. CASE JournalInFolder
    BY <2>16 DEF JournalInFolder
  <2>17. CASE ReextractInFolder
    BY <2>17 DEF ReextractInFolder, QueueKept, IsIndex
  <2>18. CASE FolderEnds
    BY <2>18 DEF FolderEnds
  <2>19. CASE flush_all_for_vault
    BY <2>19 DEF flush_all_for_vault
  <2>20. CASE FlushEnds
    BY <2>20 DEF FlushEnds
  <2>21. CASE WatchRenamed
    BY <2>21 DEF WatchRenamed, WatchEventIs, adopt_external_rename
  <2>22. CASE RenamedEnds
    BY <2>22 DEF RenamedEnds, Handled
  <2>23. CASE WatchRemoved
    BY <2>23 DEF WatchRemoved, Handled, WatchEventIs, delete_files, QueueKept, IsIndex
  <2>24. CASE WatchCreatedPairs
    BY <2>24 DEF WatchCreatedPairs, WatchEventIs, restore_row, QueueKept, IsIndex
  <2>25. CASE try_adopt_external_rename
    BY <2>25 DEF try_adopt_external_rename, adopt_external_rename
  <2>26. CASE PairingEnds
    BY <2>26 DEF PairingEnds, delete_files, QueueKept, IsIndex
  <2>27. CASE WatchFile \/ UpsertPaired \/ WatchSkips
    BY <2>27 DEF WatchFile, UpsertPaired, WatchSkips, upsert_file, Handled, WatchEventIs,
                 QueueKept, IsIndex
  <2>28. CASE prune_expired
    BY <2>28 DEF prune_expired
  <2>29. CASE open_vault
    BY <2>29 DEF open_vault
  <2>30. CASE WalkEnds
    BY <2>30 DEF WalkEnds
  <2>31. CASE Sweep
    BY <2>31 DEF Sweep, delete_files, QueueKept, IsIndex
  <2>32. CASE ScanFails
    BY <2>32 DEF ScanFails, delete_files, QueueKept, IsIndex
  <2>33. CASE WriteLinks
    BY <2>33 DEF WriteLinks, QueueKept, IsIndex
  <2>34. CASE journal_renames_found_by_scan
    BY <2>34 DEF journal_renames_found_by_scan
  <2>35. CASE replay_rename_journal
    BY <2>35 DEF replay_rename_journal
  <2>36. CASE ReplayEntry
    BY <2>36, EnqueueKeeps DEF ReplayEntry, QueueKept, IsIndex
  <2>37. CASE ReplayEnds
    BY <2>37 DEF ReplayEnds
  <2>38. CASE MoveExternal
    BY <2>38 DEF MoveExternal
  <2>39. CASE Crash
    BY <2>39 DEF Crash, Closed
  <2>40. CASE close_vault
    BY <2>40 DEF close_vault, Closed
  <2>41. CASE WipeIndex
    BY <2>41 DEF WipeIndex, Blank, QueueKept, IsIndex, OneRow
  <2>42. CASE Tick
    BY <2>42 DEF Tick
  <2>43. ASSUME NEW f \in Path, flush_pending_for_target(f) PROVE QueueInv'
    <3>1. OneRow(db.rows \ pending_for_target(f))
      BY FewerRows DEF QueueKept
    <3>2. IsIndex(db)' /\ db'.rows = db.rows \ pending_for_target(f)
      BY <2>43 DEF flush_pending_for_target, QueueKept, IsIndex
    <3>3. /\ UNCHANGED <<saved, watch, phase>> /\ job.pc = "flush"
          /\ job' = [job EXCEPT !.todo = @ \ {f}]
      BY <2>43 DEF flush_pending_for_target
    <3> QED BY <3>1, <3>2, <3>3 DEF QueueKept
  <2>44. ASSUME NEW p \in Path, ScanFile(p) \/ ScanSkips(p) PROVE QueueInv'
    BY <2>44 DEF ScanFile, ScanSkips, QueueKept, IsIndex
    <2> QED BY <2>1, <2>2, <2>3, <2>4, <2>5, <2>6, <2>7, <2>8, <2>9, <2>10,
             <2>11, <2>12, <2>13, <2>14, <2>15, <2>16, <2>17, <2>18, <2>19,
             <2>20, <2>21, <2>22, <2>23, <2>24, <2>25, <2>26, <2>27, <2>28,
             <2>29, <2>30, <2>31, <2>32, <2>33, <2>34, <2>35, <2>36, <2>37,
             <2>38, <2>39, <2>40, <2>41, <2>42, <2>43, <2>44 DEF Next, Rename,
             FolderRename, Flush, Watcher, Scan
<1> QED BY <1>1, <1>2, PTL DEF Spec

(* One rewrite per token of a note, and none that changes nothing, whatever    *)
(* is renamed, by whom and when, also across crashes and transactions that    *)
(* are rolled back.                                                           *)
THEOREM OneRewritePerToken == Spec => []OneRowPerToken
<1>1. QueueInv => OneRowPerToken
  BY DEF QueueInv, RowsInv, QueueKept, OneRow, OneRowPerToken
<1> QED BY <1>1, QueueKeeps, PTL

-------------------------------------------------------------------------------
(* What the operators give *)

Event == [kind : {"removed", "created", "renamed", "modified"}, from : Path, path : Path]
Tombstone == [path : Path, stats : Note]
Found == [src : Path, text : SUBSET Token]
Edit == [target : Path, old : Token, new : Token]

LEMMA NamesTyped ==
  ASSUME NEW p \in Path
  PROVE  Title[p] \in Token /\ Stem[p] \in Token
BY NameAssumption

(* A name leads to a note or nowhere.                                       *)
LEMMA ResolveTyped ==
  ASSUME NEW k, NEW F \in SUBSET Path
  PROVE  resolve(k, F) \in Path \union {Null}
<1>1. CASE \E p \in F : Stem[p] = k
  <2>1. (CHOOSE p \in F : Stem[p] = k) \in F
    BY <1>1
  <2> QED BY <1>1, <2>1 DEF resolve
<1>2. CASE ~ \E p \in F : Stem[p] = k
  <2>1. ASSUME \E p \in F : {q \in F : Title[q] = k} = {p}
        PROVE  (CHOOSE p \in F : Title[p] = k) \in F
    <3>1. \E p \in F : Title[p] = k
      BY <2>1
    <3> QED BY <3>1
  <2> QED BY <1>2, <2>1 DEF resolve
<1> QED BY <1>1, <1>2

(* The links of a note are links.                                           *)
LEMMA LinkRowsTyped ==
  ASSUME NEW src \in Path, NEW text \in SUBSET Token, NEW F \in SUBSET Path
  PROVE  link_rows(src, text, F) \in SUBSET Link
BY ResolveTyped DEF link_rows, Link

LEMMA ReplaceTyped ==
  ASSUME NEW L \in SUBSET Link, NEW src \in Path, NEW text \in SUBSET Token,
         NEW F \in SUBSET Path
  PROVE  replace_links_for_file(L, src, text, F) \in SUBSET Link
BY LinkRowsTyped DEF replace_links_for_file

(* An index and what becomes of it.                                         *)
LEMMA IndexIs ==
  ASSUME NEW d
  PROVE  d \in Index <=>
           /\ d = [files |-> d.files, links |-> d.links, rows |-> d.rows, nextOp |-> d.nextOp]
           /\ d.files \in [Path -> Stored] /\ d.links \in SUBSET Link
           /\ d.rows \in SUBSET Row /\ d.nextOp \in Nat \ {0}
BY DEF Index

LEMMA IndexPut ==
  ASSUME NEW d \in Index
  PROVE  /\ \A F \in [Path -> Stored] : [d EXCEPT !.files = F] \in Index
         /\ \A p \in Path : \A s \in Stored : [d EXCEPT !.files[p] = s] \in Index
         /\ \A L \in SUBSET Link : [d EXCEPT !.links = L] \in Index
         /\ \A R \in SUBSET Row : [d EXCEPT !.rows = R] \in Index
         /\ [d EXCEPT !.nextOp = @ + 1] \in Index
BY DEF Index

(* An index is one still without some files and the links they contain.     *)
LEMMA DeleteTyped ==
  ASSUME NEW d \in Index, NEW P
  PROVE  delete_files(d, P) \in Index
<1>1. PICK F : F = [p \in Path |-> IF p \in P THEN Absent ELSE d.files[p]]
  OBVIOUS
<1>2. F \in [Path -> Stored]
  BY <1>1 DEF Index, Stored
<1>3. PICK L : L = {l \in d.links : l.src \notin P}
  OBVIOUS
<1>4. L \in SUBSET Link
  BY <1>3 DEF Index
<1>5. delete_files(d, P) = [[d EXCEPT !.files = F] EXCEPT !.links = L]
  BY <1>1, <1>3 DEF delete_files, Index
<1>6. [d EXCEPT !.files = F] \in Index
  BY <1>2, IndexPut
<1> QED BY <1>4, <1>5, <1>6, IndexPut

(* Edits of tokens become rows.                                             *)
LEMMA RewritesTyped ==
  ASSUME NEW L \in SUBSET Link, NEW from, NEW to \in Path
  PROVE  rewrites_for(L, from, to) \in SUBSET Edit
BY NamesTyped DEF rewrites_for, Edit, Link, derive_wikilink_new_token

LEMMA EnqueueTyped ==
  ASSUME NEW R \in SUBSET Row, NEW E \in SUBSET Edit, NEW at \in Nat, NEW op \in Nat
  PROVE  enqueue_coalesced(R, E, at, op) \in SUBSET Row
<1>1. untouched(R, E) \in SUBSET Row
  BY DEF untouched
<1>2. ASSUME NEW k \in Tokens(E)
      PROVE  /\ k[1] \in Path /\ k[2] \in Token
             /\ (CHOOSE e \in E : <<e.target, e.old>> = k).new \in Token
             /\ (IF {r \in R : <<r.target, r.old>> = k} = {} THEN op
                 ELSE (CHOOSE r \in {r \in R : <<r.target, r.old>> = k} : TRUE).id) \in Nat
  <2>1. PICK e \in E : k = <<e.target, e.old>>
    BY <1>2 DEF Tokens
  <2>2. (CHOOSE x \in E : <<x.target, x.old>> = k) \in E
    BY <2>1
  <2>3. ASSUME {r \in R : <<r.target, r.old>> = k} # {}
        PROVE  (CHOOSE r \in {r \in R : <<r.target, r.old>> = k} : TRUE) \in R
    BY <2>3
  <2> QED BY <2>1, <2>2, <2>3 DEF Edit, Row
<1>3. coalesced(R, E, at, op) \in SUBSET Row
  BY <1>2 DEF coalesced, Row
<1> QED BY <1>1, <1>3 DEF enqueue_coalesced

Pairs == SUBSET (Path \X Path)

(* A path that moves is a path, and everything keyed by it goes along.      *)
LEMMA MovedTyped ==
  ASSUME NEW M \in Pairs
  PROVE  /\ \A p \in Path : Moved(p, M) \in Path
         /\ \A p \in Path \union {Null} : Moved(p, M) \in Path \union {Null}
<1>1. \A p : (\E m \in M : m[1] = p) => (CHOOSE m \in M : m[1] = p) \in M
  OBVIOUS
<1> QED BY <1>1 DEF Moved, Pairs

LEMMA ReconnectTyped ==
  ASSUME NEW L \in SUBSET Link, NEW M \in Pairs
  PROVE  reconnect_broken_links_to(L, M) \in SUBSET Link
<1>1. ASSUME NEW l \in L, NEW N \in SUBSET M, N # {}
      PROVE  [l EXCEPT !.target = (CHOOSE m \in N : TRUE)[2]] \in Link
  <2>1. (CHOOSE m \in N : TRUE) \in M
    BY <1>1
  <2>2. PICK t : t = (CHOOSE m \in N : TRUE)[2]
    OBVIOUS
  <2>3. t \in Path
    BY <2>1, <2>2 DEF Pairs
  <2> QED BY <2>2, <2>3 DEF Link
<1> QED BY <1>1 DEF reconnect_broken_links_to

LEMMA RekeyTyped ==
  ASSUME NEW d \in Index, NEW M \in Pairs
  PROVE  rekey_file_in_tx(d, M) \in Index
<1>1. rekey_files(d.files, M) \in [Path -> Stored]
  <2> DEFINE F == d.files
             Here == {m \in M : F[m[1]] # Absent}
  <2>1. ASSUME NEW p \in Path, \E m \in Here : m[2] = p
        PROVE  F[(CHOOSE m \in Here : m[2] = p)[1]] \in Stored
    <3>1. (CHOOSE m \in Here : m[2] = p) \in M
      BY <2>1
    <3>2. (CHOOSE m \in Here : m[2] = p)[1] \in Path
      BY <3>1 DEF Pairs
    <3> QED BY <3>2 DEF Index
  <2>2. \A p \in Path : F[p] \in Stored
    BY DEF Index
  <2>3. Absent \in Stored
    BY DEF Stored
  <2> QED BY <2>1, <2>2, <2>3 DEF rekey_files
<1>2. rekey_links(d.links, M) \in SUBSET Link
  <2>1. ASSUME NEW l \in d.links
        PROVE  [l EXCEPT !.src = Moved(@, M), !.target = Moved(@, M)] \in Link
    <3>1. l \in Link
      BY DEF Index
    <3>2. PICK s : s = Moved(l.src, M)
      OBVIOUS
    <3>3. PICK t : t = Moved(l.target, M)
      OBVIOUS
    <3>4. s \in Path /\ t \in Path \union {Null}
      BY <3>1, <3>2, <3>3, MovedTyped DEF Link
    <3>5. [l EXCEPT !.src = s, !.target = t] \in Link
      BY <3>1, <3>4 DEF Link
    <3> QED BY <3>1, <3>2, <3>3, <3>5 DEF Link
  <2>2. {[l EXCEPT !.src = Moved(@, M), !.target = Moved(@, M)] : l \in d.links} \in SUBSET Link
    BY <2>1
  <2> QED BY <2>2, ReconnectTyped DEF rekey_links
<1>3. rekey_rows(d.rows, M) \in SUBSET Row
  BY MovedTyped DEF rekey_rows, Row, Index
<1>4. PICK F, L, R : /\ F = rekey_files(d.files, M) /\ L = rekey_links(d.links, M)
                     /\ R = rekey_rows(d.rows, M)
  OBVIOUS
<1>5. rekey_file_in_tx(d, M) = [files |-> F, links |-> L, rows |-> R, nextOp |-> d.nextOp]
  <2>1. PICK i, l, r, n : /\ d = [files |-> i, links |-> l, rows |-> r, nextOp |-> n]
                          /\ n = d.nextOp
    BY IndexIs
  <2>2. rekey_file_in_tx(d, M) = [d EXCEPT !.files = F, !.links = L, !.rows = R]
    BY <1>4 DEF rekey_file_in_tx
  <2> QED BY <2>1, <2>2
<1>6. d.nextOp \in Nat \ {0}
  BY IndexIs
<1> QED BY <1>1, <1>2, <1>3, <1>4, <1>5, <1>6 DEF Index

(* A note has one row per token, so there are finitely many.                *)
LEMMA RowsFinite ==
  ASSUME NEW R \in SUBSET Row, OneRow(R)
  PROVE  Timed(R)
<1>1. PICK f : f = [r \in R |-> <<r.target, r.old>>]
  OBVIOUS
<1>2. f \in Injection(R, Path \X Token)
  <2>1. f \in [R -> Path \X Token]
    BY <1>1 DEF Row
  <2>2. \A r, s \in R : f[r] = f[s] => r = s
    BY <1>1 DEF OneRow
  <2> QED BY <2>1, <2>2 DEF Injection, IsInjective
<1>3. IsFiniteSet(Path \X Token)
  BY FiniteAssumption, FS_Product
<1>4. IsFiniteSet(R)
  BY <1>2, <1>3, FS_Injection
<1> QED BY <1>4 DEF Timed, Row

(* A note with its rows applied holds tokens.                               *)
LEMMA TextTyped ==
  ASSUME NEW p \in Path, db \in Index, OneRow(db.rows), NEW s \in Note
  PROVE  apply_pending(s.text, pending_for_target(p)) \in SUBSET Token
<1>1. pending_for_target(p) \in SUBSET Row /\ OneRow(pending_for_target(p))
  BY DEF pending_for_target, Index, OneRow
<1>2. Timed(pending_for_target(p)) /\ \A r \in pending_for_target(p) : r.new \in Token
  BY <1>1, RowsFinite DEF Row
<1>3. s.text \in SUBSET Token
  BY DEF Note
<1> QED BY <1>2, <1>3, ApplyTyped

LEMMA ViewTyped ==
  ASSUME NEW p \in Path, db \in Index, OneRow(db.rows), disk[p] \in Note
  PROVE  View(p) \in SUBSET Token
BY TextTyped DEF View

(* The function the fold of rewrite_without is defined by.                  *)
Filters(f, j, ops) ==
  f = [S \in SUBSET DOMAIN j |->
         IF S = {} THEN <<>>
         ELSE IF j[Max(S)].op \in ops THEN f[S \ {Max(S)}]
              ELSE Append(f[S \ {Max(S)}], j[Max(S)])]

LEMMA WithoutIs ==
  ASSUME NEW j, NEW ops
  PROVE  rewrite_without(j, ops) = (CHOOSE f : Filters(f, j, ops))[DOMAIN j]
BY Zenon DEF rewrite_without, FoldLeft, MapThenFoldSet, Filters

LEMMA FiltersExist ==
  ASSUME NEW E, NEW j \in Seq(E), NEW ops
  PROVE  \E f : Filters(f, j, ops) /\ \A S \in SUBSET DOMAIN j : f[S] \in Seq(E)
<1> DEFINE R == DOMAIN j
           Small(n) == {S \in SUBSET R : Cardinality(S) <= n}
           Step(s, e) == IF e.op \in ops THEN s ELSE Append(s, e)
           UpTo(f, n) == /\ f = [S \in Small(n) |->
                                   IF S = {} THEN <<>> ELSE Step(f[S \ {Max(S)}], j[Max(S)])]
                         /\ \A S \in Small(n) : f[S] \in Seq(E)
           Bad == {n \in Nat : ~ \E f : UpTo(f, n)}
<1>0. R = 1..Len(j) /\ Len(j) \in Nat /\ IsFiniteSet(R)
  BY FS_Interval
<1>1. \A S \in SUBSET R : /\ IsFiniteSet(S) /\ Cardinality(S) \in Nat
                          /\ Cardinality(S) <= Cardinality(R)
                          /\ S # {} => Max(S) \in S
  BY <1>0, MaxOf, FS_Subset, FS_CardinalityType
<1>e. \A i \in R : j[i] \in E
  OBVIOUS
<1>s. \A s \in Seq(E) : \A e \in E : Step(s, e) \in Seq(E)
  OBVIOUS
<1>r. Cardinality(R) \in Nat
  BY <1>1
<1> HIDE DEF R, Step
<1>2. Bad = {}
  <2> SUFFICES ASSUME Bad # {} PROVE FALSE
    OBVIOUS
  <2>1. PICK n \in Bad : \A k \in Bad : n <= k
    BY LeastNumber
  <2>2. n \in Nat /\ ~ \E f : UpTo(f, n)
    BY <2>1
  <2>3. CASE n = 0
    <3>1. \A S \in Small(0) : S = {}
      BY <1>1, FS_EmptySet
    <3>2. PICK f : f = [S \in Small(0) |-> <<>>]
      OBVIOUS
    <3>4. <<>> \in Seq(E)
      OBVIOUS
    <3>3. UpTo(f, 0)
      <4> HIDE DEF Small
      <4> QED BY <3>1, <3>2, <3>4
    <3> QED BY <2>2, <2>3, <3>3
  <2>4. CASE n # 0
    <3>1. n - 1 \in Nat /\ n - 1 \notin Bad
      <4> HIDE DEF Bad
      <4> QED BY <2>1, <2>2, <2>4
    <3>2. PICK f : UpTo(f, n - 1)
      BY <3>1
    <3>3. PICK g : g = [S \in Small(n) |->
                          IF S = {} THEN <<>> ELSE Step(f[S \ {Max(S)}], j[Max(S)])]
      OBVIOUS
    <3>4. \A S \in Small(n - 1) : S \in Small(n) /\ g[S] = f[S]
      <4>1. \A S \in Small(n - 1) : S \in Small(n)
        BY <1>1, <2>2
      <4>2. \A S \in Small(n - 1) :
              f[S] = IF S = {} THEN <<>> ELSE Step(f[S \ {Max(S)}], j[Max(S)])
        BY <3>2
      <4> QED BY <3>3, <4>1, <4>2
    <3>5. ASSUME NEW S \in Small(n), S # {}
          PROVE  S \ {Max(S)} \in Small(n - 1) /\ Max(S) \in R
      <4>1. S \in SUBSET R /\ Cardinality(S) <= n /\ Max(S) \in S
        BY <1>1, <3>5
      <4>2. Cardinality(S \ {Max(S)}) = Cardinality(S) - 1
        BY <1>1, <4>1, FS_RemoveElement
      <4> QED BY <1>1, <2>2, <4>1, <4>2
    <3>6. \A S \in Small(n) : g[S] \in Seq(E)
      <4> HIDE DEF Small
      <4>1. <<>> \in Seq(E)
        OBVIOUS
      <4>2. ASSUME NEW S \in Small(n), S # {} PROVE g[S] \in Seq(E)
        <5>1. f[S \ {Max(S)}] \in Seq(E) /\ j[Max(S)] \in E
          BY <1>e, <3>2, <3>5, <4>2
        <5> QED BY <1>s, <3>3, <4>2, <5>1
      <4> QED BY <3>3, <4>1, <4>2
    <3>7. UpTo(g, n)
      <4> HIDE DEF Small
      <4>1. \A S \in Small(n) :
              g[S] = IF S = {} THEN <<>> ELSE Step(g[S \ {Max(S)}], j[Max(S)])
        BY <3>3, <3>4, <3>5
      <4>2. g = [S \in Small(n) |-> g[S]]
        BY <3>3
      <4> QED BY <3>6, <4>1, <4>2
    <3> QED BY <2>2, <3>7
  <2> QED BY <2>3, <2>4
<1>3. PICK f : UpTo(f, Cardinality(R))
  BY <1>r, <1>2
<1>4. Small(Cardinality(R)) = SUBSET R
  BY <1>1
<1>5. Filters(f, j, ops) /\ \A S \in SUBSET R : f[S] \in Seq(E)
  <2> HIDE DEF Small
  <2> QED BY <1>3, <1>4 DEF Filters, R, Step
<1> QED BY <1>5 DEF R

(* The journal without some ops is a journal.                               *)
LEMMA WithoutTyped ==
  ASSUME NEW E, NEW j \in Seq(E), NEW ops
  PROVE  rewrite_without(j, ops) \in Seq(E)
<1>1. PICK f : f = CHOOSE h : Filters(h, j, ops)
  OBVIOUS
<1>2. Filters(f, j, ops)
  BY <1>1, FiltersExist
<1>3. PICK g : Filters(g, j, ops) /\ \A S \in SUBSET DOMAIN j : g[S] \in Seq(E)
  BY FiltersExist
<1>4. f[DOMAIN j] = g[DOMAIN j]
  <2> DEFINE R == DOMAIN j
             Bad == {S \in SUBSET R : f[S] # g[S]}
  <2>0. R = 1..Len(j) /\ Len(j) \in Nat /\ IsFiniteSet(R)
    BY FS_Interval
  <2>1. SUFFICES ASSUME Bad # {} PROVE FALSE
    OBVIOUS
  <2> HIDE DEF R
  <2>2. \A S \in Bad : IsFiniteSet(S) /\ (S # {} => Max(S) \in S)
    BY <2>0, MaxOf, FS_Subset
  <2>3. PICK S \in Bad : \A T \in Bad : Cardinality(S) <= Cardinality(T)
    BY <2>1, <2>2, SmallestSet
  <2>4. S \in SUBSET R /\ f[S] # g[S]
    BY <2>3
  <2>5. /\ f[S] = IF S = {} THEN <<>>
                  ELSE IF j[Max(S)].op \in ops THEN f[S \ {Max(S)}]
                       ELSE Append(f[S \ {Max(S)}], j[Max(S)])
        /\ g[S] = IF S = {} THEN <<>>
                  ELSE IF j[Max(S)].op \in ops THEN g[S \ {Max(S)}]
                       ELSE Append(g[S \ {Max(S)}], j[Max(S)])
    BY <1>2, <1>3, <2>4 DEF Filters, R
  <2>6. S # {}
    BY <2>4, <2>5
  <2>7. S \ {Max(S)} \in SUBSET R /\ S \ {Max(S)} \notin Bad
    BY <2>2, <2>3, <2>4, <2>6, OneLess
  <2>8. f[S \ {Max(S)}] = g[S \ {Max(S)}]
    BY <2>7
  <2> QED BY <2>4, <2>5, <2>6, <2>8
<1> QED BY <1>1, <1>3, <1>4, WithoutIs

(* A finite set of entries put in some order.                               *)
LEMMA SequenceOfSet ==
  ASSUME NEW E, NEW S \in SUBSET E, IsFiniteSet(S)
  PROVE  SetToSeq(S) \in Seq(E)
<1>1. Cardinality(S) \in Nat /\ ExistsBijection(1..Cardinality(S), S)
  BY FS_CardinalityType
<1>2. PICK f \in [1..Cardinality(S) -> S] : IsInjective(f)
  BY <1>1 DEF ExistsBijection, Bijection, Injection
<1>3. SetToSeq(S) \in [1..Cardinality(S) -> S]
  BY <1>2 DEF SetToSeq
<1> QED BY <1>1, <1>3

-------------------------------------------------------------------------------
(* The notes on disk and the index *)

LEMMA WhoWritesDisk ==
  ASSUME [Next]_vars
  PROVE  \/ UNCHANGED disk
         \/ MoveFile \/ MoveFolder \/ CommitFolderFails \/ MoveExternal
         \/ \E f \in Path : flush_pending_for_target(f)
BY DEF Next, Rename, FolderRename, Flush, Watcher, Scan, vars, rename_file, MoveFails,
       commit_rename, CommitFails, JournalRename, Reextract, rename_folder, QueueFolder,
       FolderRefused, MoveFolderFails, CommitFolder, JournalInFolder, ReextractInFolder,
       FolderEnds, flush_all_for_vault, FlushEnds, WatchRenamed, RenamedEnds, WatchRemoved,
       WatchCreatedPairs, try_adopt_external_rename, PairingEnds, UpsertPaired, WatchFile,
       upsert_file, WatchSkips, prune_expired,
       open_vault, ScanFile, ScanSkips, WalkEnds, Sweep, ScanFails, WriteLinks,
       journal_renames_found_by_scan, replay_rename_journal, ReplayEntry, ReplayEnds,
       Crash, close_vault, Closed, WipeIndex, Tick

LEMMA WhoWritesIndex ==
  ASSUME [Next]_vars
  PROVE  \/ UNCHANGED db
         \/ commit_rename \/ CommitFails \/ Reextract \/ QueueFolder \/ FolderRefused
         \/ MoveFolderFails \/ CommitFolderFails \/ ReextractInFolder
         \/ \E f \in Path : flush_pending_for_target(f)
         \/ WatchRemoved \/ WatchCreatedPairs \/ PairingEnds \/ UpsertPaired \/ WatchFile
         \/ (\E p \in Path : ScanFile(p)) \/ Sweep \/ ScanFails \/ WriteLinks \/ ReplayEntry
         \/ Crash \/ WipeIndex
BY DEF Next, Rename, FolderRename, Flush, Watcher, Scan, vars, rename_file, MoveFile, MoveFails,
       JournalRename, rename_folder, MoveFolder, CommitFolder, JournalInFolder,
       FolderEnds, flush_all_for_vault, FlushEnds, WatchRenamed, RenamedEnds,
       try_adopt_external_rename, WatchSkips, prune_expired,
       open_vault, ScanSkips, WalkEnds,
       journal_renames_found_by_scan, replay_rename_journal, ReplayEnds, MoveExternal,
       close_vault, Closed, Tick

(* What each part of the state holds.                                       *)
Stage == {"idle", "checked", "moved", "committed", "journaled", "flush", "replay",
          "planned", "queued", "relocated", "listed", "listing"}
Phase == {"closed", "walk", "sweep", "links", "pair", "replay", "open"}
Job == [pc : Stage, from : Path \union {Null}, to : Path \union {Null}, folder : Pairs,
        plans : Pairs, todo : SUBSET Path, prune : BOOLEAN, n : Nat]
Watching == [pc : {"idle", "paired", "adopting", "upsert"}, from : Path \union {Null},
             read : Stored, restored : BOOLEAN, adopted : BOOLEAN]
Scanning == [paths : SUBSET Path, seen : SUBSET Path, fresh : SUBSET Path,
             found : SUBSET Found, gone : SUBSET Tombstone]

TypesInv ==
  /\ disk \in [Path -> Stored] /\ db \in Index
  /\ IF InTransaction THEN saved \in Index ELSE saved = Null
  /\ journal \in Seq(Entry) /\ second \in 0 .. MaxSecond
  /\ job \in Job /\ watch \in Watching /\ events \in Seq(Event)
  /\ tombs \in SUBSET Tombstone /\ phase \in Phase /\ scan \in Scanning

(* What a stage has beside its name: the note a rename moves is known once it *)
(* is checked, an entry is replayed only while the journal is, and a watcher *)
(* at work has the event it works on.                                       *)
StageInv ==
  /\ job.pc \in {"checked", "moved", "committed", "journaled"} =>
       job.from \in Path /\ job.to \in Path
  /\ job.pc = "listing" => job.to \in Path
  /\ job.pc = "replay" => phase = "replay" /\ job.n # 0
  /\ watch.pc = "paired" => watch.from \in Path
  /\ watch.pc = "upsert" => watch.read # Absent
  /\ watch.pc # "idle" => events # <<>>

(* The event the watcher is at.                                             *)
LEMMA FirstTyped ==
  ASSUME events \in Seq(Event), events # <<>>
  PROVE  /\ Head(events) \in Event /\ Head(events).from \in Path /\ Head(events).path \in Path
         /\ Tail(events) \in Seq(Event)
<1>1. Head(events) \in Event /\ Tail(events) \in Seq(Event)
  OBVIOUS
<1> QED BY <1>1 DEF Event

(* What was read of a note goes into the index as a note.                   *)
LEMMA UpsertTyped ==
  ASSUME db \in Index, OneRow(db.rows), NEW p \in Path, NEW s \in Note, upsert_file(p, s)
  PROVE  db' \in Index
<1>1. PICK d : d = [db EXCEPT !.files[p] = s]
  OBVIOUS
<1>2. d \in Index /\ db.links \in SUBSET Link /\ TrackedPaths \in SUBSET Path
  BY <1>1, IndexPut DEF Index, Stored, TrackedPaths
<1>3. PICK v : v = apply_pending(s.text, pending_for_target(p))
  OBVIOUS
<1>4. v \in SUBSET Token
  BY <1>3, TextTyped
<1>5. PICK L : L = replace_links_for_file(db.links, p, v, TrackedPaths \union {p})
  OBVIOUS
<1>6. L \in SUBSET Link
  BY <1>2, <1>4, <1>5, ReplaceTyped
<1>7. db' = [d EXCEPT !.links = L]
  BY <1>1, <1>3, <1>5 DEF upsert_file
<1> QED BY <1>2, <1>6, <1>7, IndexPut

(* The notes on disk and their rows in the index are notes.                *)
LEMMA DiskTyped ==
  ASSUME QueueInv, TypesInv, StageInv, [Next]_vars
  PROVE  disk' \in [Path -> Stored]
<1>t. disk \in [Path -> Stored] /\ db \in Index /\ OneRow(db.rows) /\ Absent \in Stored
  BY DEF TypesInv, Stored, QueueInv, RowsInv, QueueKept
<1>m. \A p, q \in Path : Relocated(p, q) \in [Path -> Stored]
  BY <1>t DEF Relocated
<1>f. ASSUME NEW here \in {1, 2}, NEW there \in {1, 2}
      PROVE  WithFolder(here, there) \in [Path -> Stored]
  <2>1. ASSUME NEW p \in Path, \E x \in job.folder : x[there] = p
        PROVE  disk[(CHOOSE x \in job.folder : x[there] = p)[here]] \in Stored
    <3>1. (CHOOSE x \in job.folder : x[there] = p) \in Path \X Path
      BY <2>1 DEF TypesInv, Job, Pairs
    <3>2. (CHOOSE x \in job.folder : x[there] = p)[here] \in Path
      BY <3>1
    <3> QED BY <1>t, <3>2
  <2> QED BY <1>t, <2>1 DEF WithFolder
<1>1. CASE UNCHANGED disk
  BY <1>t, <1>1
<1>2. CASE MoveFile
  BY <1>m, <1>2 DEF MoveFile, StageInv
<1>3. CASE MoveFolder
  BY <1>f, <1>3 DEF MoveFolder
<1>4. CASE CommitFolderFails
  BY <1>t, <1>f, <1>4 DEF CommitFolderFails
<1>5. CASE MoveExternal
  <2>1. PICK m \in ExternalMoves :
          \/ m[2] \in Path /\ disk' = Relocated(m[1], m[2])
          \/ disk' = [disk EXCEPT ![m[1]] = Absent]
    BY <1>5 DEF MoveExternal
  <2>2. m[1] \in Path
    BY MoveAssumption
  <2> QED BY <1>t, <1>m, <2>1, <2>2
<1>6. ASSUME NEW f \in Path, flush_pending_for_target(f) PROVE disk' \in [Path -> Stored]
  <2>1. CASE disk' = disk
    BY <1>t, <2>1
  <2>2. CASE disk[f] # Absent /\ disk' = [disk EXCEPT ![f].text = View(f), ![f].gen = @ + 1]
    <3>1. disk[f] \in Note
      BY <1>t, <2>2 DEF Stored
    <3>2. PICK v : v = View(f)
      OBVIOUS
    <3>3. v \in SUBSET Token
      BY <1>t, <3>1, <3>2, ViewTyped
    <3>4. PICK s : s = [disk[f] EXCEPT !.text = v, !.gen = @ + 1]
      OBVIOUS
    <3>5. s \in Stored
      <4>1. PICK n \in Note : n = disk[f]
        BY <3>1
      <4>2. PICK g \in Nat : g = n.gen + 1
        BY DEF Note
      <4>3. s = [n EXCEPT !.text = v, !.gen = g]
        BY <3>4, <4>1, <4>2
      <4> QED BY <3>3, <4>3 DEF Note, Stored
    <3>6. disk' = [disk EXCEPT ![f] = s]
      BY <1>t, <2>2, <3>2, <3>4
    <3> QED BY <1>t, <3>5, <3>6
  <2> QED BY <1>6, <2>1, <2>2 DEF flush_pending_for_target
<1> QED BY <1>1, <1>2, <1>3, <1>4, <1>5, <1>6, WhoWritesDisk

(* The rewrites of a folder are edits, of referrers inside it under new paths. *)
LEMMA FolderRewritesTyped ==
  ASSUME db \in Index, job.plans \in Pairs
  PROVE  folder_rewrites \in SUBSET Edit
<1>1. ASSUME NEW x \in job.plans
      PROVE  rewrites_for({[l EXCEPT !.src = path_map(@)] : l \in collect_referrers(db, x[1])},
                          x[1], x[2]) \in SUBSET Edit
  <2>1. x[2] \in Path
    BY DEF Pairs
  <2>2. collect_referrers(db, x[1]) \in SUBSET Link
    BY DEF collect_referrers, broken_referrers_naming, Index
  <2>3. ASSUME NEW l \in Link PROVE [l EXCEPT !.src = path_map(@)] \in Link
    <3>1. path_map(l.src) \in Path
      BY MovedTyped DEF path_map, Link
    <3> QED BY <3>1 DEF Link
  <2>4. {[l EXCEPT !.src = path_map(@)] : l \in collect_referrers(db, x[1])} \in SUBSET Link
    BY <2>2, <2>3
  <2> QED BY <2>1, <2>4, RewritesTyped
<1> QED BY <1>1 DEF folder_rewrites

(* An index that mints an op as it writes.                                  *)
LEMMA IndexMints ==
  ASSUME NEW d \in Index, NEW R \in SUBSET Row
  PROVE  /\ [d EXCEPT !.rows = R, !.nextOp = @ + 1] \in Index
         /\ \A L \in SUBSET Link :
              [d EXCEPT !.links = L, !.rows = R, !.nextOp = @ + 1] \in Index
<1>1. ASSUME NEW L \in SUBSET Link
      PROVE  [d EXCEPT !.links = L, !.rows = R, !.nextOp = @ + 1] \in Index
  <2>1. PICK e : e = [d EXCEPT !.links = L]
    OBVIOUS
  <2>2. PICK f : f = [e EXCEPT !.rows = R]
    OBVIOUS
  <2>3. f \in Index
    BY <2>1, <2>2, IndexPut
  <2>4. [d EXCEPT !.links = L, !.rows = R, !.nextOp = @ + 1] = [f EXCEPT !.nextOp = @ + 1]
    BY <2>1, <2>2
  <2> QED BY <2>3, <2>4, IndexPut
<1>2. [d EXCEPT !.rows = R, !.nextOp = @ + 1] \in Index
  <2>1. PICK f : f = [d EXCEPT !.rows = R]
    OBVIOUS
  <2>2. f \in Index
    BY <2>1, IndexPut
  <2>3. [d EXCEPT !.rows = R, !.nextOp = @ + 1] = [f EXCEPT !.nextOp = @ + 1]
    BY <2>1
  <2> QED BY <2>2, <2>3, IndexPut
<1> QED BY <1>1, <1>2

(* So is what the rows and links in it are.                                *)
LEMMA IndexTyped ==
  ASSUME QueueInv, TypesInv, StageInv, [Next]_vars
  PROVE  db' \in Index
<1>t. /\ disk \in [Path -> Stored] /\ db \in Index /\ OneRow(db.rows) /\ Absent \in Stored
      /\ second \in Nat /\ db.nextOp \in Nat /\ TrackedPaths \in SUBSET Path
      /\ db.links \in SUBSET Link /\ db.rows \in SUBSET Row
      /\ \A p \in Path : db.files[p] \in Stored
      /\ job.plans \in Pairs
  BY BoundAssumption DEF TypesInv, Stored, QueueInv, RowsInv, QueueKept, Index, TrackedPaths, Job
<1>n. ASSUME NEW p \in Path, disk[p] # Absent
      PROVE  disk[p] \in Note /\ disk[p].text \in SUBSET Token /\ View(p) \in SUBSET Token
  <2>1. disk[p] \in Note
    BY <1>t, <1>n DEF Stored
  <2> QED BY <1>t, <2>1, ViewTyped DEF Note
<1>1. CASE UNCHANGED db
  BY <1>t, <1>1
<1>2. CASE commit_rename
  <2>1. PICK L : L = collect_referrers(db, job.from)
    OBVIOUS
  <2>2. PICK R : R = enqueue_coalesced(db.rows, rewrites_for(L, job.from, job.to),
                                       second, db.nextOp)
    OBVIOUS
  <2>3. job.from \in Path /\ job.to \in Path
    BY <1>2 DEF commit_rename, StageInv
  <2>4. L \in SUBSET Link
    BY <1>t, <2>1 DEF collect_referrers, broken_referrers_naming
  <2>5. R \in SUBSET Row
    BY <1>t, <2>2, <2>3, <2>4, RewritesTyped, EnqueueTyped
  <2>6. [db EXCEPT !.rows = R, !.nextOp = @ + 1] \in Index
    BY <1>t, <2>5, IndexMints
  <2>7. {<<job.from, job.to>>} \in Pairs
    BY <2>3 DEF Pairs
  <2>8. db' = rekey_file_in_tx([db EXCEPT !.rows = R, !.nextOp = @ + 1], {<<job.from, job.to>>})
    BY <1>2, <2>1, <2>2 DEF commit_rename
  <2> QED BY <2>6, <2>7, <2>8, RekeyTyped
<1>3. CASE CommitFails \/ FolderRefused
  BY <1>t, <1>3, IndexPut DEF CommitFails, FolderRefused
<1>4. CASE Reextract \/ ReextractInFolder
  <2>1. job.to \in Path
    BY <1>4 DEF Reextract, ReextractInFolder, StageInv
  <2>2. PICK L : L = replace_links_for_file(db.links, job.to, disk[job.to].text, TrackedPaths)
    OBVIOUS
  <2>3. disk[job.to] # Absent => L \in SUBSET Link
    BY <1>t, <1>n, <2>1, <2>2, ReplaceTyped
  <2>4. UNCHANGED db \/ (disk[job.to] # Absent /\ db' = [db EXCEPT !.links = L])
    BY <1>4, <2>2 DEF Reextract, ReextractInFolder
  <2> QED BY <1>t, <2>3, <2>4, IndexPut
<1>5. CASE QueueFolder
  <2>1. saved' = [db EXCEPT !.nextOp = @ + 1] /\ saved' \in Index
    BY <1>t, <1>5, IndexPut DEF QueueFolder
  <2>2. PICK d : d = rekey_file_in_tx(saved', job.plans)
    OBVIOUS
  <2>3. d \in Index
    BY <1>t, <2>1, <2>2, RekeyTyped
  <2>4. PICK R : R = enqueue_coalesced(d.rows, folder_rewrites, second, db.nextOp)
    OBVIOUS
  <2>5. R \in SUBSET Row
    <3>1. d.rows \in SUBSET Row
      BY <2>3 DEF Index
    <3> QED BY <1>t, <2>4, <3>1, FolderRewritesTyped, EnqueueTyped
  <2>6. db' = [d EXCEPT !.rows = R]
    BY <1>5, <2>2, <2>4 DEF QueueFolder
  <2> QED BY <2>1, <2>3, <2>5, <2>6, IndexPut
<1>6. CASE MoveFolderFails \/ CommitFolderFails \/ Crash
  <2>1. db' = db \/ (InTransaction /\ db' = saved)
    BY <1>6 DEF MoveFolderFails, CommitFolderFails, Crash, RolledBack, InTransaction
  <2> QED BY <1>t, <2>1 DEF TypesInv
<1>7. ASSUME NEW f \in Path, flush_pending_for_target(f) PROVE db' \in Index
  <2>1. PICK d : d = [db EXCEPT !.rows = @ \ pending_for_target(f)]
    OBVIOUS
  <2>2. d \in Index /\ d.files = db.files
    BY <1>t, <2>1 DEF Index
  <2>3. CASE db' = d
    BY <2>2, <2>3
  <2>4. CASE /\ disk[f] # Absent
             /\ db' = [d EXCEPT !.files[f] = IF @ = Absent THEN @ ELSE [@ EXCEPT !.text = View(f)]]
    <3>1. PICK v : v = View(f)
      OBVIOUS
    <3>2. v \in SUBSET Token
      BY <1>n, <2>4, <3>1
    <3>3. PICK s : s = IF d.files[f] = Absent THEN d.files[f] ELSE [d.files[f] EXCEPT !.text = v]
      OBVIOUS
    <3>4. s \in Stored
      <4>1. d.files[f] \in Stored
        BY <1>t, <2>2
      <4>2. \A x \in Note : [x EXCEPT !.text = v] \in Note
        BY <3>2 DEF Note
      <4> QED BY <3>3, <4>1, <4>2 DEF Stored
    <3>5. db' = [d EXCEPT !.files[f] = s]
      BY <2>4, <3>1, <3>3
    <3> QED BY <2>2, <3>4, <3>5, IndexPut
  <2> QED BY <1>7, <2>1, <2>3, <2>4 DEF flush_pending_for_target
<1>8. CASE WatchRemoved \/ Sweep \/ ScanFails \/ PairingEnds
  <2>1. db' = db \/ \E P : db' = delete_files(db, P)
    BY <1>8 DEF WatchRemoved, Sweep, ScanFails, PairingEnds
  <2> QED BY <1>t, <2>1, DeleteTyped
<1>9. CASE WatchCreatedPairs
  <2>1. PICK p \in Unpaired(Head(events)) : db' = restore_row(p)
    BY <1>9 DEF WatchCreatedPairs
  <2>2. /\ p \in TrackedPaths \/ \E t \in tombs : t.path = p
        /\ tombs \in SUBSET Tombstone
    BY <2>1 DEF Unpaired, find_rename_source, Candidates, TypesInv
  <2>3. p \in Path
    BY <2>2 DEF TrackedPaths, Tombstone
  <2>4. CASE Tracked(p)
    BY <1>t, <2>1, <2>4 DEF restore_row
  <2>5. CASE ~ Tracked(p)
    <3>1. \E t \in tombs : t.path = p
      BY <2>2, <2>5 DEF TrackedPaths
    <3>2. (CHOOSE t \in tombs : t.path = p) \in Tombstone
      BY <2>2, <3>1
    <3>3. (CHOOSE t \in tombs : t.path = p).stats \in Stored
      BY <3>2 DEF Tombstone, Stored
    <3> QED BY <1>t, <2>1, <2>3, <2>5, <3>3, IndexPut DEF restore_row
  <2> QED BY <2>4, <2>5
<1>10. CASE WatchFile \/ UpsertPaired
  <2>1. events # <<>> /\ events \in Seq(Event)
    BY <1>10 DEF WatchFile, UpsertPaired, WatchEventIs, TypesInv, StageInv
  <2>2. PICK p \in Path : p = Head(events).path
    BY <2>1, FirstTyped
  <2>3. db' = db \/ \E s \in {disk[p], watch.read} : s # Absent /\ upsert_file(p, s)
    BY <1>10, <2>2 DEF WatchFile, UpsertPaired, StageInv
  <2>4. disk[p] \in Stored /\ watch.read \in Stored
    BY <1>t DEF TypesInv, Watching
  <2> QED BY <1>t, <2>3, <2>4, UpsertTyped DEF Stored
<1>11. ASSUME NEW p \in Path, ScanFile(p) PROVE db' \in Index
  <2>1. db' = db \/ db' = [db EXCEPT !.files[p] = disk[p]]
    BY <1>11 DEF ScanFile
  <2>2. disk[p] \in Stored
    BY <1>t
  <2> QED BY <1>t, <2>1, <2>2, IndexPut
<1>12. CASE WriteLinks
  <2>1. PICK L : L = {l \in db.links : \A f \in scan.found : f.src # l.src} \union
                     UNION {link_rows(f.src, f.text, scan.paths) :
                              f \in {g \in scan.found : Tracked(g.src)}}
    OBVIOUS
  <2>2. scan.found \in SUBSET Found /\ scan.paths \in SUBSET Path
    BY DEF TypesInv, Scanning
  <2>3. \A f \in scan.found : link_rows(f.src, f.text, scan.paths) \in SUBSET Link
    BY <2>2, LinkRowsTyped DEF Found
  <2>4. L \in SUBSET Link
    BY <1>t, <2>1, <2>3
  <2>5. db' = [db EXCEPT !.links = L]
    BY <1>12, <2>1 DEF WriteLinks
  <2> QED BY <1>t, <2>4, <2>5, IndexPut
<1>13. CASE ReplayEntry
  <2>1. PICK e : e = journal[job.n]
    OBVIOUS
  <2>2. e \in Entry
    <3>1. job.n \in 1..Len(journal) /\ journal \in Seq(Entry)
      BY <1>13 DEF ReplayEntry, TypesInv, StageInv, Job
    <3> QED BY <2>1, <3>1
  <2>3. PICK L : L = broken_referrers_naming(db.links, e.from)
    OBVIOUS
  <2>4. L \in SUBSET Link /\ e.from \in Path /\ e.to \in Path /\ {<<e.from, e.to>>} \in Pairs
    BY <1>t, <2>2, <2>3 DEF broken_referrers_naming, Entry, Pairs
  <2>5. PICK K : K = reconnect_broken_links_to(db.links, {<<e.from, e.to>>})
    OBVIOUS
  <2>6. PICK R : R = enqueue_coalesced(db.rows, rewrites_for(L, e.from, e.to), second, db.nextOp)
    OBVIOUS
  <2>7. K \in SUBSET Link /\ R \in SUBSET Row
    BY <1>t, <2>4, <2>5, <2>6, ReconnectTyped, RewritesTyped, EnqueueTyped
  <2>8. db' = db \/ db' = [db EXCEPT !.links = K, !.rows = R, !.nextOp = @ + 1]
    BY <1>13, <2>1, <2>3, <2>5, <2>6 DEF ReplayEntry
  <2>9. [db EXCEPT !.links = K, !.rows = R, !.nextOp = @ + 1] \in Index
    BY <1>t, <2>7, IndexMints
  <2> QED BY <1>t, <2>8, <2>9
<1>14. CASE WipeIndex
  BY <1>14 DEF WipeIndex, Blank, Index, Stored
<1> DEFINE Done == db' \in Index
<1> HIDE DEF Done
<1> QED BY <1>1, <1>2, <1>3, <1>4, <1>5, <1>6, <1>7, <1>8, <1>9, <1>10, <1>11, <1>12, <1>13,
           <1>14, WhoWritesIndex DEF Done

-------------------------------------------------------------------------------
(* The operation at work *)

(* An operation that goes on, and one that begins.                          *)
LEMMA JobPut ==
  ASSUME NEW j \in Job
  PROVE  /\ \A s \in Stage :
              /\ [j EXCEPT !.pc = s] \in Job
              /\ \A T \in SUBSET Path : [j EXCEPT !.pc = s, !.todo = T] \in Job
              /\ \A p \in Path, M \in Pairs : [j EXCEPT !.pc = s, !.to = p, !.plans = M] \in Job
         /\ \A T \in SUBSET Path : [j EXCEPT !.todo = T] \in Job
         /\ [j EXCEPT !.n = @ + 1] \in Job
         /\ j.n \in Nat /\ j.pc \in Stage /\ j.todo \in SUBSET Path /\ j.plans \in Pairs
         /\ j.folder \in Pairs
<1>1. \A s \in Stage : [j EXCEPT !.pc = s] \in Job
  BY DEF Job
<1>2. \A T \in SUBSET Path : [j EXCEPT !.todo = T] \in Job
  BY DEF Job
<1>3. \A s \in Stage, T \in SUBSET Path : [j EXCEPT !.pc = s, !.todo = T] \in Job
  BY DEF Job
<1>4. \A s \in Stage, p \in Path, M \in Pairs : [j EXCEPT !.pc = s, !.to = p, !.plans = M] \in Job
  BY DEF Job
<1>5. [j EXCEPT !.n = @ + 1] \in Job
  BY DEF Job
<1>6. j.n \in Nat /\ j.pc \in Stage /\ j.todo \in SUBSET Path /\ j.plans \in Pairs /\ j.folder \in Pairs
  BY DEF Job
<1> QED BY <1>1, <1>2, <1>3, <1>4, <1>5, <1>6

LEMMA JobStart ==
  /\ Idle \in Job
  /\ \A s \in Stage, p, q \in Path : [Idle EXCEPT !.pc = s, !.from = p, !.to = q] \in Job
  /\ \A s \in Stage, M, N \in Pairs : [Idle EXCEPT !.pc = s, !.folder = M, !.plans = N] \in Job
  /\ \A s \in Stage, T \in SUBSET Path : [Idle EXCEPT !.pc = s, !.todo = T] \in Job
  /\ \A s \in Stage, T \in SUBSET Path : [Idle EXCEPT !.pc = s, !.prune = TRUE, !.todo = T] \in Job
  /\ \A s \in Stage : [Idle EXCEPT !.pc = s, !.n = 1] \in Job
<1>1. {} \in Pairs /\ "idle" \in Stage
  BY DEF Pairs, Stage
<1> QED BY <1>1 DEF Idle, Job

LEMMA WhoWritesJob ==
  ASSUME [Next]_vars
  PROVE  \/ UNCHANGED job
         \/ rename_file \/ MoveFile \/ MoveFails \/ commit_rename \/ CommitFails
         \/ JournalRename \/ Reextract
         \/ rename_folder \/ QueueFolder \/ FolderRefused \/ MoveFolder \/ MoveFolderFails
         \/ CommitFolder \/ CommitFolderFails \/ JournalInFolder \/ ReextractInFolder
         \/ FolderEnds \/ flush_all_for_vault \/ FlushEnds
         \/ (\E f \in Path : flush_pending_for_target(f))
         \/ WatchRenamed \/ try_adopt_external_rename
         \/ replay_rename_journal \/ ReplayEntry \/ ReplayEnds \/ Crash \/ close_vault
BY DEF Next, Rename, FolderRename, Flush, Watcher, Scan, vars, RenamedEnds, WatchRemoved,
       WatchCreatedPairs, PairingEnds, UpsertPaired, WatchFile, WatchSkips, prune_expired,
       open_vault, ScanFile, ScanSkips, WalkEnds, Sweep, ScanFails, WriteLinks,
       journal_renames_found_by_scan, MoveExternal, WipeIndex, Tick

(* What an operation goes on with, and where it is.                         *)
JobStaged(j) ==
  /\ j.pc \in {"checked", "moved", "committed", "journaled"} => j.from \in Path /\ j.to \in Path
  /\ j.pc = "listing" => j.to \in Path
  /\ j.pc = "replay" => j.n # 0

LEMMA JobTyped ==
  ASSUME QueueInv, TypesInv, StageInv, [Next]_vars
  PROVE  job' \in Job /\ JobStaged(job')
<1>j. job \in Job /\ JobStaged(job) /\ job.pc \in Stage /\ job.todo \in SUBSET Path
      /\ job.plans \in Pairs /\ job.folder \in Pairs
  BY JobPut DEF TypesInv, StageInv, JobStaged
<1>f. ASSUME NEW j, \/ j = Idle
                    \/ \E s \in Stage \ {"checked", "moved", "committed", "journaled", "listing", "replay"} :
                         \/ j = [job EXCEPT !.pc = s]
                         \/ \E T \in SUBSET Path : \/ j = [job EXCEPT !.pc = s, !.todo = T]
                                                   \/ j = [Idle EXCEPT !.pc = s, !.todo = T]
                                                   \/ j = [Idle EXCEPT !.pc = s, !.prune = TRUE, !.todo = T]
      PROVE  j \in Job /\ JobStaged(j)
  <2>1. CASE j = Idle
    BY <2>1, JobStart DEF JobStaged, Idle
  <2>2. ASSUME NEW s \in Stage \ {"checked", "moved", "committed", "journaled", "listing", "replay"},
               j.pc = s, j \in Job
        PROVE  j \in Job /\ JobStaged(j)
    BY <2>2 DEF JobStaged
  <2>3. ASSUME NEW s \in Stage \ {"checked", "moved", "committed", "journaled", "listing", "replay"},
               j = [job EXCEPT !.pc = s] \/ \E T \in SUBSET Path : j = [job EXCEPT !.pc = s, !.todo = T]
        PROVE  j.pc = s /\ j \in Job
    <3>1. j \in Job
      <4>1. s \in Stage /\ job \in Job
        BY <1>j
      <4>2. /\ [job EXCEPT !.pc = s] \in Job
            /\ \A T \in SUBSET Path : [job EXCEPT !.pc = s, !.todo = T] \in Job
        BY Zenon, <4>1, JobPut
      <4> QED BY <2>3, <4>2
    <3>2. j.pc = s
      BY <1>j, <2>3 DEF Job
    <3> QED BY <3>1, <3>2
  <2>4. ASSUME NEW s \in Stage \ {"checked", "moved", "committed", "journaled", "listing", "replay"},
               \E T \in SUBSET Path : \/ j = [Idle EXCEPT !.pc = s, !.todo = T]
                                      \/ j = [Idle EXCEPT !.pc = s, !.prune = TRUE, !.todo = T]
        PROVE  j.pc = s /\ j \in Job
    <3>1. j \in Job
      <4>1. s \in Stage
        OBVIOUS
      <4>2. \A T \in SUBSET Path : /\ [Idle EXCEPT !.pc = s, !.todo = T] \in Job
                                   /\ [Idle EXCEPT !.pc = s, !.prune = TRUE, !.todo = T] \in Job
        BY Zenon, <4>1, JobStart
      <4> QED BY <2>4, <4>2
    <3>2. j.pc = s
      BY <2>4 DEF Idle
    <3> QED BY <3>1, <3>2
  <2> QED BY <1>f, <2>1, <2>2, <2>3, <2>4
<1>g. ASSUME NEW j \in Job, NEW s \in Stage, j.pc = s, s # "replay",
             j.to \in Path, s # "listing" => j.from \in Path
      PROVE  j \in Job /\ JobStaged(j)
  BY <1>g DEF JobStaged
<1>1. CASE UNCHANGED job
  BY <1>j, <1>1
<1>2. CASE rename_file
  <2>1. PICK p, q : p \in Path /\ q \in Path /\ job' = [Idle EXCEPT !.pc = "checked", !.from = p, !.to = q]
    BY <1>2, MoveAssumption DEF rename_file
  <2> QED BY <2>1, JobStart DEF JobStaged, Idle, Stage
<1>3. CASE MoveFile
  <2>1. job' = [job EXCEPT !.pc = "moved"] /\ job.from \in Path /\ job.to \in Path
    BY <1>3 DEF MoveFile, StageInv
  <2>2. job' \in Job
    BY <1>j, <2>1, JobPut DEF Stage
  <2>3. job'.pc \in {"moved", "journaled"} /\ job'.from \in Path /\ job'.to \in Path
    BY <1>j, <2>1 DEF Job
  <2> QED BY <1>g, <2>2, <2>3 DEF Stage
<1>4. CASE \/ MoveFails \/ CommitFails \/ FolderRefused \/ MoveFolderFails \/ CommitFolderFails
           \/ FlushEnds \/ ReplayEnds \/ Crash \/ close_vault
  BY <1>f, <1>4 DEF MoveFails, CommitFails, FolderRefused, MoveFolderFails, CommitFolderFails,
       FlushEnds, ReplayEnds, Crash, close_vault, Closed, RolledBack
<1>5. CASE commit_rename
  <2>1. PICK T : T = {l.src : l \in collect_referrers(db, job.from)}
    OBVIOUS
  <2>2. T \in SUBSET Path
    <3>1. collect_referrers(db, job.from) \in SUBSET Link
      BY DEF TypesInv, Index, collect_referrers, broken_referrers_naming
    <3> QED BY <2>1, <3>1 DEF Link
  <2>3. job' = [job EXCEPT !.pc = "committed", !.todo = T] /\ job.from \in Path /\ job.to \in Path
    BY <1>5, <2>1 DEF commit_rename, StageInv
  <2>4. job' \in Job
    BY <1>j, <2>2, <2>3, JobPut DEF Stage
  <2>5. job'.pc = "committed" /\ job'.from \in Path /\ job'.to \in Path
    BY <1>j, <2>3 DEF Job
  <2> QED BY <1>g, <2>4, <2>5 DEF Stage
<1>6. CASE JournalRename
  <2>1. job' = [job EXCEPT !.pc = "journaled"] /\ job.from \in Path /\ job.to \in Path
    BY <1>6 DEF JournalRename, StageInv
  <2>2. job' \in Job
    BY <1>j, <2>1, JobPut DEF Stage
  <2>3. job'.pc \in {"moved", "journaled"} /\ job'.from \in Path /\ job'.to \in Path
    BY <1>j, <2>1 DEF Job
  <2> QED BY <1>g, <2>2, <2>3 DEF Stage
<1>7. CASE Reextract
  <2>1. PICK T : T = {f \in job.todo : Cardinality(pending_for_target(f)) > Fuse}
    OBVIOUS
  <2>2. T \in SUBSET Path
    BY <1>j, <2>1
  <2>3. job' = Idle \/ job' = [job EXCEPT !.pc = "flush", !.todo = T]
    BY <1>7, <2>1 DEF Reextract
  <2> QED BY <1>f, <2>2, <2>3 DEF Stage
<1>8. CASE rename_folder
  <2>1. PICK m \in FolderMoves : job' = [Idle EXCEPT !.pc = "planned", !.folder = m,
                                                     !.plans = {x \in m : Tracked(x[1])}]
    BY <1>8 DEF rename_folder
  <2>2. PICK N : N = {x \in m : Tracked(x[1])}
    OBVIOUS
  <2>3. m \in Pairs /\ N \in Pairs
    BY <2>2, MoveAssumption DEF Pairs
  <2> QED BY <2>1, <2>2, <2>3, JobStart DEF JobStaged, Idle, Stage
<1>9. CASE QueueFolder
  <2>1. PICK T : T = {e.target : e \in folder_rewrites}
    OBVIOUS
  <2>2. T \in SUBSET Path
    <3>1. folder_rewrites \in SUBSET Edit
      BY <1>j, FolderRewritesTyped DEF TypesInv
    <3> QED BY <2>1, <3>1 DEF Edit
  <2>3. job' = [job EXCEPT !.pc = "queued", !.todo = T]
    BY <1>9, <2>1 DEF QueueFolder
  <2> QED BY <1>f, <2>2, <2>3 DEF Stage
<1>10. CASE MoveFolder \/ CommitFolder \/ ReextractInFolder
  <2>1. \E s \in {"relocated", "listed"} : job' = [job EXCEPT !.pc = s]
    BY <1>10 DEF MoveFolder, CommitFolder, ReextractInFolder
  <2> QED BY <1>f, <2>1 DEF Stage
<1>11. CASE JournalInFolder
  <2>1. PICK x \in job.plans : job' = [job EXCEPT !.pc = "listing", !.to = x[2], !.plans = @ \ {x}]
    BY <1>11 DEF JournalInFolder
  <2>2. PICK p, M : p = x[2] /\ M = job.plans \ {x}
    OBVIOUS
  <2>3. p \in Path /\ M \in Pairs
    BY <1>j, <2>2 DEF Pairs
  <2>4. job' = [job EXCEPT !.pc = "listing", !.to = p, !.plans = M]
    BY <2>1, <2>2
  <2>5. job' \in Job
    BY <1>j, <2>3, <2>4, JobPut DEF Stage
  <2>6. job'.pc = "listing" /\ job'.to \in Path
    BY <1>j, <2>3, <2>4 DEF Job
  <2> QED BY <1>g, <2>5, <2>6 DEF Stage
<1>12. CASE FolderEnds
  <2>1. PICK T : T = {f \in job.todo : Cardinality(pending_for_target(f)) > Fuse}
    OBVIOUS
  <2>2. T \in SUBSET Path
    BY <1>j, <2>1
  <2>3. job' = [Idle EXCEPT !.pc = "flush", !.todo = T]
    BY <1>12, <2>1 DEF FolderEnds
  <2> QED BY <1>f, <2>2, <2>3 DEF Stage
<1>13. CASE flush_all_for_vault
  <2>1. PICK T : T = {r.target : r \in db.rows}
    OBVIOUS
  <2>2. T \in SUBSET Path
    BY <2>1 DEF TypesInv, Index, Row
  <2>3. job' = [Idle EXCEPT !.pc = "flush", !.prune = TRUE, !.todo = T]
    BY <1>13, <2>1 DEF flush_all_for_vault
  <2> QED BY <1>f, <2>2, <2>3 DEF Stage
<1>14. ASSUME NEW f \in Path, flush_pending_for_target(f) PROVE job' \in Job /\ JobStaged(job')
  <2>1. PICK T : T = job.todo \ {f}
    OBVIOUS
  <2>2. T \in SUBSET Path
    BY <1>j, <2>1
  <2>3. job' = [job EXCEPT !.todo = T] /\ job.pc = "flush"
    BY <1>14, <2>1 DEF flush_pending_for_target
  <2> QED BY <1>j, <2>2, <2>3, JobPut DEF JobStaged, Job
<1>15. CASE WatchRenamed \/ try_adopt_external_rename
  <2>1. PICK p, q : p \in Path /\ q \in Path
                    /\ job' \in {job, [Idle EXCEPT !.pc = "moved", !.from = p, !.to = q]}
    <3>1. events \in Seq(Event) /\ events # <<>>
      BY <1>15 DEF WatchRenamed, WatchEventIs, try_adopt_external_rename, TypesInv, StageInv
    <3>2. CASE WatchRenamed
      BY <3>1, <3>2, FirstTyped DEF WatchRenamed, adopt_external_rename
    <3>3. CASE try_adopt_external_rename
      BY <3>1, <3>3, FirstTyped DEF try_adopt_external_rename, adopt_external_rename, StageInv
    <3> QED BY <1>15, <3>2, <3>3
  <2>2. CASE job' = job
    BY <1>j, <2>2
  <2>3. CASE job' = [Idle EXCEPT !.pc = "moved", !.from = p, !.to = q]
    BY <2>1, <2>3, JobStart DEF JobStaged, Idle, Stage
  <2> QED BY <2>1, <2>2, <2>3
<1>16. CASE replay_rename_journal
  <2>1. job' = [Idle EXCEPT !.pc = "replay", !.n = 1]
    BY <1>16 DEF replay_rename_journal
  <2>2. job' \in Job
    BY <2>1, JobStart DEF Stage
  <2>3. job'.pc = "replay" /\ job'.n = 1
    BY <2>1 DEF Idle
  <2> QED BY <2>2, <2>3 DEF JobStaged
<1>17. CASE ReplayEntry
  <2>1. job' = [job EXCEPT !.n = @ + 1] /\ job.pc = "replay" /\ job.n \in Nat
    BY <1>j, <1>17, JobPut DEF ReplayEntry
  <2>2. job'.pc = "replay" /\ job'.n # 0
    BY <1>j, <2>1 DEF Job
  <2>3. job' \in Job
    BY <1>j, <2>1, JobPut
  <2> QED BY <2>2, <2>3 DEF JobStaged
<1> QED BY <1>1, <1>2, <1>3, <1>4, <1>5, <1>6, <1>7, <1>8, <1>9, <1>10, <1>11, <1>12, <1>13,
           <1>14, <1>15, <1>16, <1>17, WhoWritesJob

-------------------------------------------------------------------------------
(* The watcher *)

LEMMA WhoWritesWatch ==
  ASSUME [Next]_vars
  PROVE  \/ UNCHANGED <<watch, events, tombs>>
         \/ MoveFile \/ commit_rename \/ Reextract
         \/ (\E f \in Path : flush_pending_for_target(f)) \/ MoveExternal
         \/ WatchRenamed \/ RenamedEnds \/ WatchRemoved \/ WatchCreatedPairs
         \/ try_adopt_external_rename \/ PairingEnds \/ UpsertPaired \/ WatchFile
         \/ WatchSkips \/ prune_expired
         \/ Crash \/ close_vault
BY DEF Next, Rename, FolderRename, Flush, Watcher, Scan, vars, rename_file, MoveFails,
       CommitFails, JournalRename, rename_folder, QueueFolder,
       FolderRefused, MoveFolder, MoveFolderFails, CommitFolder, CommitFolderFails,
       JournalInFolder, ReextractInFolder, FolderEnds, flush_all_for_vault, FlushEnds,
       open_vault, ScanFile, ScanSkips, WalkEnds, Sweep, ScanFails, WriteLinks,
       journal_renames_found_by_scan, replay_rename_journal, ReplayEntry, ReplayEnds,
       WipeIndex, Tick

(* Events are added at the end, and none is taken away by that.             *)
LEMMA MoreEvents ==
  ASSUME NEW E, NEW s \in Seq(E), NEW t \in Seq(E)
  PROVE  /\ s \o t \in Seq(E)
         /\ s # <<>> \/ t # <<>> => s \o t # <<>>
<1>1. Len(s \o t) = Len(s) + Len(t) /\ s \o t \in Seq(E)
  OBVIOUS
<1>2. (s # <<>> => Len(s) # 0) /\ (t # <<>> => Len(t) # 0) /\ Len(s) \in Nat /\ Len(t) \in Nat
  OBVIOUS
<1>3. Len(<<>>) = 0
  OBVIOUS
<1> QED BY <1>1, <1>2, <1>3

LEMMA NotifyTyped ==
  ASSUME NEW p \in Path, NEW q \in Path, events \in Seq(Event), NotifyRename(p, q)
  PROVE  events' \in Seq(Event) /\ (events # <<>> => events' # <<>>)
<1>1. \A es \in RenameEvents(p, q) : es \in Seq(Event)
  <2>1. /\ Removed(p) \in Event /\ Created(q) \in Event
        /\ [kind |-> "renamed", from |-> p, path |-> q] \in Event
    BY DEF Removed, Created, Event
  <2>2. PICK a \in Event : a = Removed(p)
    BY <2>1
  <2>3. PICK b \in Event : b = Created(q)
    BY <2>1
  <2>4. PICK c \in Event : c = [kind |-> "renamed", from |-> p, path |-> q]
    BY <2>1
  <2>5. <<a, b>> \in Seq(Event) /\ <<b, a>> \in Seq(Event) /\ <<c>> \in Seq(Event)
    OBVIOUS
  <2>6. RenameEvents(p, q) \subseteq {<<a, b>>, <<b, a>>, <<c>>}
    BY <2>2, <2>3, <2>4 DEF RenameEvents
  <2> QED BY <2>5, <2>6
<1> QED BY <1>1, MoreEvents DEF NotifyRename

(* A pairing or an adoption is about the event at the head.                 *)
WatchStaged(w, es) ==
  /\ w.pc = "paired" => w.from \in Path
  /\ w.pc = "upsert" => w.read # Absent
  /\ w.pc # "idle" => es # <<>>

LEMMA WatchTyped ==
  ASSUME QueueInv, TypesInv, StageInv, [Next]_vars
  PROVE  /\ watch' \in Watching /\ events' \in Seq(Event) /\ tombs' \in SUBSET Tombstone
         /\ WatchStaged(watch', events')
<1> DEFINE Typed == /\ watch' \in Watching /\ events' \in Seq(Event)
                    /\ tombs' \in SUBSET Tombstone /\ WatchStaged(watch', events')
<1>w. /\ watch \in Watching /\ events \in Seq(Event) /\ tombs \in SUBSET Tombstone
      /\ WatchStaged(watch, events)
  BY DEF TypesInv, StageInv, WatchStaged
<1>n. /\ NotWatching \in Watching /\ NotWatching.pc = "idle"
  BY DEF NotWatching, Watching, Stored
<1>h. events # <<>> => /\ Head(events) \in Event /\ Tail(events) \in Seq(Event)
                       /\ Head(events).path \in Path /\ Head(events).from \in Path
  BY <1>w, FirstTyped
<1>m. ASSUME UNCHANGED <<watch, tombs>>, events' \in Seq(Event), events # <<>> => events' # <<>>
      PROVE  Typed
  BY <1>w, <1>m DEF WatchStaged
<1>r. ASSUME watch' = NotWatching, events' \in Seq(Event), tombs' \in SUBSET Tombstone
      PROVE  Typed
  BY <1>n, <1>r DEF WatchStaged
<1> SUFFICES Typed
  OBVIOUS
<1> HIDE DEF Typed
<1>1. CASE UNCHANGED <<watch, events, tombs>>
  BY <1>m, <1>w, <1>1
<1>2. CASE MoveFile
  <2>1. job.from \in Path /\ job.to \in Path
    BY <1>2 DEF MoveFile, StageInv
  <2> QED BY <1>m, <1>w, <1>2, <2>1, NotifyTyped DEF MoveFile
<1>3. CASE commit_rename \/ Reextract
  <2>1. PICK b \in BOOLEAN : watch' = watch \/ watch' = [watch EXCEPT !.adopted = b]
    BY <1>3 DEF commit_rename, Reextract
  <2>2. UNCHANGED <<events, tombs>>
    BY <1>3 DEF commit_rename, Reextract
  <2>3. /\ watch' \in Watching /\ watch'.pc = watch.pc
        /\ watch'.from = watch.from /\ watch'.read = watch.read
    BY <1>w, <2>1 DEF Watching
  <2> QED BY <1>w, <2>2, <2>3 DEF WatchStaged, Typed
<1>4. ASSUME NEW f \in Path, flush_pending_for_target(f) PROVE Typed
  <2>1. [kind |-> "modified", from |-> f, path |-> f] \in Event
    BY DEF Event
  <2>2. PICK e : e = [kind |-> "modified", from |-> f, path |-> f]
    OBVIOUS
  <2>3. events' = events \/ events' = Append(events, e)
    BY <1>4, <2>2 DEF flush_pending_for_target
  <2>4. events' \in Seq(Event) /\ (events # <<>> => events' # <<>>)
    BY <1>w, <2>1, <2>2, <2>3
  <2> QED BY <1>m, <1>4, <2>4 DEF flush_pending_for_target
<1>5. CASE MoveExternal
  <2>1. PICK m \in ExternalMoves :
          \/ m[2] \in Path /\ NotifyRename(m[1], m[2])
          \/ events' = events \/ events' = Append(events, Removed(m[1]))
    BY <1>5 DEF MoveExternal
  <2>2. m[1] \in Path /\ Removed(m[1]) \in Event
    BY MoveAssumption DEF Removed, Event
  <2>3. events' \in Seq(Event) /\ (events # <<>> => events' # <<>>)
    <3>1. CASE m[2] \in Path /\ NotifyRename(m[1], m[2])
      BY <1>w, <2>2, <3>1, NotifyTyped
    <3>2. CASE events' = events \/ events' = Append(events, Removed(m[1]))
      BY <1>w, <2>2, <3>2
    <3> QED BY <2>1, <3>1, <3>2
  <2> QED BY <1>m, <1>5, <2>3 DEF MoveExternal
<1>6. CASE WatchRenamed
  <2>1. /\ watch' = [NotWatching EXCEPT !.pc = "adopting"] /\ UNCHANGED <<events, tombs>>
        /\ events # <<>>
    BY <1>6 DEF WatchRenamed, WatchEventIs
  <2>2. watch' \in Watching /\ watch'.pc = "adopting"
    BY <2>1 DEF NotWatching, Watching, Stored
  <2> QED BY <1>w, <2>1, <2>2 DEF WatchStaged, Typed
<1>7. CASE RenamedEnds \/ UpsertPaired \/ WatchFile \/ WatchSkips
  <2>1. events # <<>>
    BY <1>7, <1>w DEF RenamedEnds, UpsertPaired, WatchFile, WatchSkips, WatchEventIs, WatchStaged
  <2> QED BY <1>h, <1>r, <1>w, <1>7, <2>1
          DEF RenamedEnds, UpsertPaired, WatchFile, WatchSkips, Handled
<1>8. CASE WatchRemoved
  <2>1. events # <<>>
    BY <1>8 DEF WatchRemoved, WatchEventIs
  <2>2. PICK p \in Path : p = Head(events).path
    BY <1>h, <2>1
  <2>3. Tracked(p) => [path |-> p, stats |-> db.files[p]] \in Tombstone
    BY DEF Tracked, TypesInv, Index, Stored, Tombstone
  <2>4. tombs' = tombs \/ (Tracked(p) /\ tombs' \subseteq tombs \union {[path |-> p, stats |-> db.files[p]]})
    BY <1>8, <2>2 DEF WatchRemoved
  <2>5. tombs' \in SUBSET Tombstone
    BY <1>w, <2>3, <2>4
  <2> QED BY <1>h, <1>r, <1>8, <2>1, <2>5 DEF WatchRemoved, Handled
<1>9. CASE WatchCreatedPairs
  <2>1. PICK p \in Unpaired(Head(events)) :
          watch' = [NotWatching EXCEPT !.pc = "paired", !.from = p,
                      !.read = disk[Head(events).path], !.restored = ~ Tracked(p)]
    BY <1>9 DEF WatchCreatedPairs
  <2>2. p \in Path
    BY <1>w, <2>1 DEF Unpaired, find_rename_source, Candidates, TrackedPaths, Tombstone
  <2>3. events # <<>> /\ UNCHANGED <<events, tombs>>
    BY <1>9 DEF WatchCreatedPairs, WatchEventIs
  <2>4. disk[Head(events).path] \in Stored
    BY <1>h, <2>3 DEF TypesInv
  <2>5. watch' \in Watching /\ watch'.pc = "paired" /\ watch'.from = p
    BY <2>1, <2>2, <2>4 DEF NotWatching, Watching
  <2> QED BY <1>w, <2>2, <2>3, <2>5 DEF WatchStaged, Typed
<1>10. CASE try_adopt_external_rename
  <2>1. watch' = [watch EXCEPT !.pc = "adopting"] /\ UNCHANGED <<events, tombs>> /\ watch.pc # "idle"
    BY <1>10 DEF try_adopt_external_rename
  <2>2. watch' \in Watching /\ watch'.pc = "adopting"
    BY <1>w, <2>1 DEF Watching
  <2> QED BY <1>w, <2>1, <2>2 DEF WatchStaged, Typed
<1>11. CASE PairingEnds
  <2>1. /\ watch' = [watch EXCEPT !.pc = "upsert"] /\ watch.read # Absent
        /\ events' = events /\ tombs' \subseteq tombs
    BY <1>11 DEF PairingEnds
  <2>2. watch' \in Watching /\ watch'.pc = "upsert" /\ watch'.read # Absent
    BY <1>w, <2>1 DEF Watching
  <2>3. events # <<>>
    BY <1>11, <1>w DEF PairingEnds, WatchStaged
  <2> QED BY <1>w, <2>1, <2>2, <2>3 DEF WatchStaged, Typed
<1>12. CASE prune_expired
  BY <1>w, <1>12 DEF prune_expired, Typed
<1>13. CASE Crash \/ close_vault
  <2>1. watch' = NotWatching /\ events' = <<>> /\ tombs' = {}
    BY <1>13 DEF Crash, close_vault, Closed
  <2> QED BY <1>r, <2>1
<1> QED BY <1>1, <1>2, <1>3, <1>4, <1>5, <1>6, <1>7, <1>8, <1>9, <1>10, <1>11, <1>12, <1>13,
           WhoWritesWatch

-------------------------------------------------------------------------------
(* The scan *)

LEMMA WhoWritesScan ==
  ASSUME [Next]_vars
  PROVE  \/ UNCHANGED scan
         \/ commit_rename \/ QueueFolder \/ RenamedEnds \/ WatchCreatedPairs \/ UpsertPaired \/ WatchFile
         \/ open_vault \/ (\E p \in Path : ScanFile(p) \/ ScanSkips(p)) \/ Sweep \/ ScanFails \/ ReplayEnds
         \/ Crash \/ close_vault
BY DEF Next, Rename, FolderRename, Flush, Watcher, Scan, vars, rename_file, MoveFile, MoveFails,
       CommitFails, JournalRename, Reextract, rename_folder, FolderRefused, MoveFolder,
       MoveFolderFails, CommitFolder, CommitFolderFails, JournalInFolder, ReextractInFolder,
       FolderEnds, flush_all_for_vault, FlushEnds, flush_pending_for_target, MoveExternal,
       WatchRenamed, WatchRemoved, try_adopt_external_rename, PairingEnds, WatchSkips, prune_expired,
       WalkEnds, WriteLinks, journal_renames_found_by_scan, replay_rename_journal, ReplayEntry,
       WipeIndex, Tick

(* A scan and what becomes of it.                                           *)
LEMMA ScanPut ==
  ASSUME NEW s \in Scanning
  PROVE  /\ \A A, B \in SUBSET Path : [s EXCEPT !.seen = A, !.fresh = B] \in Scanning
         /\ \A A \in SUBSET Path : /\ [s EXCEPT !.seen = A] \in Scanning
                                   /\ [s EXCEPT !.paths = A] \in Scanning
         /\ \A A \in SUBSET Path, G \in SUBSET Tombstone :
              [s EXCEPT !.paths = A, !.gone = G] \in Scanning
         /\ \A A \in SUBSET Path, F \in SUBSET Found :
              [s EXCEPT !.paths = A, !.found = F] \in Scanning
         /\ s.paths \in SUBSET Path /\ s.seen \in SUBSET Path /\ s.fresh \in SUBSET Path
         /\ s.found \in SUBSET Found
BY DEF Scanning

LEMMA NoScanTyped ==
  /\ NoScan \in Scanning
  /\ [NoScan EXCEPT !.paths = Path] \in Scanning
BY DEF NoScan, Scanning

LEMMA TouchedTyped ==
  ASSUME NEW P \in SUBSET Path, scan \in Scanning
  PROVE  Touched(P) \in Scanning
<1>1. PICK A, B : A = scan.seen \union P /\ B = scan.fresh \union (P \ TrackedPaths)
  OBVIOUS
<1>2. A \in SUBSET Path /\ B \in SUBSET Path
  BY <1>1, ScanPut
<1>3. Touched(P) \in {scan, [scan EXCEPT !.seen = A, !.fresh = B]}
  BY <1>1 DEF Touched
<1>4. [scan EXCEPT !.seen = A, !.fresh = B] \in Scanning
  BY Zenon, <1>2, ScanPut
<1> QED BY <1>3, <1>4

LEMMA ScanTyped ==
  ASSUME QueueInv, TypesInv, StageInv, [Next]_vars
  PROVE  scan' \in Scanning
<1> SUFFICES ASSUME scan' # scan PROVE scan' \in Scanning
  BY DEF TypesInv
<1>s. /\ scan \in Scanning /\ TrackedPaths \in SUBSET Path
      /\ scan.paths \in SUBSET Path /\ scan.seen \in SUBSET Path /\ scan.fresh \in SUBSET Path
      /\ scan.found \in SUBSET Found
  BY ScanPut DEF TypesInv, TrackedPaths
<1>1. ASSUME NEW M \in Pairs,
             scan' = [scan EXCEPT !.seen = {Moved(p, M) : p \in @}, !.fresh = {Moved(p, M) : p \in @}]
      PROVE  scan' \in Scanning
  <2>1. PICK A, B : A = {Moved(p, M) : p \in scan.seen} /\ B = {Moved(p, M) : p \in scan.fresh}
    OBVIOUS
  <2>2. A \in SUBSET Path /\ B \in SUBSET Path
    BY <1>s, <2>1, MovedTyped
  <2>3. scan' = [scan EXCEPT !.seen = A, !.fresh = B]
    BY <1>1, <2>1
  <2> QED BY <1>s, <2>2, <2>3, ScanPut
<1>2. CASE commit_rename
  <2>1. {<<job.from, job.to>>} \in Pairs
    BY <1>2 DEF commit_rename, StageInv, Pairs
  <2> QED BY <1>1, <1>2, <2>1 DEF commit_rename
<1>3. CASE QueueFolder
  <2>1. job.plans \in Pairs
    BY DEF TypesInv, Job
  <2> QED BY <1>1, <1>3, <2>1 DEF QueueFolder, path_map
<1>4. CASE RenamedEnds
  <2>1. PICK P : P = {IF watch.adopted THEN Head(events).path ELSE Head(events).from} \intersect TrackedPaths
    OBVIOUS
  <2>2. P \in SUBSET Path /\ scan' = Touched(P)
    BY <1>s, <1>4, <2>1 DEF RenamedEnds
  <2> QED BY <1>s, <2>2, TouchedTyped
<1>5. CASE WatchCreatedPairs
  <2>1. PICK p \in Unpaired(Head(events)) : scan' = scan \/ scan' = [scan EXCEPT !.seen = @ \union {p}]
    BY <1>5 DEF WatchCreatedPairs
  <2>2. p \in Path
    BY <2>1 DEF Unpaired, find_rename_source, Candidates, TrackedPaths, Tombstone, TypesInv
  <2>3. PICK A : A = scan.seen \union {p}
    OBVIOUS
  <2>4. A \in SUBSET Path /\ scan' \in {scan, [scan EXCEPT !.seen = A]}
    BY <1>s, <2>1, <2>2, <2>3
  <2> QED BY <1>s, <2>4, ScanPut
<1>6. CASE UpsertPaired \/ WatchFile
  <2>1. events # <<>> /\ events \in Seq(Event)
    BY <1>6 DEF UpsertPaired, WatchFile, WatchEventIs, TypesInv, StageInv
  <2>2. PICK p \in Path : p = Head(events).path
    BY <2>1, FirstTyped
  <2>3. {p} \in SUBSET Path /\ (scan' = scan \/ scan' = Touched({p}))
    BY <1>6, <2>2 DEF UpsertPaired, WatchFile, upsert_file
  <2> QED BY <1>s, <2>3, TouchedTyped
<1>7. CASE open_vault
  BY <1>7, NoScanTyped DEF open_vault
<1>8. ASSUME NEW p \in Path, ScanFile(p) \/ ScanSkips(p) PROVE scan' \in Scanning
  <2>1. PICK A : A = scan.paths \ {p}
    OBVIOUS
  <2>2. A \in SUBSET Path
    BY <1>s, <2>1
  <2>3. CASE disk[p] = Absent \/ ScanSkips(p)
    <3>1. scan' = [scan EXCEPT !.paths = A]
      BY <1>8, <2>1, <2>3 DEF ScanFile, ScanSkips
    <3> QED BY <1>s, <2>2, <3>1, ScanPut
  <2>4. CASE disk[p] # Absent /\ ScanFile(p)
    <3>1. disk[p] \in Note /\ db \in Index /\ OneRow(db.rows)
      BY <2>4 DEF TypesInv, Stored, QueueInv, RowsInv, QueueKept
    <3>2. PICK v \in SUBSET Token : v = View(p)
      BY <3>1, ViewTyped
    <3>3. PICK F : F = scan.found \union {[src |-> p, text |-> v]}
      OBVIOUS
    <3>4. F \in SUBSET Found
      BY <1>s, <3>2, <3>3 DEF Found
    <3>5. PICK t : t = Touched({p})
      OBVIOUS
    <3>6. t \in Scanning
      BY <1>s, <3>5, TouchedTyped
    <3>7. t.paths = scan.paths /\ t.found = scan.found
      BY <1>s, <3>5 DEF Touched, Scanning
    <3>8. scan' = [t EXCEPT !.paths = A, !.found = F]
      BY <1>8, <2>1, <2>4, <3>2, <3>3, <3>5, <3>7 DEF ScanFile
    <3> QED BY <2>2, <3>4, <3>6, <3>8, ScanPut
  <2> QED BY <1>8, <2>3, <2>4
<1>9. CASE Sweep
  <2>1. PICK A, G : /\ A = TrackedPaths \ (TrackedPaths \ scan.seen)
                    /\ G = {[path |-> p, stats |-> db.files[p]] : p \in TrackedPaths \ scan.seen}
    OBVIOUS
  <2>2. A \in SUBSET Path
    BY <1>s, <2>1
  <2>3. G \in SUBSET Tombstone
    <3>1. \A p \in TrackedPaths : p \in Path /\ db.files[p] \in Note
      BY DEF TrackedPaths, Tracked, TypesInv, Index, Stored
    <3> QED BY <2>1, <3>1 DEF Tombstone
  <2>4. scan' = [scan EXCEPT !.paths = A, !.gone = G]
    BY <1>9, <2>1 DEF Sweep
  <2> QED BY <1>s, <2>2, <2>3, <2>4, ScanPut
<1>10. CASE ScanFails \/ ReplayEnds \/ Crash \/ close_vault
  BY <1>10, NoScanTyped DEF ScanFails, ReplayEnds, Crash, close_vault, Closed
<1> QED BY <1>2, <1>3, <1>4, <1>5, <1>6, <1>7, <1>8, <1>9, <1>10, WhoWritesScan

-------------------------------------------------------------------------------
(* The journal and the clock *)

LEMMA WhoWritesLog ==
  ASSUME [Next]_vars
  PROVE  \/ UNCHANGED <<journal, second>>
         \/ JournalRename \/ JournalInFolder \/ FlushEnds \/ journal_renames_found_by_scan
         \/ ReplayEnds \/ Tick
BY DEF Next, Rename, FolderRename, Flush, Watcher, Scan, vars, rename_file, MoveFile, MoveFails,
       commit_rename, CommitFails, Reextract, rename_folder, QueueFolder, FolderRefused,
       MoveFolder, MoveFolderFails, CommitFolder, CommitFolderFails, ReextractInFolder,
       FolderEnds, flush_all_for_vault, flush_pending_for_target, MoveExternal,
       WatchRenamed, RenamedEnds, WatchRemoved, WatchCreatedPairs, try_adopt_external_rename,
       PairingEnds, UpsertPaired, WatchFile, upsert_file, WatchSkips, prune_expired, open_vault,
       ScanFile, ScanSkips, WalkEnds, Sweep, ScanFails,
       WriteLinks, replay_rename_journal, ReplayEntry, Crash, close_vault, Closed, WipeIndex

(* What a scan pairs are paths.                                             *)
LEMMA FoundPairs ==
  ASSUME db \in Index, scan \in Scanning
  PROVE  pair_vanished_after_scan \in SUBSET (Path \X Path)
<1>1. scan.gone \in SUBSET Tombstone /\ appeared_since \in SUBSET [path : Path, stats : Note]
  BY DEF Scanning, appeared_since, TrackedPaths, Tracked, Index, Stored
<1>2. \A by : Alike(by) \in SUBSET (scan.gone \X appeared_since)
  BY DEF Alike
<1>3. \A x \in scan.gone \X appeared_since : x[1].path \in Path /\ x[2].path \in Path
  BY <1>1 DEF Tombstone
<1>4. \A p \in pair_vanished_after_scan :
        \E x \in scan.gone \X appeared_since : p = <<x[1].path, x[2].path>>
  BY <1>2 DEF pair_vanished_after_scan
<1> QED BY <1>3, <1>4

(* The entries of a scan are finitely many.                                 *)
LEMMA FoundEntries ==
  ASSUME NEW P \in SUBSET (Path \X Path)
  PROVE  /\ {[op |-> 0, from |-> x[1], to |-> x[2]] : x \in P} \in SUBSET Entry
         /\ IsFiniteSet({[op |-> 0, from |-> x[1], to |-> x[2]] : x \in P})
<1>1. IsFiniteSet(P)
  BY FS_Product, FS_Subset, FiniteAssumption
<1>2. {[op |-> 0, from |-> x[1], to |-> x[2]] : x \in P} \in SUBSET Entry
  BY DEF Entry
<1>3. PICK E : E = {[op |-> 0, from |-> x[1], to |-> x[2]] : x \in P}
  OBVIOUS
<1>4. PICK f : f = [x \in P |-> [op |-> 0, from |-> x[1], to |-> x[2]]]
  OBVIOUS
<1>5. f \in Surjection(P, E)
  <2>1. f \in [P -> E] /\ \A e \in E : \E x \in P : f[x] = e
    BY <1>3, <1>4
  <2> QED BY <2>1 DEF Surjection
<1>6. IsFiniteSet(E)
  BY <1>1, <1>5, FS_Surjection
<1> QED BY <1>2, <1>3, <1>6

LEMMA LogTyped ==
  ASSUME QueueInv, TypesInv, StageInv, [Next]_vars
  PROVE  journal' \in Seq(Entry) /\ second' \in 0 .. MaxSecond
<1>t. journal \in Seq(Entry) /\ second \in 0 .. MaxSecond /\ db.nextOp - 1 \in Nat
  BY DEF TypesInv, Index
<1>1. CASE UNCHANGED <<journal, second>>
  BY <1>t, <1>1
<1>2. CASE JournalRename \/ JournalInFolder
  <2>1. PICK p \in Path, q \in Path :
          journal' = Append(journal, [op |-> db.nextOp - 1, from |-> p, to |-> q])
    <3>1. CASE JournalRename
      BY <3>1 DEF JournalRename, StageInv, append_entry
    <3>2. CASE JournalInFolder
      <4>1. PICK x \in job.plans : journal' = append_entry(journal, db.nextOp - 1, x[1], x[2])
        BY <3>2 DEF JournalInFolder
      <4>2. x[1] \in Path /\ x[2] \in Path
        BY <4>1 DEF TypesInv, Job, Pairs
      <4> QED BY <4>1, <4>2 DEF append_entry
    <3> QED BY <1>2, <3>1, <3>2
  <2>2. PICK e \in Entry : e = [op |-> db.nextOp - 1, from |-> p, to |-> q]
    BY <1>t DEF Entry
  <2>3. UNCHANGED second
    BY <1>2 DEF JournalRename, JournalInFolder
  <2> QED BY <1>t, <2>1, <2>2, <2>3
<1>3. CASE FlushEnds \/ ReplayEnds
  <2>1. UNCHANGED second /\ journal' \in {journal, prune_materialized_journal(journal, db)}
    BY <1>3 DEF FlushEnds, ReplayEnds
  <2>2. prune_materialized_journal(journal, db) \in Seq(Entry)
    BY <1>t, WithoutTyped DEF prune_materialized_journal
  <2> QED BY <1>t, <2>1, <2>2
<1>4. CASE journal_renames_found_by_scan
  <2>1. PICK P : P = pair_vanished_after_scan
    OBVIOUS
  <2>2. P \in SUBSET (Path \X Path)
    BY <2>1, FoundPairs DEF TypesInv
  <2>3. PICK E : E = {[op |-> 0, from |-> x[1], to |-> x[2]] : x \in P}
    OBVIOUS
  <2>4. E \in SUBSET Entry /\ IsFiniteSet(E)
    BY <2>2, <2>3, FoundEntries
  <2>5. SetToSeq(E) \in Seq(Entry)
    BY <2>4, SequenceOfSet
  <2>6. journal' = journal \o SetToSeq(E) /\ UNCHANGED second
    BY <1>4, <2>1, <2>3 DEF journal_renames_found_by_scan
  <2> QED BY <1>t, <2>5, <2>6
<1>5. CASE Tick
  BY <1>t, <1>5, BoundAssumption DEF Tick
<1> QED BY <1>1, <1>2, <1>3, <1>4, <1>5, WhoWritesLog

-------------------------------------------------------------------------------
(* Whose turn it is, and the index to go back to *)

LEMMA WhoWritesTurn ==
  ASSUME [Next]_vars
  PROVE  \/ UNCHANGED <<saved, phase, job>>
         \/ rename_file \/ MoveFile \/ MoveFails \/ commit_rename \/ CommitFails
         \/ JournalRename \/ Reextract
         \/ rename_folder \/ QueueFolder \/ FolderRefused \/ MoveFolder \/ MoveFolderFails
         \/ CommitFolder \/ CommitFolderFails \/ JournalInFolder \/ ReextractInFolder
         \/ FolderEnds \/ flush_all_for_vault \/ FlushEnds
         \/ (\E f \in Path : flush_pending_for_target(f))
         \/ WatchRenamed \/ try_adopt_external_rename
         \/ open_vault \/ WalkEnds \/ Sweep \/ ScanFails \/ WriteLinks
         \/ journal_renames_found_by_scan \/ replay_rename_journal \/ ReplayEntry \/ ReplayEnds
         \/ Crash \/ close_vault
BY DEF Next, Rename, FolderRename, Flush, Watcher, Scan, vars, RenamedEnds, WatchRemoved,
       WatchCreatedPairs, PairingEnds, UpsertPaired, WatchFile, upsert_file, WatchSkips,
       prune_expired, ScanFile, ScanSkips, MoveExternal,
       WipeIndex, Tick

(* The index to roll back to is kept while a transaction is open.           *)
TurnTyped ==
  /\ IF InTransaction THEN saved \in Index ELSE saved = Null
  /\ phase \in Phase
  /\ job.pc = "replay" => phase = "replay"

LEMMA TurnKept ==
  ASSUME QueueInv, TypesInv, StageInv, [Next]_vars
  PROVE  TurnTyped'
<1>t. /\ IF InTransaction THEN saved \in Index ELSE saved = Null
      /\ phase \in Phase /\ job \in Job /\ db \in Index /\ db' \in Index
      /\ job.pc = "replay" => phase = "replay"
      /\ phase \in {"walk", "links"} => job.pc \notin {"queued", "relocated"}
      /\ phase = "closed" => job.pc = "idle"
  BY IndexTyped DEF TypesInv, StageInv, QueueInv, TurnInv
<1>k. ASSUME UNCHANGED <<saved, phase>>,
             job'.pc \in {"queued", "relocated"} <=> job.pc \in {"queued", "relocated"},
             job'.pc = "replay" => job.pc = "replay" \/ phase = "replay"
      PROVE  TurnTyped'
  BY <1>t, <1>k DEF TurnTyped, InTransaction
<1>1. CASE UNCHANGED <<saved, phase, job>>
  BY <1>k, <1>1
<1>q. ASSUME UNCHANGED <<saved, phase>>, job.pc \notin {"queued", "relocated"},
             \/ job' = job \/ job' = Idle
             \/ \E s \in {"checked", "moved"} :
                  \E p, q : job' = [Idle EXCEPT !.pc = s, !.from = p, !.to = q]
             \/ \E M, N : job' = [Idle EXCEPT !.pc = "planned", !.folder = M, !.plans = N]
             \/ \E T : job' = [Idle EXCEPT !.pc = "flush", !.todo = T]
             \/ \E T : job' = [Idle EXCEPT !.pc = "flush", !.prune = TRUE, !.todo = T]
      PROVE  TurnTyped'
  <2>1. /\ Idle.pc = "idle"
        /\ \A s, p, q : [Idle EXCEPT !.pc = s, !.from = p, !.to = q].pc = s
        /\ \A s, M, N : [Idle EXCEPT !.pc = s, !.folder = M, !.plans = N].pc = s
        /\ \A s, T : [Idle EXCEPT !.pc = s, !.todo = T].pc = s
        /\ \A s, T : [Idle EXCEPT !.pc = s, !.prune = TRUE, !.todo = T].pc = s
    BY DEF Idle
  <2>2. job' = job \/ job'.pc \in {"idle", "checked", "moved", "planned", "flush"}
    <3>1. CASE job' \in {job, Idle}
      BY <2>1, <3>1
    <3>2. ASSUME NEW s \in {"checked", "moved"}, NEW p, NEW q,
                 job' = [Idle EXCEPT !.pc = s, !.from = p, !.to = q]
          PROVE  job'.pc = s
      BY Zenon, <2>1, <3>2
    <3>3. ASSUME NEW M, NEW N, job' = [Idle EXCEPT !.pc = "planned", !.folder = M, !.plans = N]
          PROVE  job'.pc = "planned"
      BY Zenon, <2>1, <3>3
    <3>4. ASSUME NEW T, job' = [Idle EXCEPT !.pc = "flush", !.todo = T]
          PROVE  job'.pc = "flush"
      BY Zenon, <2>1, <3>4
    <3>5. ASSUME NEW T, job' = [Idle EXCEPT !.pc = "flush", !.prune = TRUE, !.todo = T]
          PROVE  job'.pc = "flush"
      BY Zenon, <2>1, <3>5
    <3> QED BY <1>q, <3>1, <3>2, <3>3, <3>4, <3>5
  <2> QED BY <1>k, <1>q, <2>2
<1>p. ASSUME UNCHANGED <<saved, phase>>,
             NEW s, job'.pc = s,
             \/ job.pc \notin {"queued", "relocated"} /\ s \notin {"queued", "relocated", "replay"}
             \/ s = job.pc
             \/ s = "relocated" /\ job.pc = "queued"
      PROVE  TurnTyped'
  BY <1>k, <1>p
<1>2. /\ rename_file \/ MoveFails \/ CommitFails => TurnTyped'
      /\ rename_folder \/ FolderRefused => TurnTyped'
      /\ FolderEnds \/ FlushEnds => TurnTyped'
      /\ flush_all_for_vault => TurnTyped'
      /\ WatchRenamed \/ try_adopt_external_rename => TurnTyped'
  <2>1. ASSUME rename_file \/ MoveFails \/ CommitFails PROVE TurnTyped'
    BY <1>q, <2>1 DEF rename_file, MoveFails, CommitFails, Free
  <2>2. ASSUME rename_folder \/ FolderRefused PROVE TurnTyped'
    BY <1>q, <2>2 DEF rename_folder, FolderRefused, Free
  <2>3. ASSUME FolderEnds \/ FlushEnds PROVE TurnTyped'
    BY <1>q, <2>3 DEF FolderEnds, FlushEnds
  <2>4. ASSUME flush_all_for_vault PROVE TurnTyped'
    BY <1>q, <2>4 DEF flush_all_for_vault, Free
  <2>5. ASSUME WatchRenamed \/ try_adopt_external_rename PROVE TurnTyped'
    <3>1. /\ UNCHANGED <<saved, phase>> /\ job.pc = "idle"
          /\ \E p, q : job' = job \/ job' = [Idle EXCEPT !.pc = "moved", !.from = p, !.to = q]
      BY <2>5 DEF WatchRenamed, try_adopt_external_rename, adopt_external_rename
    <3> QED BY <1>q, <3>1
  <2> QED BY <2>1, <2>2, <2>3, <2>4, <2>5
<1>3. CASE \/ MoveFile \/ commit_rename \/ JournalRename \/ Reextract \/ MoveFolder
           \/ JournalInFolder \/ ReextractInFolder \/ ReplayEntry
           \/ (\E f \in Path : flush_pending_for_target(f))
  <2>1. UNCHANGED <<saved, phase>>
    BY <1>3 DEF MoveFile, commit_rename, JournalRename, Reextract, MoveFolder, JournalInFolder,
       ReextractInFolder, ReplayEntry, flush_pending_for_target
  <2>2. /\ Idle.pc = "idle"
        /\ \A s : [job EXCEPT !.pc = s].pc = s
        /\ \A s, T : [job EXCEPT !.pc = s, !.todo = T].pc = s
        /\ \A s, p, M : [job EXCEPT !.pc = s, !.to = p, !.plans = M].pc = s
        /\ \A n : [job EXCEPT !.n = n].pc = job.pc
        /\ \A T : [job EXCEPT !.todo = T].pc = job.pc
    BY <1>t DEF Job, Idle
  <2>3. CASE MoveFile
    <3>1. job.pc = "checked" /\ job'.pc = "moved"
      BY <2>2, <2>3 DEF MoveFile
    <3> QED BY <1>p, <2>1, <3>1
  <2>4. CASE commit_rename
    <3>1. job.pc = "moved" /\ job'.pc = "committed"
      BY <2>2, <2>4 DEF commit_rename
    <3> QED BY <1>p, <2>1, <3>1
  <2>5. CASE JournalRename
    <3>1. job.pc = "committed" /\ job'.pc = "journaled"
      BY <2>2, <2>5 DEF JournalRename
    <3> QED BY <1>p, <2>1, <3>1
  <2>6. CASE Reextract
    <3>1. /\ job.pc = "journaled"
          /\ job' = Idle \/ \E T : job' = [job EXCEPT !.pc = "flush", !.todo = T]
      BY <2>6 DEF Reextract
    <3>2. ASSUME NEW T, job' = [job EXCEPT !.pc = "flush", !.todo = T] PROVE job'.pc = "flush"
      BY Zenon, <2>2, <3>2
    <3>3. job'.pc \in {"idle", "flush"}
      BY <2>2, <3>1, <3>2
    <3> QED BY <1>p, <2>1, <3>1, <3>3
  <2>7. CASE MoveFolder
    <3>1. job.pc = "queued" /\ job'.pc = "relocated"
      BY <2>2, <2>7 DEF MoveFolder
    <3> QED BY <1>p, <2>1, <3>1
  <2>8. CASE JournalInFolder
    <3>1. job.pc = "listed" /\ job'.pc = "listing"
      BY <2>2, <2>8 DEF JournalInFolder
    <3> QED BY <1>p, <2>1, <3>1
  <2>9. CASE ReextractInFolder
    <3>1. job.pc = "listing" /\ job'.pc = "listed"
      BY <2>2, <2>9 DEF ReextractInFolder
    <3> QED BY <1>p, <2>1, <3>1
  <2>10. CASE ReplayEntry \/ \E f \in Path : flush_pending_for_target(f)
    <3>1. \/ \E n : job' = [job EXCEPT !.n = n]
          \/ \E T : job' = [job EXCEPT !.todo = T]
      BY <2>10 DEF ReplayEntry, flush_pending_for_target
    <3>2. ASSUME NEW n, job' = [job EXCEPT !.n = n] PROVE job'.pc = job.pc
      BY Zenon, <2>2, <3>2
    <3>3. ASSUME NEW T, job' = [job EXCEPT !.todo = T] PROVE job'.pc = job.pc
      BY Zenon, <2>2, <3>3
    <3>4. job'.pc = job.pc
      BY <3>1, <3>2, <3>3
    <3> QED BY <1>p, <2>1, <3>4
  <2> QED BY <1>3, <2>3, <2>4, <2>5, <2>6, <2>7, <2>8, <2>9, <2>10
<1>r. CASE replay_rename_journal
  <2>1. phase = "replay" /\ job.pc = "idle" /\ UNCHANGED <<saved, phase>> /\ job'.pc = "replay"
    BY <1>r DEF replay_rename_journal, Free, Idle
  <2> QED BY <1>k, <2>1
<1>4. CASE QueueFolder
  <2>1. saved' = [db EXCEPT !.nextOp = @ + 1] /\ UNCHANGED phase
        /\ \E T : job' = [job EXCEPT !.pc = "queued", !.todo = T]
    BY <1>4 DEF QueueFolder
  <2>2. saved' \in Index /\ job'.pc = "queued"
    BY <1>t, <2>1, IndexPut DEF Job
  <2> QED BY <1>t, <2>1, <2>2 DEF TurnTyped, InTransaction
<1>5. CASE MoveFolderFails \/ CommitFolderFails \/ CommitFolder
  <2>1. saved' = Null /\ UNCHANGED phase /\ job.pc \in {"queued", "relocated"}
        /\ job' \in {Idle, [job EXCEPT !.pc = "listed"]}
    BY <1>5 DEF MoveFolderFails, CommitFolderFails, CommitFolder, RolledBack
  <2>2. job'.pc \in {"idle", "listed"}
    BY <1>t, <2>1 DEF Job, Idle
  <2> QED BY <1>t, <2>1, <2>2 DEF TurnTyped, InTransaction
<1>6. CASE open_vault \/ Sweep
  <2>1. /\ saved' \in Index /\ phase' \in {"walk", "links"} /\ UNCHANGED job
        /\ job.pc # "replay"
    BY <1>t, <1>6 DEF open_vault, Sweep
  <2> QED BY <2>1 DEF TurnTyped, InTransaction, Phase
<1>7. CASE WalkEnds \/ WriteLinks
  <2>1. /\ saved' = Null /\ phase' \in {"sweep", "pair"} /\ UNCHANGED job
        /\ job.pc \notin {"queued", "relocated", "replay"}
    BY <1>t, <1>7 DEF WalkEnds, WriteLinks
  <2> QED BY <2>1 DEF TurnTyped, InTransaction, Phase
<1>8. CASE ScanFails \/ journal_renames_found_by_scan
  <2>1. /\ phase' \in {"open", "replay"} /\ UNCHANGED <<job, saved>> /\ phase \in {"sweep", "pair"}
    BY <1>8 DEF ScanFails, journal_renames_found_by_scan
  <2> QED BY <1>t, <2>1 DEF TurnTyped, InTransaction, Phase
<1>9. CASE ReplayEnds
  <2>1. UNCHANGED saved /\ job.pc = "replay" /\ phase' = "open" /\ job' = Idle
    BY <1>9 DEF ReplayEnds
  <2> QED BY <1>t, <2>1 DEF TurnTyped, InTransaction, Phase, Idle
<1>10. CASE Crash \/ close_vault
  <2>1. saved' = Null /\ phase' = "closed" /\ job' = Idle
    BY <1>10 DEF Crash, close_vault, Closed
  <2> QED BY <2>1 DEF TurnTyped, InTransaction, Phase, Idle
<1> QED BY <1>1, <1>2, <1>3, <1>r, <1>4, <1>5, <1>6, <1>7, <1>8, <1>9, <1>10, WhoWritesTurn

-------------------------------------------------------------------------------
(* Every part of the state holds notes, links, rows and events, and every     *)
(* stage of an operation has what it goes on with.                          *)
THEOREM StagesTyped == Spec => [](TypesInv /\ StageInv)
<1>1. Init => TypesInv /\ StageInv
  <2> SUFFICES ASSUME Init PROVE TypesInv /\ StageInv
    OBVIOUS
  <2>1. disk \in [Path -> Stored]
    BY TextAssumption DEF Init, InitNote, Stored, Note
  <2>2. db \in Index
    <3>1. PICK L : L = UNION {link_rows(p, disk[p].text, OnDisk) : p \in OnDisk}
      OBVIOUS
    <3>2. OnDisk \in SUBSET Path /\ \A p \in OnDisk : disk[p].text \in SUBSET Token
      BY <2>1 DEF OnDisk, Stored, Note
    <3>3. L \in SUBSET Link
      BY <3>1, <3>2, LinkRowsTyped
    <3>4. db = [files |-> disk, links |-> L, rows |-> {}, nextOp |-> 1]
      BY <3>1 DEF Init
    <3> QED BY <2>1, <3>3, <3>4 DEF Index
  <2>3. job \in Job /\ watch \in Watching /\ scan \in Scanning /\ journal \in Seq(Entry)
        /\ events \in Seq(Event) /\ second \in 0 .. MaxSecond
    <3>1. job \in Job /\ scan \in Scanning
      BY JobStart, NoScanTyped DEF Init
    <3>2. watch \in Watching
      BY DEF Init, NotWatching, Watching, Stored
    <3>3. journal = <<>> /\ events = <<>> /\ second \in 0 .. MaxSecond
      BY BoundAssumption DEF Init
    <3> QED BY <3>1, <3>2, <3>3
  <2> QED BY <2>1, <2>2, <2>3 DEF Init, TypesInv, StageInv, InTransaction, Idle, NotWatching, Phase
<1>2. QueueInv /\ TypesInv /\ StageInv /\ [Next]_vars => TypesInv' /\ StageInv'
  <2> SUFFICES ASSUME QueueInv, TypesInv, StageInv, [Next]_vars PROVE TypesInv' /\ StageInv'
    OBVIOUS
  <2>1. /\ disk' \in [Path -> Stored] /\ db' \in Index
        /\ journal' \in Seq(Entry) /\ second' \in 0 .. MaxSecond
    BY DiskTyped, IndexTyped, LogTyped
  <2>2. job' \in Job /\ JobStaged(job')
    BY JobTyped
  <2>3. /\ watch' \in Watching /\ events' \in Seq(Event) /\ tombs' \in SUBSET Tombstone
        /\ WatchStaged(watch', events') /\ scan' \in Scanning
    BY WatchTyped, ScanTyped
  <2>4. TurnTyped'
    BY TurnKept
  <2>5. TypesInv'
    BY <2>1, <2>2, <2>3, <2>4 DEF TypesInv, TurnTyped
  <2> QED BY <2>2, <2>3, <2>4, <2>5 DEF StageInv, JobStaged, WatchStaged, TurnTyped
<1> QED BY <1>1, <1>2, QueueKeeps, PTL DEF Spec

(* The index, the journal and every stage of a rename, a flush, a scan and the *)
(* watcher hold what they are declared to hold, whoever renames what; an index *)
(* to roll back to is kept exactly while a transaction is open.             *)
THEOREM RenamesTyped == Spec => []TypeOK
<1>1. TypesInv => TypeOK
  <2> SUFFICES ASSUME TypesInv PROVE TypeOK
    OBVIOUS
  <2>1. (saved # Null) = InTransaction
    <3>1. InTransaction => saved \in Index
      BY DEF TypesInv
    <3>2. ~ InTransaction => saved = Null
      BY DEF TypesInv
    <3>3. InTransaction \in BOOLEAN
      BY DEF InTransaction
    <3>4. InTransaction <=> saved # Null
      BY <3>1, <3>2, NullAssumption
    <3> QED BY <3>3, <3>4
  <2>2. job.pc \in Stage /\ job.todo \in SUBSET Path
    BY JobPut DEF TypesInv
  <2> QED BY <2>1, <2>2 DEF TypesInv, TypeOK, Index, Stage, Phase
<1> QED BY <1>1, StagesTyped, PTL
-------------------------------------------------------------------------------
(* Whose path is whose.  Where nothing competes every path is one note's, and  *)
(* whatever is kept under a path is that note's: its file, its row, the names *)
(* in it and in its rewrites, and what an event, a pairing or an entry of the *)
(* journal takes it to.                                                     *)

(* No name and no text is of two notes. *)
NothingCompeting == \E O \in [Path -> Path] : NoneCompete(O)
Owner == CHOOSE O \in [Path -> Path] : NoneCompete(O)

Origins == {p \in Path : InitText[p] # Absent}

(* The tokens that name no other note than n led to at the start.           *)
Fits(n) == {k \in Token : \A q \in Path : token_names_file(k, q) => Owner[q] \in LedTo(n)}

(* A file at p, a row of it or a tombstone, is its owner's; on disk it also    *)
(* names nothing else.                                                      *)
Own(p, s) == s # Absent => s.id = Owner[p] /\ s.id \in Origins
Kept(p, s) == Own(p, s) /\ (s # Absent => s.text \subseteq Fits(Owner[p]))
Alone(x) == Owner[x[1]] = Owner[x[2]]

(* A link that leads somewhere names a path of the note it leads to.        *)
OwnLink ==
  {l \in Link : /\ l.raw \in Fits(Owner[l.src])
                /\ l.target # Null =>
                     \E q \in Path : token_names_file(l.raw, q) /\ Owner[q] = Owner[l.target]}
OwnRow == {r \in Row : r.new \in Fits(Owner[r.target])}
OwnEdit == {e \in Edit : e.new \in Fits(Owner[e.target])}
OwnEntry == {e \in Entry : Owner[e.from] = Owner[e.to]}
OwnEvent == {e \in Event : Owner[e.from] = Owner[e.path]}
OwnTomb == {t \in Tombstone : t.stats # Absent /\ Own(t.path, t.stats)}
OwnFound == {f \in Found : f.text \subseteq Fits(Owner[f.src])}
OwnFiles == {F \in [Path -> Stored] : \A p \in Path : Own(p, F[p])}
OwnIndex ==
  {d \in Index : d.files \in OwnFiles /\ d.links \subseteq OwnLink /\ d.rows \subseteq OwnRow}

(* An operation moves notes between their own paths; events, pairings and   *)
(* what was read for them are about one note.                              *)
JobOwn(j) ==
  /\ j.pc \in {"checked", "moved", "committed", "journaled"} => Owner[j.from] = Owner[j.to]
  /\ \A x \in j.folder \union j.plans : Alone(x)

WatchOwn(w, es) ==
  /\ es \in Seq(OwnEvent)
  /\ w.pc = "paired" => Owner[w.from] = Owner[Head(es).path]
  /\ w.pc # "idle" => Kept(Head(es).path, w.read)

OwnedInv ==
  /\ \A p \in Path : Kept(p, disk[p])
  /\ db \in OwnIndex /\ (InTransaction => saved \in OwnIndex)
  /\ journal \in Seq(OwnEntry)
  /\ JobOwn(job) /\ WatchOwn(watch, events) /\ tombs \subseteq OwnTomb
  /\ scan.gone \subseteq OwnTomb /\ scan.found \subseteq OwnFound

(* What holds of the state whoever competes. *)
Others == QueueInv /\ TypesInv /\ StageInv

-------------------------------------------------------------------------------
(* What it is for a path to be one note's.                                  *)
LEMMA OwnerIs ==
  ASSUME NothingCompeting
  PROVE  /\ Owner \in [Path -> Path]
         /\ \A k, p, q : /\ p \in Path /\ q \in Path
                         /\ token_names_file(k, p) /\ token_names_file(k, q)
                         => Owner[p] = Owner[q]
         /\ \A p \in Origins : /\ Owner[p] = p /\ InitText[p] \subseteq Fits(p)
                               /\ \A q \in Origins : Body[p] = Body[q] => p = q
         /\ \A m \in Moves \union ExternalMoves \union UNION FolderMoves :
              m[2] \in Path => Owner[m[1]] = Owner[m[2]]
<1>1. NoneCompete(Owner) /\ Owner \in [Path -> Path]
  BY DEF NothingCompeting, Owner
<1>2. ASSUME NEW k, NEW p \in Path, NEW q \in Path, token_names_file(k, p), token_names_file(k, q)
      PROVE  Owner[p] = Owner[q]
  <2>1. {Title[p], Stem[p]} \intersect {Title[q], Stem[q]} # {}
    BY <1>2 DEF token_names_file
  <2> QED BY <1>1, <2>1 DEF NoneCompete
<1>3. ASSUME NEW p \in Origins
      PROVE  /\ Owner[p] = p /\ InitText[p] \subseteq Fits(p)
             /\ \A q \in Origins : Body[p] = Body[q] => p = q
  <2>1. InitText[p] \subseteq Token
    BY TextAssumption DEF Origins
  <2> QED BY <1>1, <2>1 DEF NoneCompete, Origins, Fits
<1> QED BY <1>1, <1>2, <1>3 DEF NoneCompete

(* Files that look alike are one note's.                                    *)
LEMMA AlikeAreOne ==
  ASSUME NothingCompeting, NEW p \in Path, NEW q \in Path, NEW s \in Note, NEW t \in Note,
         NEW by, key(by, s) = key(by, t), s # Absent, t # Absent, Own(p, s), Own(q, t)
  PROVE  Owner[p] = Owner[q]
<1>1. s.id = t.id \/ Body[s.id] = Body[t.id]
  BY DEF key, inode, content_hash
<1>2. s.id = t.id
  BY <1>1, OwnerIs DEF Own
<1> QED BY <1>2 DEF Own

(* A name leads to a note that has it.                                      *)
LEMMA ResolveNames ==
  ASSUME NEW k, NEW F, resolve(k, F) # Null
  PROVE  resolve(k, F) \in F /\ token_names_file(k, resolve(k, F))
<1>1. CASE \E p \in F : Stem[p] = k
  <2>1. PICK q : q = CHOOSE p \in F : Stem[p] = k
    OBVIOUS
  <2>2. q \in F /\ Stem[q] = k
    BY <1>1, <2>1
  <2> QED BY <1>1, <2>1, <2>2 DEF resolve, token_names_file
<1>2. CASE ~ \E p \in F : Stem[p] = k
  <2>1. \E p \in F : {q \in F : Title[q] = k} = {p}
    BY <1>2 DEF resolve
  <2>2. PICK q : q = CHOOSE p \in F : Title[p] = k
    OBVIOUS
  <2>3. q \in F /\ Title[q] = k
    <3>1. \E p \in F : Title[p] = k
      BY <2>1
    <3> QED BY <2>2, <3>1
  <2> QED BY <1>2, <2>1, <2>2, <2>3 DEF resolve, token_names_file
<1> QED BY <1>1, <1>2

(* The links of a note name what the note may name.                         *)
LEMMA LinkRowsOwn ==
  ASSUME NEW src \in Path, NEW text, text \subseteq Fits(Owner[src]), NEW F \in SUBSET Path
  PROVE  link_rows(src, text, F) \subseteq OwnLink
<1>1. text \in SUBSET Token
  BY DEF Fits
<1>2. ASSUME NEW l \in link_rows(src, text, F) PROVE l \in OwnLink
  <2>1. l \in Link
    BY <1>1, LinkRowsTyped
  <2>2. l.src = src /\ l.raw \in text /\ l.target = resolve(l.raw, F)
    BY DEF link_rows
  <2>3. l.target # Null => l.target \in Path /\ token_names_file(l.raw, l.target)
    BY <2>2, ResolveNames
  <2> QED BY <2>1, <2>2, <2>3 DEF OwnLink
<1> QED BY <1>2

(* They still do when they are written anew.                                *)
LEMMA ReplaceOwn ==
  ASSUME NEW L, L \subseteq OwnLink, NEW src \in Path, NEW text, text \subseteq Fits(Owner[src]),
         NEW F \in SUBSET Path
  PROVE  replace_links_for_file(L, src, text, F) \subseteq OwnLink
BY LinkRowsOwn DEF replace_links_for_file

(* The rewrites of links to a note that moves name the same note.           *)
LEMMA RewritesOwn ==
  ASSUME NothingCompeting, NEW L, L \subseteq OwnLink, NEW from \in Path, NEW to \in Path,
         Owner[from] = Owner[to],
         \A l \in L : l.target = from \/ token_names_file(l.raw, from)
  PROVE  rewrites_for(L, from, to) \subseteq OwnEdit
<1>1. ASSUME NEW l \in L
      PROVE  [target |-> l.src, old |-> l.raw,
              new |-> derive_wikilink_new_token(l.raw, from, to)] \in OwnEdit
  <2>1. PICK n : n = derive_wikilink_new_token(l.raw, from, to)
    OBVIOUS
  <2>2. n \in Token /\ token_names_file(n, to)
    BY <2>1, NamesTyped DEF derive_wikilink_new_token, token_names_file
  <2>3. PICK o \in Path : token_names_file(l.raw, o) /\ Owner[o] = Owner[from]
    <3>1. CASE token_names_file(l.raw, from)
      BY <3>1
    <3>2. CASE l.target = from
      BY <3>2, NullAssumption DEF OwnLink
    <3> QED BY <3>1, <3>2
  <2>4. Owner[from] \in LedTo(Owner[l.src])
    BY <2>3 DEF OwnLink, Fits
  <2>5. \A q \in Path : token_names_file(n, q) => Owner[q] \in LedTo(Owner[l.src])
    BY <2>2, <2>4, OwnerIs
  <2> QED BY <2>1, <2>2, <2>5 DEF OwnEdit, Edit, OwnLink, Link, Fits
<1> QED BY <1>1 DEF rewrites_for

(* What the rows hold after edits that are for what they name.              *)
LEMMA EnqueueOwn ==
  ASSUME NEW R, R \subseteq OwnRow, NEW E, E \subseteq OwnEdit, NEW at \in Nat, NEW op \in Nat
  PROVE  enqueue_coalesced(R, E, at, op) \subseteq OwnRow
<1>1. enqueue_coalesced(R, E, at, op) \in SUBSET Row
  BY EnqueueTyped DEF OwnRow, OwnEdit
<1>2. \A r \in untouched(R, E) : r \in OwnRow
  BY DEF untouched
<1>3. ASSUME NEW r \in coalesced(R, E, at, op) PROVE r.new \in Fits(Owner[r.target])
  <2>1. PICK k \in Tokens(E) : /\ r.target = k[1]
                               /\ r.new = (CHOOSE e \in E : <<e.target, e.old>> = k).new
    BY <1>3 DEF coalesced
  <2>2. PICK e : e = CHOOSE x \in E : <<x.target, x.old>> = k
    OBVIOUS
  <2>3. e \in E /\ <<e.target, e.old>> = k
    <3>1. \E x \in E : <<x.target, x.old>> = k
      BY <2>1 DEF Tokens
    <3> QED BY <2>2, <3>1
  <2> QED BY <2>1, <2>2, <2>3 DEF OwnEdit
<1> QED BY <1>1, <1>2, <1>3 DEF enqueue_coalesced, OwnRow

(* A path and where it moves are one note's.                                *)
LEMMA MovedOwn ==
  ASSUME NEW M \in Pairs, \A m \in M : Alone(m)
  PROVE  \A p : Owner[Moved(p, M)] = Owner[p]
<1>1. \A p : (\E m \in M : m[1] = p) => /\ (CHOOSE m \in M : m[1] = p) \in M
                                        /\ (CHOOSE m \in M : m[1] = p)[1] = p
  OBVIOUS
<1> QED BY <1>1 DEF Moved, Alone

(* A link made to lead somewhere names what it leads to.                    *)
LEMMA ReconnectOwn ==
  ASSUME NEW L, L \subseteq OwnLink, NEW M \in Pairs, \A m \in M : Alone(m)
  PROVE  reconnect_broken_links_to(L, M) \subseteq OwnLink
<1>1. ASSUME NEW l \in L, NEW m \in M, l \in broken_referrers_naming(L, m[1])
      PROVE  [l EXCEPT !.target = m[2]] \in OwnLink
  <2>1. PICK p \in Path, q \in Path : p = m[1] /\ q = m[2] /\ Owner[p] = Owner[q]
    BY DEF Pairs, Alone
  <2>2. token_names_file(l.raw, p)
    BY <1>1, <2>1 DEF broken_referrers_naming
  <2>3. l \in Link /\ l.raw \in Fits(Owner[l.src])
    BY DEF OwnLink
  <2>4. PICK k : k = [l EXCEPT !.target = q]
    OBVIOUS
  <2>5. k \in Link /\ k.src = l.src /\ k.raw = l.raw /\ k.target = q
    BY <2>3, <2>4 DEF Link
  <2>6. k \in OwnLink
    BY <2>1, <2>2, <2>3, <2>5 DEF OwnLink
  <2> QED BY <2>1, <2>4, <2>6
<1>2. ASSUME NEW l \in L, NEW N \in SUBSET M, N # {}, \A m \in N : l \in broken_referrers_naming(L, m[1])
      PROVE  [l EXCEPT !.target = (CHOOSE m \in N : TRUE)[2]] \in OwnLink
  <2>1. (CHOOSE m \in N : TRUE) \in N
    BY <1>2
  <2> QED BY <1>1, <1>2, <2>1
<1>3. ASSUME NEW l \in L, NEW N, N = {m \in M : l \in broken_referrers_naming(L, m[1])}
      PROVE  (IF N = {} THEN l ELSE [l EXCEPT !.target = (CHOOSE m \in N : TRUE)[2]]) \in OwnLink
  BY <1>2, <1>3
<1> QED BY <1>3 DEF reconnect_broken_links_to

(* What moves with a path stays with its owner.                             *)
LEMMA RekeyOwn ==
  ASSUME NEW d \in OwnIndex, NEW M \in Pairs, \A m \in M : Alone(m)
  PROVE  rekey_file_in_tx(d, M) \in OwnIndex
<1>d. d \in Index /\ d.files \in OwnFiles /\ d.links \subseteq OwnLink /\ d.rows \subseteq OwnRow
  BY DEF OwnIndex
<1>1. rekey_files(d.files, M) \in OwnFiles
  <2> DEFINE F == d.files
             Here == {m \in M : F[m[1]] # Absent}
  <2>0. F \in OwnFiles
    BY <1>d
  <2>1. ASSUME NEW p \in Path, \E m \in Here : m[2] = p
        PROVE  /\ F[(CHOOSE m \in Here : m[2] = p)[1]] \in Stored
               /\ Own(p, F[(CHOOSE m \in Here : m[2] = p)[1]])
    <3>1. PICK m : m = CHOOSE x \in Here : x[2] = p
      OBVIOUS
    <3>2. m \in M /\ m[2] = p
      BY <2>1, <3>1
    <3>3. m[1] \in Path /\ Owner[m[1]] = Owner[p]
      BY <3>2 DEF Pairs, Alone
    <3>4. F[m[1]] \in Stored /\ Own(p, F[m[1]])
      BY <2>0, <3>3 DEF OwnFiles, Own
    <3> QED BY <3>1, <3>4
  <2>2. \A p \in Path : F[p] \in Stored /\ Own(p, F[p])
    BY <2>0 DEF OwnFiles
  <2>3. Absent \in Stored /\ \A p \in Path : Own(p, Absent)
    BY DEF Stored, Own
  <2> HIDE DEF F
  <2>4. PICK G : G = rekey_files(F, M)
    OBVIOUS
  <2>5. \A p \in Path : G[p] \in Stored /\ Own(p, G[p])
    BY <2>1, <2>2, <2>3, <2>4 DEF rekey_files
  <2>6. G \in [Path -> Stored]
    <3>1. G = [p \in Path |-> G[p]]
      BY <2>4 DEF rekey_files
    <3> QED BY <2>5, <3>1
  <2> QED BY <2>4, <2>5, <2>6 DEF OwnFiles, F
<1>2. rekey_links(d.links, M) \subseteq OwnLink
  <2>1. ASSUME NEW l \in d.links
        PROVE  [l EXCEPT !.src = Moved(@, M), !.target = Moved(@, M)] \in OwnLink
    <3>1. l \in Link /\ l \in OwnLink
      BY <1>d DEF OwnLink
    <3>2. PICK s : s = Moved(l.src, M)
      OBVIOUS
    <3>3. PICK t : t = Moved(l.target, M)
      OBVIOUS
    <3>4. s \in Path /\ t \in Path \union {Null} /\ Owner[s] = Owner[l.src] /\ Owner[t] = Owner[l.target]
      BY <3>1, <3>2, <3>3, MovedTyped, MovedOwn DEF Link
    <3>5. t # Null => l.target # Null
      BY <3>3, NullAssumption DEF Moved, Pairs
    <3>6. PICK k : k = [l EXCEPT !.src = s, !.target = t]
      OBVIOUS
    <3>7. k \in Link /\ k.src = s /\ k.raw = l.raw /\ k.target = t
      BY <3>1, <3>4, <3>6 DEF Link
    <3>8. k \in OwnLink
      BY <3>1, <3>4, <3>5, <3>7 DEF OwnLink
    <3>9. [l EXCEPT !.src = Moved(@, M), !.target = Moved(@, M)] = k
      BY <3>1, <3>2, <3>3, <3>6 DEF Link
    <3> QED BY <3>8, <3>9
  <2>2. {[l EXCEPT !.src = Moved(@, M), !.target = Moved(@, M)] : l \in d.links} \subseteq OwnLink
    BY <2>1
  <2> QED BY <2>2, ReconnectOwn DEF rekey_links
<1>3. rekey_rows(d.rows, M) \subseteq OwnRow
  <2>1. rekey_rows(d.rows, M) \in SUBSET Row
    BY <1>d, MovedTyped DEF rekey_rows, Row, Index
  <2>2. \A r \in rekey_rows(d.rows, M) :
          \E s \in d.rows : r.new = s.new /\ r.target = Moved(s.target, M)
    BY DEF rekey_rows
  <2> QED BY <1>d, <2>1, <2>2, MovedOwn DEF OwnRow
<1>4. rekey_file_in_tx(d, M) \in Index
  BY <1>d, RekeyTyped
<1>5. /\ rekey_file_in_tx(d, M).files = rekey_files(d.files, M)
      /\ rekey_file_in_tx(d, M).links = rekey_links(d.links, M)
      /\ rekey_file_in_tx(d, M).rows = rekey_rows(d.rows, M)
  BY <1>d DEF rekey_file_in_tx, Index
<1> QED BY <1>1, <1>2, <1>3, <1>4, <1>5 DEF OwnIndex

(* A note with its rows applied names what it named.                        *)
LEMMA TextOwn ==
  ASSUME NEW p \in Path, db \in OwnIndex, OneRow(db.rows), NEW s \in Note, Kept(p, s),
         s # Absent
  PROVE  apply_pending(s.text, pending_for_target(p)) \subseteq Fits(Owner[p])
<1>1. pending_for_target(p) \in SUBSET Row /\ OneRow(pending_for_target(p))
  BY DEF pending_for_target, OwnIndex, Index, OneRow
<1>2. Timed(pending_for_target(p)) /\ \A r \in pending_for_target(p) : r.new \in Fits(Owner[p])
  BY <1>1, RowsFinite DEF pending_for_target, OwnIndex, OwnRow
<1>3. s.text \in SUBSET Fits(Owner[p])
  BY DEF Kept
<1> QED BY <1>2, <1>3, ApplyTyped

LEMMA ViewOwn ==
  ASSUME NEW p \in Path, db \in OwnIndex, OneRow(db.rows), disk[p] \in Note, Kept(p, disk[p]),
         disk[p] # Absent
  PROVE  View(p) \subseteq Fits(Owner[p])
BY TextOwn DEF View

(* The index with one of its parts exchanged.                               *)
LEMMA OwnPut ==
  ASSUME NEW d \in OwnIndex
  PROVE  /\ \A p \in Path, s \in Stored : Own(p, s) => [d EXCEPT !.files[p] = s] \in OwnIndex
         /\ \A L : L \subseteq OwnLink => [d EXCEPT !.links = L] \in OwnIndex
         /\ \A R : R \subseteq OwnRow => [d EXCEPT !.rows = R] \in OwnIndex
         /\ [d EXCEPT !.nextOp = @ + 1] \in OwnIndex
<1>d. /\ d \in Index /\ d.files \in OwnFiles /\ d.links \subseteq OwnLink /\ d.rows \subseteq OwnRow
      /\ d.files \in [Path -> Stored]
  BY DEF OwnIndex, OwnFiles
<1>i. d = [files |-> d.files, links |-> d.links, rows |-> d.rows, nextOp |-> d.nextOp]
  BY <1>d, IndexIs
<1>1. ASSUME NEW p \in Path, NEW s \in Stored, Own(p, s)
      PROVE  [d EXCEPT !.files[p] = s] \in OwnIndex
  <2>1. PICK e : e = [d EXCEPT !.files[p] = s]
    OBVIOUS
  <2>2. e \in Index
    BY <1>d, <2>1, IndexPut
  <2>3. e.files = [d.files EXCEPT ![p] = s] /\ e.links = d.links /\ e.rows = d.rows
    BY <1>i, <2>1
  <2>4. e.files \in OwnFiles
    BY <1>d, <1>1, <2>3 DEF OwnFiles
  <2> QED BY <1>d, <2>1, <2>2, <2>3, <2>4 DEF OwnIndex
<1>2. ASSUME NEW L, L \subseteq OwnLink PROVE [d EXCEPT !.links = L] \in OwnIndex
  <2>1. PICK e : e = [d EXCEPT !.links = L]
    OBVIOUS
  <2>2. e \in Index
    BY <1>d, <1>2, <2>1, IndexPut DEF OwnLink
  <2>3. e.files = d.files /\ e.links = L /\ e.rows = d.rows
    BY <1>i, <2>1
  <2> QED BY <1>d, <1>2, <2>1, <2>2, <2>3 DEF OwnIndex
<1>3. ASSUME NEW R, R \subseteq OwnRow PROVE [d EXCEPT !.rows = R] \in OwnIndex
  <2>1. PICK e : e = [d EXCEPT !.rows = R]
    OBVIOUS
  <2>2. e \in Index
    BY <1>d, <1>3, <2>1, IndexPut DEF OwnRow
  <2>3. e.files = d.files /\ e.links = d.links /\ e.rows = R
    BY <1>i, <2>1
  <2> QED BY <1>d, <1>3, <2>1, <2>2, <2>3 DEF OwnIndex
<1>4. [d EXCEPT !.nextOp = @ + 1] \in OwnIndex
  <2>1. PICK e : e = [d EXCEPT !.nextOp = @ + 1]
    OBVIOUS
  <2>2. e \in Index
    BY <1>d, <2>1, IndexPut
  <2>3. e.files = d.files /\ e.links = d.links /\ e.rows = d.rows
    BY <1>i, <2>1
  <2> QED BY <1>d, <2>1, <2>2, <2>3 DEF OwnIndex
<1> QED BY <1>1, <1>2, <1>3, <1>4

(* The index with an op minted as it is written.                            *)
LEMMA OwnMints ==
  ASSUME NEW d \in OwnIndex, NEW R, R \subseteq OwnRow
  PROVE  /\ [d EXCEPT !.rows = R, !.nextOp = @ + 1] \in OwnIndex
         /\ \A L : L \subseteq OwnLink =>
              [d EXCEPT !.links = L, !.rows = R, !.nextOp = @ + 1] \in OwnIndex
<1>1. ASSUME NEW L, L \subseteq OwnLink
      PROVE  [d EXCEPT !.links = L, !.rows = R, !.nextOp = @ + 1] \in OwnIndex
  <2>1. PICK e : e = [d EXCEPT !.links = L]
    OBVIOUS
  <2>2. PICK f : f = [e EXCEPT !.rows = R]
    OBVIOUS
  <2>3. f \in OwnIndex
    BY <1>1, <2>1, <2>2, OwnPut
  <2>4. [d EXCEPT !.links = L, !.rows = R, !.nextOp = @ + 1] = [f EXCEPT !.nextOp = @ + 1]
    BY <2>1, <2>2
  <2> QED BY <2>3, <2>4, OwnPut
<1>2. [d EXCEPT !.rows = R, !.nextOp = @ + 1] \in OwnIndex
  <2>1. PICK f : f = [d EXCEPT !.rows = R]
    OBVIOUS
  <2>2. f \in OwnIndex
    BY <2>1, OwnPut
  <2>3. [d EXCEPT !.rows = R, !.nextOp = @ + 1] = [f EXCEPT !.nextOp = @ + 1]
    BY <2>1
  <2> QED BY <2>2, <2>3, OwnPut
<1> QED BY <1>1, <1>2

(* The index without some files.                                            *)
LEMMA DeleteOwn ==
  ASSUME NEW d \in OwnIndex, NEW P
  PROVE  delete_files(d, P) \in OwnIndex
<1>d. d \in Index /\ d.files \in OwnFiles /\ d.links \subseteq OwnLink /\ d.rows \subseteq OwnRow
  BY DEF OwnIndex
<1>1. delete_files(d, P) \in Index
  BY <1>d, DeleteTyped
<1>2. PICK e : e = delete_files(d, P)
  OBVIOUS
<1>3. /\ e.files = [p \in Path |-> IF p \in P THEN Absent ELSE d.files[p]]
      /\ e.links \subseteq d.links /\ e.rows = d.rows
  BY <1>d, <1>2 DEF delete_files, Index
<1>4. e.files \in OwnFiles
  <2>1. e.files \in [Path -> Stored]
    BY <1>1, <1>2 DEF Index
  <2>2. \A p \in Path : Own(p, e.files[p])
    BY <1>d, <1>3 DEF OwnFiles, Own
  <2> QED BY <2>1, <2>2 DEF OwnFiles
<1> QED BY <1>d, <1>1, <1>2, <1>3, <1>4 DEF OwnIndex

-------------------------------------------------------------------------------
(* The notes on disk stay under their own paths.                            *)
LEMMA DiskOwn ==
  ASSUME NothingCompeting, Others, OwnedInv, [Next]_vars
  PROVE  \A p \in Path : Kept(p, disk'[p])
<1>t. /\ disk \in [Path -> Stored] /\ db \in OwnIndex /\ OneRow(db.rows) /\ Absent \in Stored
      /\ \A p \in Path : Kept(p, disk[p])
      /\ \A p \in Path : Kept(p, Absent)
  BY DEF Others, TypesInv, Stored, QueueInv, RowsInv, QueueKept, OwnedInv, Kept, Own
<1>k. \A p, q \in Path : Owner[p] = Owner[q] => Kept(q, disk[p])
  BY <1>t DEF Kept, Own
<1>m. ASSUME NEW p \in Path, NEW q \in Path, Owner[p] = Owner[q], disk' = Relocated(p, q)
      PROVE  \A o \in Path : Kept(o, disk'[o])
  BY <1>t, <1>k, <1>m DEF Relocated
<1>f. ASSUME NEW here \in {1, 2}, NEW there \in {1, 2}, disk' = WithFolder(here, there)
      PROVE  \A o \in Path : Kept(o, disk'[o])
  <2>1. ASSUME NEW p \in Path, \E x \in job.folder : x[there] = p
        PROVE  Kept(p, disk[(CHOOSE x \in job.folder : x[there] = p)[here]])
    <3>1. PICK x : x = CHOOSE y \in job.folder : y[there] = p
      OBVIOUS
    <3>2. x \in job.folder /\ x[there] = p
      BY <2>1, <3>1
    <3>3. x \in Path \X Path /\ Owner[x[1]] = Owner[x[2]]
      BY <3>2 DEF Others, TypesInv, Job, Pairs, OwnedInv, JobOwn, Alone
    <3>4. x[here] \in Path /\ Owner[x[here]] = Owner[p]
      BY <3>2, <3>3
    <3> QED BY <1>k, <3>1, <3>4
  <2> QED BY <1>t, <1>f, <2>1 DEF WithFolder
<1>1. CASE UNCHANGED disk
  BY <1>t, <1>1
<1>2. CASE MoveFile
  <2>1. job.from \in Path /\ job.to \in Path /\ Owner[job.from] = Owner[job.to]
    BY <1>2 DEF MoveFile, Others, StageInv, OwnedInv, JobOwn
  <2> QED BY <1>m, <1>2, <2>1 DEF MoveFile
<1>3. CASE MoveFolder
  BY <1>f, <1>3 DEF MoveFolder
<1>4. CASE CommitFolderFails
  BY <1>t, <1>f, <1>4 DEF CommitFolderFails
<1>5. CASE MoveExternal
  <2>1. PICK m \in ExternalMoves :
          \/ m[2] \in Path /\ disk' = Relocated(m[1], m[2])
          \/ disk' = [disk EXCEPT ![m[1]] = Absent]
    BY <1>5 DEF MoveExternal
  <2>2. m[1] \in Path /\ (m[2] \in Path => Owner[m[1]] = Owner[m[2]])
    BY MoveAssumption, OwnerIs
  <2>3. CASE m[2] \in Path /\ disk' = Relocated(m[1], m[2])
    BY <1>m, <2>2, <2>3
  <2>4. CASE disk' = [disk EXCEPT ![m[1]] = Absent]
    BY <1>t, <2>2, <2>4
  <2> QED BY <2>1, <2>3, <2>4
<1>6. ASSUME NEW f \in Path, flush_pending_for_target(f)
      PROVE  \A p \in Path : Kept(p, disk'[p])
  <2>1. CASE disk' = disk
    BY <1>t, <2>1
  <2>2. CASE disk[f] # Absent /\ disk' = [disk EXCEPT ![f].text = View(f), ![f].gen = @ + 1]
    <3>1. disk[f] \in Note
      BY <1>t, <2>2 DEF Stored
    <3>2. PICK v : v = View(f)
      OBVIOUS
    <3>3. v \subseteq Fits(Owner[f])
      BY <1>t, <2>2, <3>1, <3>2, ViewOwn
    <3>4. PICK s : s = [disk[f] EXCEPT !.text = v, !.gen = @ + 1]
      OBVIOUS
    <3>5. s.id = disk[f].id /\ s.text = v
      BY <3>1, <3>4 DEF Note
    <3>6. Kept(f, s)
      BY <1>t, <2>2, <3>3, <3>5 DEF Kept, Own
    <3>7. disk' = [disk EXCEPT ![f] = s]
      BY <1>t, <2>2, <3>2, <3>4
    <3> QED BY <1>t, <3>6, <3>7
  <2> QED BY <1>6, <2>1, <2>2 DEF flush_pending_for_target
<1> QED BY <1>1, <1>2, <1>3, <1>4, <1>5, <1>6, WhoWritesDisk

(* The rewrites of a folder are for what they name, inside it and out.      *)
LEMMA FolderRewritesOwn ==
  ASSUME NothingCompeting, db \in OwnIndex, job.plans \in Pairs, \A x \in job.plans : Alone(x)
  PROVE  folder_rewrites \subseteq OwnEdit
<1>1. ASSUME NEW x \in job.plans
      PROVE  rewrites_for({[l EXCEPT !.src = path_map(@)] : l \in collect_referrers(db, x[1])},
                          x[1], x[2]) \subseteq OwnEdit
  <2>1. x[1] \in Path /\ x[2] \in Path /\ Owner[x[1]] = Owner[x[2]]
    BY DEF Pairs, Alone
  <2>2. ASSUME NEW l \in collect_referrers(db, x[1])
        PROVE  /\ [l EXCEPT !.src = path_map(@)] \in OwnLink
               /\ \/ [l EXCEPT !.src = path_map(@)].target = x[1]
                  \/ token_names_file([l EXCEPT !.src = path_map(@)].raw, x[1])
    <3>1. l \in OwnLink /\ l \in Link /\ (l.target = x[1] \/ token_names_file(l.raw, x[1]))
      BY DEF collect_referrers, broken_referrers_naming, OwnIndex, OwnLink
    <3>2. PICK s \in Path : s = path_map(l.src) /\ Owner[s] = Owner[l.src]
      BY <3>1, MovedTyped, MovedOwn DEF path_map, Link
    <3>3. PICK k : k = [l EXCEPT !.src = s]
      OBVIOUS
    <3>4. k \in Link /\ k.src = s /\ k.raw = l.raw /\ k.target = l.target
      BY <3>1, <3>3 DEF Link
    <3>5. k \in OwnLink
      BY <3>1, <3>2, <3>4 DEF OwnLink
    <3>6. [l EXCEPT !.src = path_map(@)] = k
      BY <3>2, <3>3
    <3> QED BY <3>1, <3>4, <3>5, <3>6
  <2>3. PICK K : K = {[l EXCEPT !.src = path_map(@)] : l \in collect_referrers(db, x[1])}
    OBVIOUS
  <2>4. K \subseteq OwnLink /\ \A l \in K : l.target = x[1] \/ token_names_file(l.raw, x[1])
    BY <2>2, <2>3
  <2> QED BY <2>1, <2>3, <2>4, RewritesOwn
<1> QED BY <1>1 DEF folder_rewrites

(* The event the watcher is at, and the source it would pair it with, are one *)
(* note's.                                                                  *)
LEMMA PairedOwn ==
  ASSUME NothingCompeting, Others, OwnedInv, events # <<>>,
         NEW p \in Unpaired(Head(events))
  PROVE  /\ p \in Path /\ Owner[p] = Owner[Head(events).path]
         /\ Tracked(p) \/ \E t \in tombs : t.path = p
<1>1. Head(events) \in Event /\ Head(events).path \in Path
  BY FirstTyped DEF Others, TypesInv
<1>2. PICK to \in Path : to = Head(events).path
  BY <1>1
<1>3. disk[to] # Absent /\ p \in find_rename_source(to)
  BY <1>2 DEF Unpaired
<1>4. disk[to] \in Note /\ Own(to, disk[to])
  BY <1>3 DEF Others, TypesInv, Stored, OwnedInv, Kept
<1>5. PICK by : p \in Candidates(to, by)
  <2>1. p \in {q \in Candidates(to, "inode") : HasInode /\ disk[q] = Absent}
        \/ p \in Candidates(to, "hash")
    BY <1>3 DEF find_rename_source
  <2> QED BY <2>1
<1>6. CASE p \in TrackedPaths /\ key(by, db.files[p]) = key(by, disk[to])
  <2>1. p \in Path /\ db.files[p] # Absent /\ db.files[p] \in Note /\ Own(p, db.files[p])
    BY <1>6 DEF TrackedPaths, Tracked, OwnedInv, OwnIndex, OwnFiles, Index, Stored
  <2>2. Owner[p] = Owner[to]
    BY <1>3, <1>4, <1>6, <2>1, AlikeAreOne
  <2> QED BY <1>2, <2>1, <2>2 DEF Tracked
<1>7. CASE \E t \in tombs : t.path = p /\ key(by, t.stats) = key(by, disk[to])
  <2>1. PICK t \in tombs : t.path = p /\ key(by, t.stats) = key(by, disk[to])
    BY <1>7
  <2>2. p \in Path /\ t.stats \in Note /\ t.stats # Absent /\ Own(p, t.stats)
    BY <2>1 DEF OwnedInv, OwnTomb, Tombstone
  <2>3. Owner[p] = Owner[to]
    BY <1>3, <1>4, <2>1, <2>2, AlikeAreOne
  <2> QED BY <1>2, <2>1, <2>2, <2>3
<1> QED BY <1>5, <1>6, <1>7 DEF Candidates

(* The index keeps what is kept under a path that path's note's.            *)
(* A note that was read goes into the index as its owner's.                 *)
LEMMA UpsertOwn ==
  ASSUME NothingCompeting, db \in OwnIndex, OneRow(db.rows), NEW p \in Path, NEW s \in Note,
         Kept(p, s), s # Absent, upsert_file(p, s)
  PROVE  db' \in OwnIndex
<1>1. PICK d : d = [db EXCEPT !.files[p] = s]
  OBVIOUS
<1>2. d \in OwnIndex /\ db.links \subseteq OwnLink /\ TrackedPaths \union {p} \in SUBSET Path
  BY <1>1, OwnPut DEF OwnIndex, Stored, Kept, TrackedPaths
<1>3. PICK v : v = apply_pending(s.text, pending_for_target(p))
  OBVIOUS
<1>4. v \subseteq Fits(Owner[p])
  BY <1>3, TextOwn
<1>5. PICK L : L = replace_links_for_file(db.links, p, v, TrackedPaths \union {p})
  OBVIOUS
<1>6. L \subseteq OwnLink
  BY <1>2, <1>4, <1>5, ReplaceOwn
<1>7. db' = [d EXCEPT !.links = L]
  BY <1>1, <1>3, <1>5 DEF upsert_file, OwnIndex, Index
<1> QED BY <1>2, <1>6, <1>7, OwnPut

LEMMA IndexOwn ==
  ASSUME NothingCompeting, Others, OwnedInv, [Next]_vars
  PROVE  db' \in OwnIndex
<1>t. /\ disk \in [Path -> Stored] /\ db \in OwnIndex /\ OneRow(db.rows) /\ Absent \in Stored
      /\ second \in Nat /\ db.nextOp \in Nat /\ TrackedPaths \in SUBSET Path
      /\ db.links \subseteq OwnLink /\ db.rows \subseteq OwnRow
      /\ \A p \in Path : db.files[p] \in Stored /\ Own(p, db.files[p])
      /\ job.plans \in Pairs /\ \A x \in job.plans : Alone(x)
  BY BoundAssumption DEF Others, TypesInv, Stored, QueueInv, RowsInv, QueueKept, Index,
     TrackedPaths, Job, OwnedInv, OwnIndex, OwnFiles, JobOwn
<1>n. ASSUME NEW p \in Path, disk[p] # Absent
      PROVE  /\ disk[p] \in Note /\ Own(p, disk[p])
             /\ disk[p].text \subseteq Fits(Owner[p]) /\ View(p) \subseteq Fits(Owner[p])
  <2>1. disk[p] \in Note /\ Kept(p, disk[p])
    BY <1>t, <1>n DEF Stored, OwnedInv
  <2> QED BY <1>t, <1>n, <2>1, ViewOwn DEF Kept
<1>1. CASE UNCHANGED db
  BY <1>t, <1>1
<1>2. CASE commit_rename
  <2>1. PICK L : L = collect_referrers(db, job.from)
    OBVIOUS
  <2>2. PICK R : R = enqueue_coalesced(db.rows, rewrites_for(L, job.from, job.to),
                                       second, db.nextOp)
    OBVIOUS
  <2>3. job.from \in Path /\ job.to \in Path /\ Owner[job.from] = Owner[job.to]
    BY <1>2 DEF commit_rename, Others, StageInv, OwnedInv, JobOwn
  <2>4. L \subseteq OwnLink /\ \A l \in L : l.target = job.from \/ token_names_file(l.raw, job.from)
    BY <1>t, <2>1 DEF collect_referrers, broken_referrers_naming
  <2>5. R \subseteq OwnRow
    BY <1>t, <2>2, <2>3, <2>4, RewritesOwn, EnqueueOwn
  <2>6. [db EXCEPT !.rows = R, !.nextOp = @ + 1] \in OwnIndex
    BY <1>t, <2>5, OwnMints
  <2>7. {<<job.from, job.to>>} \in Pairs /\ \A m \in {<<job.from, job.to>>} : Alone(m)
    BY <2>3 DEF Pairs, Alone
  <2>8. db' = rekey_file_in_tx([db EXCEPT !.rows = R, !.nextOp = @ + 1], {<<job.from, job.to>>})
    BY <1>2, <2>1, <2>2 DEF commit_rename
  <2> QED BY <2>6, <2>7, <2>8, RekeyOwn
<1>3. CASE CommitFails \/ FolderRefused
  BY <1>t, <1>3, OwnPut DEF CommitFails, FolderRefused
<1>4. CASE Reextract \/ ReextractInFolder
  <2>1. job.to \in Path
    BY <1>4 DEF Reextract, ReextractInFolder, Others, StageInv
  <2>2. PICK L : L = replace_links_for_file(db.links, job.to, disk[job.to].text, TrackedPaths)
    OBVIOUS
  <2>3. disk[job.to] # Absent => L \subseteq OwnLink
    BY <1>t, <1>n, <2>1, <2>2, ReplaceOwn
  <2>4. UNCHANGED db \/ (disk[job.to] # Absent /\ db' = [db EXCEPT !.links = L])
    BY <1>4, <2>2 DEF Reextract, ReextractInFolder
  <2> QED BY <1>t, <2>3, <2>4, OwnPut
<1>5. CASE QueueFolder
  <2>1. saved' = [db EXCEPT !.nextOp = @ + 1] /\ saved' \in OwnIndex
    BY <1>t, <1>5, OwnPut DEF QueueFolder
  <2>2. PICK d : d = rekey_file_in_tx(saved', job.plans)
    OBVIOUS
  <2>3. d \in OwnIndex
    BY <1>t, <2>1, <2>2, RekeyOwn
  <2>4. PICK R : R = enqueue_coalesced(d.rows, folder_rewrites, second, db.nextOp)
    OBVIOUS
  <2>5. R \subseteq OwnRow
    <3>1. d.rows \subseteq OwnRow
      BY <2>3 DEF OwnIndex
    <3> QED BY <1>t, <2>4, <3>1, FolderRewritesOwn, EnqueueOwn
  <2>6. db' = [d EXCEPT !.rows = R]
    BY <1>5, <2>2, <2>4 DEF QueueFolder
  <2> QED BY <2>3, <2>5, <2>6, OwnPut
<1>6. CASE MoveFolderFails \/ CommitFolderFails \/ Crash
  <2>1. db' = db \/ (InTransaction /\ db' = saved)
    BY <1>6 DEF MoveFolderFails, CommitFolderFails, Crash, RolledBack, InTransaction
  <2> QED BY <1>t, <2>1 DEF OwnedInv
<1>7. ASSUME NEW f \in Path, flush_pending_for_target(f) PROVE db' \in OwnIndex
  <2>1. PICK d : d = [db EXCEPT !.rows = @ \ pending_for_target(f)]
    OBVIOUS
  <2>2. d \in OwnIndex /\ d.files = db.files
    <3>1. db.rows \ pending_for_target(f) \subseteq OwnRow
      BY <1>t
    <3>2. d \in OwnIndex
      BY <1>t, <2>1, <3>1, OwnPut
    <3> QED BY <2>1, <3>2
  <2>3. CASE db' = d
    BY <2>2, <2>3
  <2>4. CASE /\ disk[f] # Absent
             /\ db' = [d EXCEPT !.files[f] = IF @ = Absent THEN @ ELSE [@ EXCEPT !.text = View(f)]]
    <3>1. PICK v : v = View(f)
      OBVIOUS
    <3>2. v \in SUBSET Token
      BY <1>n, <2>4, <3>1 DEF Fits
    <3>3. PICK s : s = IF d.files[f] = Absent THEN d.files[f] ELSE [d.files[f] EXCEPT !.text = v]
      OBVIOUS
    <3>4. s \in Stored /\ Own(f, s)
      <4>1. d.files[f] \in Stored /\ Own(f, d.files[f])
        BY <1>t, <2>2
      <4>2. CASE d.files[f] = Absent
        BY <3>3, <4>1, <4>2
      <4>3. CASE d.files[f] # Absent
        <5>1. PICK x \in Note : x = d.files[f]
          BY <4>1, <4>3 DEF Stored
        <5>2. s = [x EXCEPT !.text = v] /\ s \in Note /\ s.id = x.id
          BY <3>2, <3>3, <4>3, <5>1 DEF Note
        <5> QED BY <4>1, <4>3, <5>1, <5>2 DEF Own, Stored
      <4> QED BY <4>2, <4>3
    <3>5. db' = [d EXCEPT !.files[f] = s]
      BY <2>4, <3>1, <3>3
    <3> QED BY <2>2, <3>4, <3>5, OwnPut
  <2> QED BY <1>7, <2>1, <2>3, <2>4 DEF flush_pending_for_target
<1>8. CASE WatchRemoved \/ Sweep \/ ScanFails \/ PairingEnds
  <2>1. db' = db \/ \E P : db' = delete_files(db, P)
    BY <1>8 DEF WatchRemoved, Sweep, ScanFails, PairingEnds
  <2> QED BY <1>t, <2>1, DeleteOwn
<1>9. CASE WatchCreatedPairs
  <2>1. PICK p \in Unpaired(Head(events)) : db' = restore_row(p)
    BY <1>9 DEF WatchCreatedPairs
  <2>2. p \in Path /\ (Tracked(p) \/ \E t \in tombs : t.path = p)
    BY <1>9, <2>1, PairedOwn DEF WatchCreatedPairs, WatchEventIs
  <2>3. CASE Tracked(p)
    BY <1>t, <2>1, <2>3 DEF restore_row
  <2>4. CASE ~ Tracked(p)
    <3>1. PICK t : t = CHOOSE u \in tombs : u.path = p
      OBVIOUS
    <3>2. t \in tombs /\ t.path = p
      BY <2>2, <2>4, <3>1
    <3>3. t.stats \in Stored /\ Own(p, t.stats)
      BY <3>2 DEF OwnedInv, OwnTomb, Tombstone, Stored
    <3>4. db' = [db EXCEPT !.files[p] = t.stats]
      BY <2>1, <2>4, <3>1 DEF restore_row
    <3> QED BY <1>t, <2>2, <3>3, <3>4, OwnPut
  <2> QED BY <2>3, <2>4
<1>10. CASE WatchFile \/ UpsertPaired
  <2>1. events # <<>> /\ events \in Seq(Event)
    BY <1>10 DEF WatchFile, UpsertPaired, WatchEventIs, Others, TypesInv, StageInv
  <2>2. PICK p \in Path : p = Head(events).path
    BY <2>1, FirstTyped
  <2>3. db' = db \/ \E s \in Note : s # Absent /\ Kept(p, s) /\ upsert_file(p, s)
    <3>1. CASE WatchFile
      BY <1>t, <2>2, <3>1 DEF WatchFile, Stored, OwnedInv
    <3>2. CASE UpsertPaired
      <4>1. watch.read # Absent /\ watch.read \in Stored /\ Kept(p, watch.read)
        BY <2>2, <3>2 DEF UpsertPaired, Others, StageInv, TypesInv, Watching, OwnedInv, WatchOwn
      <4> QED BY <2>2, <3>2, <4>1 DEF UpsertPaired, Stored
    <3> QED BY <1>10, <3>1, <3>2
  <2> QED BY <1>t, <2>3, UpsertOwn
<1>11. ASSUME NEW p \in Path, ScanFile(p) PROVE db' \in OwnIndex
  <2>1. db' = db \/ (disk[p] # Absent /\ db' = [db EXCEPT !.files[p] = disk[p]])
    BY <1>11 DEF ScanFile
  <2>2. CASE disk[p] # Absent
    <3>1. disk[p] \in Stored /\ Own(p, disk[p])
      BY <1>t, <1>n, <2>2
    <3>2. [db EXCEPT !.files[p] = disk[p]] \in OwnIndex
      BY <1>t, <3>1, OwnPut
    <3> QED BY <1>t, <2>1, <3>2
  <2> QED BY <1>t, <2>1, <2>2
<1>12. CASE WriteLinks
  <2>1. PICK L : L = {l \in db.links : \A f \in scan.found : f.src # l.src} \union
                     UNION {link_rows(f.src, f.text, scan.paths) :
                              f \in {g \in scan.found : Tracked(g.src)}}
    OBVIOUS
  <2>2. scan.found \subseteq OwnFound /\ scan.paths \in SUBSET Path
    BY DEF Others, TypesInv, Scanning, OwnedInv
  <2>3. \A f \in scan.found : link_rows(f.src, f.text, scan.paths) \subseteq OwnLink
    BY <2>2, LinkRowsOwn DEF OwnFound, Found
  <2>4. L \subseteq OwnLink
    BY <1>t, <2>1, <2>3
  <2>5. db' = [db EXCEPT !.links = L]
    BY <1>12, <2>1 DEF WriteLinks
  <2> QED BY <1>t, <2>4, <2>5, OwnPut
<1>13. CASE ReplayEntry
  <2>1. PICK e : e = journal[job.n]
    OBVIOUS
  <2>2. e \in OwnEntry
    <3>1. job.n \in 1..Len(journal) /\ journal \in Seq(OwnEntry)
      BY <1>13 DEF ReplayEntry, Others, TypesInv, StageInv, Job, OwnedInv
    <3> QED BY <2>1, <3>1
  <2>3. PICK L : L = broken_referrers_naming(db.links, e.from)
    OBVIOUS
  <2>4. /\ L \subseteq OwnLink /\ \A l \in L : token_names_file(l.raw, e.from)
        /\ e.from \in Path /\ e.to \in Path /\ Owner[e.from] = Owner[e.to]
        /\ {<<e.from, e.to>>} \in Pairs /\ \A m \in {<<e.from, e.to>>} : Alone(m)
    BY <1>t, <2>2, <2>3 DEF broken_referrers_naming, OwnEntry, Entry, Pairs, Alone
  <2>5. PICK K : K = reconnect_broken_links_to(db.links, {<<e.from, e.to>>})
    OBVIOUS
  <2>6. PICK R : R = enqueue_coalesced(db.rows, rewrites_for(L, e.from, e.to), second, db.nextOp)
    OBVIOUS
  <2>7. K \subseteq OwnLink /\ R \subseteq OwnRow
    BY <1>t, <2>4, <2>5, <2>6, ReconnectOwn, RewritesOwn, EnqueueOwn
  <2>8. db' = db \/ db' = [db EXCEPT !.links = K, !.rows = R, !.nextOp = @ + 1]
    BY <1>13, <2>1, <2>3, <2>5, <2>6 DEF ReplayEntry
  <2>9. [db EXCEPT !.links = K, !.rows = R, !.nextOp = @ + 1] \in OwnIndex
    BY <1>t, <2>7, OwnMints
  <2> QED BY <1>t, <2>8, <2>9
<1>14. CASE WipeIndex
  <2>1. db' = Blank /\ Blank \in Index
    BY <1>14 DEF WipeIndex, Blank, Index, Stored
  <2>2. Blank.files = [p \in Path |-> Absent] /\ Blank.links = {} /\ Blank.rows = {}
    BY DEF Blank
  <2>3. Blank.files \in OwnFiles
    BY <2>2 DEF OwnFiles, Own, Stored
  <2> QED BY <2>1, <2>2, <2>3 DEF OwnIndex
<1> DEFINE Done == db' \in OwnIndex
<1> HIDE DEF Done
<1> QED BY <1>1, <1>2, <1>3, <1>4, <1>5, <1>6, <1>7, <1>8, <1>9, <1>10, <1>11, <1>12, <1>13,
           <1>14, WhoWritesIndex DEF Done

(* So does the index a transaction would be rolled back to.                 *)
LEMMA SavedOwn ==
  ASSUME NothingCompeting, Others, OwnedInv, [Next]_vars
  PROVE  InTransaction' => saved' \in OwnIndex
<1>t. db \in OwnIndex /\ db' \in OwnIndex /\ (InTransaction => saved \in OwnIndex)
  BY IndexOwn DEF OwnedInv
<1> SUFFICES ASSUME InTransaction' PROVE saved' \in OwnIndex
  OBVIOUS
<1>i. saved' \in Index
  BY TurnKept DEF Others, TurnTyped
<1>1. \/ saved' = saved \/ saved' = Null
      \/ open_vault \/ Sweep \/ QueueFolder
  BY DEF Next, Rename, FolderRename, Flush, Watcher, Scan, vars, rename_file, MoveFile, MoveFails,
       commit_rename, CommitFails, JournalRename, Reextract, rename_folder,
       FolderRefused, MoveFolder, MoveFolderFails, CommitFolder, CommitFolderFails,
       JournalInFolder, ReextractInFolder, FolderEnds, flush_all_for_vault, FlushEnds,
       flush_pending_for_target, MoveExternal, WatchRenamed, RenamedEnds, WatchRemoved,
       WatchCreatedPairs, try_adopt_external_rename, PairingEnds, UpsertPaired, WatchFile,
       upsert_file, WatchSkips, prune_expired, ScanFile, ScanSkips, WalkEnds, ScanFails, WriteLinks,
       journal_renames_found_by_scan, replay_rename_journal, ReplayEntry, ReplayEnds,
       Crash, close_vault, Closed, WipeIndex, Tick, RolledBack
<1>2. CASE saved' = saved
  <2>1. saved \in Index
    BY <1>i, <1>2
  <2>2. InTransaction
    BY <2>1, NullAssumption DEF Others, TypesInv
  <2> QED BY <1>t, <1>2, <2>2
<1>3. saved' # Null
  BY <1>i, NullAssumption
<1>4. CASE open_vault \/ Sweep \/ QueueFolder
  <2>1. saved' = db \/ saved' = db' \/ saved' = [db EXCEPT !.nextOp = @ + 1]
    BY <1>4 DEF open_vault, Sweep, QueueFolder
  <2> QED BY <1>t, <2>1, OwnPut
<1> QED BY <1>1, <1>2, <1>3, <1>4

(* An operation moves notes between their own paths.                        *)
LEMMA JobOwns ==
  ASSUME NothingCompeting, Others, OwnedInv, [Next]_vars
  PROVE  JobOwn(job')
<1>j. job \in Job /\ JobOwn(job) /\ job.plans \in Pairs
  BY JobPut DEF Others, TypesInv, OwnedInv
<1>i. JobOwn(Idle) /\ Idle.folder = {} /\ Idle.plans = {}
  BY DEF JobOwn, Idle
<1>f. ASSUME NEW s \in Stage \ {"checked", "moved", "committed", "journaled"}, job'.pc = s,
             job'.folder \subseteq job.folder, job'.plans \subseteq job.plans
      PROVE  JobOwn(job')
  BY <1>j, <1>f DEF JobOwn
<1>g. ASSUME NEW s \in Stage \ {"checked", "moved", "committed", "journaled"}, job'.pc = s,
             job'.folder = {}, job'.plans = {}
      PROVE  JobOwn(job')
  BY <1>g DEF JobOwn
<1>h. ASSUME NEW p, NEW q, Owner[p] = Owner[q], NEW s,
             job' = [Idle EXCEPT !.pc = s, !.from = p, !.to = q]
      PROVE  JobOwn(job')
  <2>1. job'.from = p /\ job'.to = q /\ job'.folder = {} /\ job'.plans = {}
    BY <1>h DEF Idle
  <2> QED BY <1>h, <2>1 DEF JobOwn
<1>1. CASE UNCHANGED job
  BY <1>j, <1>1
<1>2. CASE rename_file
  <2>1. PICK m \in Moves : job' = [Idle EXCEPT !.pc = "checked", !.from = m[1], !.to = m[2]]
    BY <1>2 DEF rename_file
  <2>2. Owner[m[1]] = Owner[m[2]]
    BY MoveAssumption, OwnerIs
  <2> QED BY <1>h, <2>1, <2>2
<1>3. CASE MoveFile \/ commit_rename \/ JournalRename
  <2>1. /\ job.pc \in {"checked", "moved", "committed"}
        /\ \/ \E s : job' = [job EXCEPT !.pc = s]
           \/ \E s, T : job' = [job EXCEPT !.pc = s, !.todo = T]
    BY <1>3 DEF MoveFile, commit_rename, JournalRename
  <2>2. /\ job'.from = job.from /\ job'.to = job.to
        /\ job'.folder = job.folder /\ job'.plans = job.plans
    <3>1. /\ \A s : LET j == [job EXCEPT !.pc = s] IN
                      /\ j.from = job.from /\ j.to = job.to
                      /\ j.folder = job.folder /\ j.plans = job.plans
          /\ \A s, T : LET j == [job EXCEPT !.pc = s, !.todo = T] IN
                      /\ j.from = job.from /\ j.to = job.to
                      /\ j.folder = job.folder /\ j.plans = job.plans
      BY <1>j DEF Job
    <3>2. ASSUME NEW s, job' = [job EXCEPT !.pc = s]
          PROVE  /\ job'.from = job.from /\ job'.to = job.to
                 /\ job'.folder = job.folder /\ job'.plans = job.plans
      BY Zenon, <3>1, <3>2
    <3>3. ASSUME NEW s, NEW T, job' = [job EXCEPT !.pc = s, !.todo = T]
          PROVE  /\ job'.from = job.from /\ job'.to = job.to
                 /\ job'.folder = job.folder /\ job'.plans = job.plans
      BY Zenon, <3>1, <3>3
    <3> QED BY <2>1, <3>2, <3>3
  <2> QED BY <1>j, <2>1, <2>2 DEF JobOwn
<1>4. CASE \/ MoveFails \/ CommitFails \/ FolderRefused \/ MoveFolderFails \/ CommitFolderFails
           \/ FlushEnds \/ ReplayEnds \/ Crash \/ close_vault
  BY <1>i, <1>4 DEF MoveFails, CommitFails, FolderRefused, MoveFolderFails, CommitFolderFails,
       FlushEnds, ReplayEnds, Crash, close_vault, Closed, RolledBack
<1>5. CASE rename_folder
  <2>1. PICK m \in FolderMoves : job' = [Idle EXCEPT !.pc = "planned", !.folder = m,
                                                     !.plans = {x \in m : Tracked(x[1])}]
    BY <1>5 DEF rename_folder
  <2>2. \A x \in m : Alone(x)
    BY MoveAssumption, OwnerIs DEF Alone
  <2>3. job'.pc = "planned" /\ job'.folder = m /\ job'.plans \subseteq m
    BY <2>1 DEF Idle
  <2> QED BY <2>2, <2>3 DEF JobOwn
<1>6. CASE \/ Reextract \/ QueueFolder \/ MoveFolder \/ CommitFolder \/ ReextractInFolder
  <2>1. \/ job' = Idle
        \/ \E s \in {"flush", "queued", "relocated", "listed"} :
             \/ job' = [job EXCEPT !.pc = s]
             \/ \E T : job' = [job EXCEPT !.pc = s, !.todo = T]
    BY <1>6 DEF Reextract, QueueFolder, MoveFolder, CommitFolder, ReextractInFolder
  <2>2. ASSUME NEW s \in {"flush", "queued", "relocated", "listed"},
               \/ job' = [job EXCEPT !.pc = s]
               \/ \E T : job' = [job EXCEPT !.pc = s, !.todo = T]
        PROVE  job'.pc = s /\ job'.folder = job.folder /\ job'.plans = job.plans
    BY <1>j, <2>2 DEF Job
  <2> QED BY <1>f, <1>i, <2>1, <2>2 DEF Stage
<1>7. CASE JournalInFolder
  <2>1. PICK x \in job.plans : job' = [job EXCEPT !.pc = "listing", !.to = x[2], !.plans = @ \ {x}]
    BY <1>7 DEF JournalInFolder
  <2>2. /\ job'.pc = "listing" /\ job'.folder = job.folder
        /\ job'.plans = job.plans \ {x}
    BY <1>j, <2>1 DEF Job
  <2> QED BY <1>f, <2>2 DEF Stage
<1>8. CASE FolderEnds \/ flush_all_for_vault
  <2>1. \E T : \/ job' = [Idle EXCEPT !.pc = "flush", !.todo = T]
               \/ job' = [Idle EXCEPT !.pc = "flush", !.prune = TRUE, !.todo = T]
    BY <1>8 DEF FolderEnds, flush_all_for_vault
  <2>2. job'.pc = "flush" /\ job'.folder = {} /\ job'.plans = {}
    BY <2>1 DEF Idle
  <2> QED BY <1>g, <2>2 DEF Stage
<1>9. ASSUME NEW f \in Path, flush_pending_for_target(f) PROVE JobOwn(job')
  <2>1. job' = [job EXCEPT !.todo = @ \ {f}] /\ job.pc = "flush"
    BY <1>9 DEF flush_pending_for_target
  <2>2. job'.pc = "flush" /\ job'.folder = job.folder /\ job'.plans = job.plans
    BY <1>j, <2>1 DEF Job
  <2> QED BY <1>f, <2>2 DEF Stage
<1>10. CASE WatchRenamed
  <2>1. /\ events # <<>>
        /\ job' \in {job, [Idle EXCEPT !.pc = "moved", !.from = Head(events).from,
                                       !.to = Head(events).path]}
    BY <1>10 DEF WatchRenamed, WatchEventIs, adopt_external_rename
  <2>2. events \in Seq(OwnEvent)
    BY DEF OwnedInv, WatchOwn
  <2>3. Owner[Head(events).from] = Owner[Head(events).path]
    <3>1. Head(events) \in OwnEvent
      BY <2>1, <2>2
    <3> QED BY <3>1 DEF OwnEvent
  <2> QED BY <1>h, <1>j, <2>1, <2>3
<1>11. CASE try_adopt_external_rename
  <2>1. /\ watch.pc = "paired"
        /\ job' \in {job, [Idle EXCEPT !.pc = "moved", !.from = watch.from,
                                       !.to = Head(events).path]}
    BY <1>11 DEF try_adopt_external_rename, adopt_external_rename
  <2>2. Owner[watch.from] = Owner[Head(events).path]
    BY <2>1 DEF OwnedInv, WatchOwn
  <2> QED BY <1>h, <1>j, <2>1, <2>2
<1>12. CASE replay_rename_journal
  <2>1. job' = [Idle EXCEPT !.pc = "replay", !.n = 1]
    BY <1>12 DEF replay_rename_journal
  <2>2. job'.pc = "replay" /\ job'.folder = {} /\ job'.plans = {}
    BY <2>1 DEF Idle
  <2> QED BY <1>g, <2>2 DEF Stage
<1>13. CASE ReplayEntry
  <2>1. job' = [job EXCEPT !.n = @ + 1] /\ job.pc = "replay"
    BY <1>13 DEF ReplayEntry
  <2>2. job'.pc = "replay" /\ job'.folder = job.folder /\ job'.plans = job.plans
    BY <1>j, <2>1 DEF Job
  <2> QED BY <1>f, <2>2 DEF Stage
<1> DEFINE Done == JobOwn(job')
<1> HIDE DEF Done
<1> QED BY <1>1, <1>2, <1>3, <1>4, <1>5, <1>6, <1>7, <1>8, <1>9, <1>10, <1>11, <1>12, <1>13,
           WhoWritesJob DEF Done

(* Every event is about one note, and so is a pairing.                      *)
LEMMA MoreOwn ==
  ASSUME Others, OwnedInv, NEW es \in Seq(OwnEvent)
  PROVE  WatchOwn(watch, events \o es)
<1>1. events \in Seq(OwnEvent) /\ (watch.pc # "idle" => events # <<>>)
  BY DEF Others, StageInv, OwnedInv, WatchOwn
<1>2. events \o es \in Seq(OwnEvent)
  BY <1>1, MoreEvents
<1>3. events # <<>> => Head(events \o es) = Head(events)
  <2>1. SUFFICES ASSUME events # <<>> PROVE (events \o es)[1] = events[1]
    BY <1>1, <1>2, MoreEvents
  <2>2. Len(events) \in Nat /\ Len(events) # 0 /\ Len(es) \in Nat
    BY <1>1, <2>1
  <2> QED BY <1>1, <2>2
<1> QED BY <1>1, <1>2, <1>3 DEF OwnedInv, WatchOwn

(* What the watcher is told of a rename is about the note that moves.       *)
LEMMA NotifyOwn ==
  ASSUME Others, OwnedInv, NEW p \in Path, NEW q \in Path, Owner[p] = Owner[q],
         NotifyRename(p, q)
  PROVE  WatchOwn(watch, events')
<1>1. \A es \in RenameEvents(p, q) : es \in Seq(OwnEvent)
  <2>1. /\ Removed(p) \in OwnEvent /\ Created(q) \in OwnEvent
        /\ [kind |-> "renamed", from |-> p, path |-> q] \in OwnEvent
    BY DEF Removed, Created, Event, OwnEvent
  <2>2. PICK a \in OwnEvent : a = Removed(p)
    BY <2>1
  <2>3. PICK b \in OwnEvent : b = Created(q)
    BY <2>1
  <2>4. PICK c \in OwnEvent : c = [kind |-> "renamed", from |-> p, path |-> q]
    BY <2>1
  <2>5. <<a, b>> \in Seq(OwnEvent) /\ <<b, a>> \in Seq(OwnEvent) /\ <<c>> \in Seq(OwnEvent)
    OBVIOUS
  <2>6. RenameEvents(p, q) \subseteq {<<a, b>>, <<b, a>>, <<c>>}
    BY <2>2, <2>3, <2>4 DEF RenameEvents
  <2> QED BY <2>5, <2>6
<1> QED BY <1>1, MoreOwn DEF NotifyRename, OwnedInv

(* What the watcher knows of a note is about one note.                      *)
LEMMA WatchOwns ==
  ASSUME NothingCompeting, Others, OwnedInv, [Next]_vars
  PROVE  WatchOwn(watch', events') /\ tombs' \subseteq OwnTomb
<1> DEFINE Done == WatchOwn(watch', events') /\ tombs' \subseteq OwnTomb
<1>w. /\ watch \in Watching /\ events \in Seq(OwnEvent) /\ tombs \subseteq OwnTomb
      /\ WatchOwn(watch, events)
  BY DEF Others, TypesInv, OwnedInv, WatchOwn
<1>h. events # <<>> => Head(events) \in OwnEvent /\ Tail(events) \in Seq(OwnEvent)
  BY <1>w
<1>r. ASSUME watch' = NotWatching, events' \in Seq(OwnEvent), tombs' \subseteq OwnTomb
      PROVE  Done
  BY <1>r DEF WatchOwn, NotWatching
<1>k. ASSUME watch'.pc # "paired", Kept(Head(events).path, watch'.read),
             UNCHANGED events, tombs' \subseteq OwnTomb
      PROVE  Done
  BY <1>w, <1>k DEF WatchOwn
<1> SUFFICES Done
  OBVIOUS
<1>1. CASE UNCHANGED <<watch, events, tombs>>
  BY <1>w, <1>1
<1>2. CASE MoveFile
  <2>1. job.from \in Path /\ job.to \in Path /\ Owner[job.from] = Owner[job.to]
    BY <1>2 DEF MoveFile, Others, StageInv, OwnedInv, JobOwn
  <2>2. NotifyRename(job.from, job.to) /\ UNCHANGED <<watch, tombs>>
    BY <1>2 DEF MoveFile
  <2> QED BY <1>w, <2>1, <2>2, NotifyOwn
<1>3. CASE commit_rename \/ Reextract
  <2>1. PICK b \in BOOLEAN : watch' = watch \/ watch' = [watch EXCEPT !.adopted = b]
    BY <1>3 DEF commit_rename, Reextract
  <2>2. UNCHANGED <<events, tombs>>
    BY <1>3 DEF commit_rename, Reextract
  <2>3. watch'.pc = watch.pc /\ watch'.from = watch.from /\ watch'.read = watch.read
    BY <1>w, <2>1 DEF Watching
  <2> QED BY <1>w, <2>2, <2>3 DEF WatchOwn
<1>4. ASSUME NEW f \in Path, flush_pending_for_target(f) PROVE Done
  <2>1. PICK e : e = [kind |-> "modified", from |-> f, path |-> f]
    OBVIOUS
  <2>2. e \in OwnEvent
    BY <2>1 DEF Event, OwnEvent
  <2>3. /\ events' = events \/ events' = Append(events, e)
        /\ UNCHANGED <<watch, tombs>>
    BY <1>4, <2>1 DEF flush_pending_for_target
  <2>4. Append(events, e) = events \o <<e>> /\ <<e>> \in Seq(OwnEvent)
    BY <1>w, <2>2
  <2>5. WatchOwn(watch, Append(events, e))
    BY <2>4, MoreOwn
  <2> QED BY <1>w, <2>3, <2>5
<1>5. CASE MoveExternal
  <2>1. PICK m \in ExternalMoves :
          \/ m[2] \in Path /\ NotifyRename(m[1], m[2])
          \/ events' = events \/ events' = Append(events, Removed(m[1]))
    BY <1>5 DEF MoveExternal
  <2>2. /\ m[1] \in Path /\ Removed(m[1]) \in OwnEvent
        /\ m[2] \in Path => Owner[m[1]] = Owner[m[2]]
    BY MoveAssumption, OwnerIs DEF Removed, Event, OwnEvent
  <2>3. PICK e \in OwnEvent : e = Removed(m[1])
    BY <2>2
  <2>4. Append(events, e) = events \o <<e>> /\ <<e>> \in Seq(OwnEvent)
    BY <1>w
  <2>5. WatchOwn(watch, Append(events, e))
    BY <2>4, MoreOwn
  <2>6. UNCHANGED <<watch, tombs>>
    BY <1>5 DEF MoveExternal
  <2>7. CASE m[2] \in Path /\ NotifyRename(m[1], m[2])
    BY <1>w, <2>2, <2>6, <2>7, NotifyOwn
  <2> QED BY <1>w, <2>1, <2>3, <2>5, <2>6, <2>7
<1>6. CASE WatchRenamed \/ try_adopt_external_rename \/ PairingEnds
  <2>1. /\ \/ watch' = [NotWatching EXCEPT !.pc = "adopting"]
           \/ \E pc \in {"adopting", "upsert"} : watch' = [watch EXCEPT !.pc = pc]
        /\ UNCHANGED events /\ tombs' \subseteq tombs /\ (watch' = [NotWatching EXCEPT !.pc = "adopting"] \/ watch.pc # "idle")
    BY <1>6 DEF WatchRenamed, try_adopt_external_rename, PairingEnds
  <2>2. watch'.pc # "paired" /\ (watch'.read = Absent \/ (watch.pc # "idle" /\ watch'.read = watch.read))
    BY <1>w, <2>1 DEF NotWatching, Watching
  <2>3. Kept(Head(events).path, watch'.read)
    BY <1>w, <2>2 DEF WatchOwn, Kept, Own
  <2> QED BY <1>k, <1>w, <2>1, <2>2, <2>3
<1>7. CASE RenamedEnds \/ UpsertPaired \/ WatchFile \/ WatchSkips
  <2>1. events # <<>>
    BY <1>7 DEF RenamedEnds, UpsertPaired, WatchFile, WatchSkips, WatchEventIs, Others, StageInv
  <2> QED BY <1>h, <1>r, <1>w, <1>7, <2>1
          DEF RenamedEnds, UpsertPaired, WatchFile, WatchSkips, Handled
<1>8. CASE WatchRemoved
  <2>1. events # <<>> /\ watch' = NotWatching /\ events' = Tail(events)
    BY <1>8 DEF WatchRemoved, WatchEventIs, Handled
  <2>2. PICK p \in Path : p = Head(events).path
    BY <2>1, FirstTyped DEF Others, TypesInv
  <2>3. Tracked(p) => [path |-> p, stats |-> db.files[p]] \in OwnTomb
    BY DEF Tracked, Others, TypesInv, Index, Stored, Tombstone, OwnTomb, OwnedInv, OwnIndex, OwnFiles
  <2>4. tombs' = tombs \/ (Tracked(p) /\ tombs' \subseteq tombs \union {[path |-> p, stats |-> db.files[p]]})
    BY <1>8, <2>2 DEF WatchRemoved
  <2>5. tombs' \subseteq OwnTomb
    BY <1>w, <2>3, <2>4
  <2> QED BY <1>h, <1>r, <2>1, <2>5
<1>9. CASE WatchCreatedPairs
  <2>1. PICK p \in Unpaired(Head(events)) :
          watch' = [NotWatching EXCEPT !.pc = "paired", !.from = p,
                      !.read = disk[Head(events).path], !.restored = ~ Tracked(p)]
    BY <1>9 DEF WatchCreatedPairs
  <2>2. events # <<>> /\ UNCHANGED <<events, tombs>>
    BY <1>9 DEF WatchCreatedPairs, WatchEventIs
  <2>3. Owner[p] = Owner[Head(events).path]
    BY <2>1, <2>2, PairedOwn
  <2>4. Kept(Head(events).path, disk[Head(events).path])
    BY <2>2, FirstTyped DEF Others, TypesInv, OwnedInv
  <2>5. watch'.pc = "paired" /\ watch'.from = p /\ watch'.read = disk[Head(events).path]
    BY <2>1 DEF NotWatching
  <2> QED BY <1>w, <2>2, <2>3, <2>4, <2>5 DEF WatchOwn
<1>11. CASE prune_expired
  BY <1>w, <1>11 DEF prune_expired
<1>12. CASE Crash \/ close_vault
  <2>1. watch' = NotWatching /\ events' = <<>> /\ tombs' = {}
    BY <1>12 DEF Crash, close_vault, Closed
  <2> QED BY <1>r, <2>1
<1> HIDE DEF Done
<1> QED BY <1>1, <1>2, <1>3, <1>4, <1>5, <1>6, <1>7, <1>8, <1>9, <1>11, <1>12,
           WhoWritesWatch

(* What a scan found in a note and what it found gone is the note's.        *)
LEMMA ScanOwns ==
  ASSUME NothingCompeting, Others, OwnedInv, [Next]_vars
  PROVE  scan'.gone \subseteq OwnTomb /\ scan'.found \subseteq OwnFound
<1>s. /\ scan \in Scanning /\ scan.gone \subseteq OwnTomb /\ scan.found \subseteq OwnFound
      /\ DOMAIN scan = {"paths", "seen", "fresh", "found", "gone"}
  BY DEF Others, TypesInv, OwnedInv, Scanning
<1>k. ASSUME scan'.gone = scan.gone, scan'.found = scan.found
      PROVE  scan'.gone \subseteq OwnTomb /\ scan'.found \subseteq OwnFound
  BY <1>s, <1>k
<1>t. \A P : Touched(P).gone = scan.gone /\ Touched(P).found = scan.found
  BY <1>s DEF Touched, Scanning
<1>1. CASE UNCHANGED scan
  BY <1>k, <1>1
<1>2. CASE commit_rename \/ QueueFolder
  <2>1. \E A, B : scan' = [scan EXCEPT !.seen = A, !.fresh = B]
    BY <1>2 DEF commit_rename, QueueFolder
  <2> QED BY <1>k, <1>s, <2>1 DEF Scanning
<1>3. CASE RenamedEnds \/ UpsertPaired \/ WatchFile
  <2>1. scan' = scan \/ \E P : scan' = Touched(P)
    BY <1>3 DEF RenamedEnds, UpsertPaired, WatchFile, upsert_file
  <2> QED BY <1>k, <1>t, <2>1
<1>4. CASE WatchCreatedPairs
  <2>1. scan' = scan \/ \E A : scan' = [scan EXCEPT !.seen = A]
    BY <1>4 DEF WatchCreatedPairs
  <2> QED BY <1>k, <1>s, <2>1 DEF Scanning
<1>5. CASE open_vault \/ ScanFails \/ ReplayEnds \/ Crash \/ close_vault
  <2>1. scan' = NoScan \/ scan' = [NoScan EXCEPT !.paths = Path]
    BY <1>5 DEF open_vault, ScanFails, ReplayEnds, Crash, close_vault, Closed
  <2>2. scan'.gone = {} /\ scan'.found = {}
    BY <2>1 DEF NoScan
  <2> QED BY <2>2
<1>6. ASSUME NEW p \in Path, ScanFile(p) \/ ScanSkips(p)
      PROVE  scan'.gone \subseteq OwnTomb /\ scan'.found \subseteq OwnFound
  <2>1. CASE disk[p] = Absent \/ ScanSkips(p)
    <3>1. scan' = [scan EXCEPT !.paths = @ \ {p}]
      BY <1>6, <2>1 DEF ScanFile, ScanSkips
    <3> QED BY <1>k, <1>s, <3>1 DEF Scanning
  <2>2. CASE disk[p] # Absent /\ ScanFile(p)
    <3>1. /\ disk[p] \in Note /\ Kept(p, disk[p]) /\ db \in OwnIndex /\ db \in Index
          /\ OneRow(db.rows)
      BY <2>2 DEF Others, TypesInv, Stored, QueueInv, RowsInv, QueueKept, OwnedInv
    <3>2. PICK v : v = View(p)
      OBVIOUS
    <3>3. v \in SUBSET Token /\ v \subseteq Fits(Owner[p])
      BY <2>2, <3>1, <3>2, ViewTyped, ViewOwn
    <3>4. [src |-> p, text |-> v] \in OwnFound
      BY <3>3 DEF OwnFound, Found
    <3>5. PICK t : t = Touched({p})
      OBVIOUS
    <3>6. t.gone = scan.gone /\ t.found = scan.found /\ t \in Scanning
      BY <1>s, <1>t, <3>5, TouchedTyped
    <3>7. PICK F : F = scan.found \union {[src |-> p, text |-> v]}
      OBVIOUS
    <3>8. \E A : scan' = [t EXCEPT !.paths = A, !.found = F]
      BY <1>6, <2>2, <3>2, <3>5, <3>6, <3>7 DEF ScanFile
    <3>9. scan'.gone = scan.gone /\ scan'.found = F
      BY <3>6, <3>8 DEF Scanning
    <3> QED BY <1>s, <3>4, <3>7, <3>9
  <2> QED BY <1>6, <2>1, <2>2
<1>7. CASE Sweep
  <2>1. PICK A, G : /\ G = {[path |-> p, stats |-> db.files[p]] : p \in TrackedPaths \ scan.seen}
                    /\ scan' = [scan EXCEPT !.paths = A, !.gone = G]
    BY <1>7 DEF Sweep
  <2>2. G \subseteq OwnTomb
    <3>1. \A p \in TrackedPaths : /\ p \in Path /\ db.files[p] \in Note
                                  /\ db.files[p] # Absent /\ Own(p, db.files[p])
      BY DEF TrackedPaths, Tracked, Others, TypesInv, Index, Stored, OwnedInv, OwnIndex, OwnFiles
    <3>2. \A p \in TrackedPaths : [path |-> p, stats |-> db.files[p]] \in OwnTomb
      BY <3>1 DEF Tombstone, OwnTomb
    <3> QED BY <2>1, <3>2
  <2>3. scan'.gone = G /\ scan'.found = scan.found
    BY <1>s, <2>1 DEF Scanning
  <2> QED BY <1>s, <2>2, <2>3
<1> QED BY <1>1, <1>2, <1>3, <1>4, <1>5, <1>6, <1>7, WhoWritesScan

(* What a scan pairs is one note that moved, and so is every entry.         *)
LEMMA FoundOwn ==
  ASSUME NothingCompeting, Others, OwnedInv
  PROVE  \A x \in pair_vanished_after_scan : Owner[x[1]] = Owner[x[2]]
<1>1. ASSUME NEW by, NEW x \in Alike(by) PROVE Owner[x[1].path] = Owner[x[2].path]
  <2>1. /\ x[1] \in scan.gone /\ x[2] \in appeared_since
        /\ key(by, x[1].stats) = key(by, x[2].stats)
    BY DEF Alike
  <2>2. /\ x[1].path \in Path /\ x[1].stats \in Note /\ x[1].stats # Absent
        /\ Own(x[1].path, x[1].stats)
    BY <2>1 DEF OwnedInv, OwnTomb, Tombstone
  <2>3. PICK p \in TrackedPaths : x[2] = [path |-> p, stats |-> db.files[p]]
    BY <2>1 DEF appeared_since
  <2>4. p \in Path /\ db.files[p] \in Note /\ db.files[p] # Absent /\ Own(p, db.files[p])
    BY DEF TrackedPaths, Tracked, Others, TypesInv, Index, Stored, OwnedInv, OwnIndex, OwnFiles
  <2>5. x[2].path = p /\ x[2].stats = db.files[p]
    BY <2>3
  <2> QED BY <2>1, <2>2, <2>4, <2>5, AlikeAreOne
<1>2. ASSUME NEW z \in pair_vanished_after_scan
      PROVE  \E by : \E x \in Alike(by) : z = <<x[1].path, x[2].path>>
  BY DEF pair_vanished_after_scan
<1> QED BY <1>1, <1>2

(* The journal takes a note from one of its paths to another.               *)
LEMMA LogOwns ==
  ASSUME NothingCompeting, Others, OwnedInv, [Next]_vars
  PROVE  journal' \in Seq(OwnEntry)
<1>t. journal \in Seq(OwnEntry) /\ db.nextOp - 1 \in Nat
  BY DEF Others, TypesInv, Index, OwnedInv
<1>1. CASE UNCHANGED <<journal, second>> \/ Tick
  BY <1>t, <1>1 DEF Tick
<1>2. CASE JournalRename \/ JournalInFolder
  <2>1. PICK p \in Path, q \in Path :
          /\ Owner[p] = Owner[q]
          /\ journal' = Append(journal, [op |-> db.nextOp - 1, from |-> p, to |-> q])
    <3>1. CASE JournalRename
      BY <3>1 DEF JournalRename, Others, StageInv, append_entry, OwnedInv, JobOwn
    <3>2. CASE JournalInFolder
      <4>1. PICK x \in job.plans : journal' = append_entry(journal, db.nextOp - 1, x[1], x[2])
        BY <3>2 DEF JournalInFolder
      <4>2. x[1] \in Path /\ x[2] \in Path /\ Owner[x[1]] = Owner[x[2]]
        BY <4>1 DEF Others, TypesInv, Job, Pairs, OwnedInv, JobOwn, Alone
      <4> QED BY <4>1, <4>2 DEF append_entry
    <3> QED BY <1>2, <3>1, <3>2
  <2>2. PICK e \in OwnEntry : e = [op |-> db.nextOp - 1, from |-> p, to |-> q]
    BY <1>t, <2>1 DEF Entry, OwnEntry
  <2> QED BY <1>t, <2>1, <2>2
<1>3. CASE FlushEnds \/ ReplayEnds
  <2>1. journal' \in {journal, prune_materialized_journal(journal, db)}
    BY <1>3 DEF FlushEnds, ReplayEnds
  <2>2. prune_materialized_journal(journal, db) \in Seq(OwnEntry)
    BY <1>t, WithoutTyped DEF prune_materialized_journal
  <2> QED BY <1>t, <2>1, <2>2
<1>4. CASE journal_renames_found_by_scan
  <2>1. PICK P : P = pair_vanished_after_scan
    OBVIOUS
  <2>2. P \in SUBSET (Path \X Path) /\ \A x \in P : Owner[x[1]] = Owner[x[2]]
    BY <2>1, FoundPairs, FoundOwn DEF Others, TypesInv
  <2>3. PICK E : E = {[op |-> 0, from |-> x[1], to |-> x[2]] : x \in P}
    OBVIOUS
  <2>4. E \in SUBSET OwnEntry /\ IsFiniteSet(E)
    <3>1. E \in SUBSET Entry /\ IsFiniteSet(E)
      BY <2>2, <2>3, FoundEntries
    <3>2. \A e \in E : Owner[e.from] = Owner[e.to]
      BY <2>2, <2>3
    <3> QED BY <3>1, <3>2 DEF OwnEntry
  <2>5. SetToSeq(E) \in Seq(OwnEntry)
    BY <2>4, SequenceOfSet
  <2>6. journal' = journal \o SetToSeq(E)
    BY <1>4, <2>1, <2>3 DEF journal_renames_found_by_scan
  <2> QED BY <1>t, <2>5, <2>6
<1> QED BY <1>1, <1>2, <1>3, <1>4, WhoWritesLog

(* At the start every note is under its own path and names what it leads to. *)
LEMMA StartOwn ==
  ASSUME NothingCompeting, Init, TypesInv
  PROVE  OwnedInv
<1>1. ASSUME NEW p \in Path PROVE Kept(p, disk[p])
  <2>1. disk[p] = InitNote(p)
    BY DEF Init
  <2>2. CASE InitText[p] = Absent
    BY <2>1, <2>2 DEF InitNote, Kept, Own
  <2>3. CASE InitText[p] # Absent
    <3>1. p \in Origins /\ disk[p].id = p /\ disk[p].text = InitText[p]
      BY <2>1, <2>3 DEF InitNote, Origins
    <3> QED BY <3>1, OwnerIs DEF Kept, Own
  <2> QED BY <2>2, <2>3
<1>2. db \in OwnIndex
  <2>1. ASSUME NEW p \in OnDisk PROVE link_rows(p, disk[p].text, OnDisk) \subseteq OwnLink
    <3>1. p \in Path /\ disk[p].text \subseteq Fits(Owner[p]) /\ OnDisk \in SUBSET Path
      BY <1>1 DEF OnDisk, Kept
    <3> QED BY <3>1, LinkRowsOwn
  <2>2. PICK L : L = UNION {link_rows(p, disk[p].text, OnDisk) : p \in OnDisk}
    OBVIOUS
  <2>3. L \subseteq OwnLink
    BY <2>1, <2>2
  <2>4. db.files = disk /\ db.links = L /\ db.rows = {}
    BY <2>2 DEF Init
  <2>5. db.files \in OwnFiles
    BY <1>1, <2>4 DEF TypesInv, OwnFiles, Kept
  <2> QED BY <2>3, <2>4, <2>5 DEF TypesInv, OwnIndex
<1>3. /\ ~ InTransaction /\ journal = <<>> /\ events = <<>> /\ tombs = {}
      /\ scan.gone = {} /\ scan.found = {}
  BY DEF Init, InTransaction, Idle, NoScan
<1>4. JobOwn(job) /\ WatchOwn(watch, events)
  BY <1>3 DEF Init, Idle, NotWatching, JobOwn, WatchOwn
<1> QED BY <1>1, <1>2, <1>3, <1>4 DEF OwnedInv

-------------------------------------------------------------------------------
(* No link ever leads to another note than it led to at the start, whoever   *)
(* renames what, in whatever order scans, watcher and flushes run, and        *)
(* wherever the program stops, as long as nothing competes: no two notes are  *)
(* copies and no name is ever another note's.                               *)
THEOREM NobodyIsMisled == NothingCompeting => (Spec => []NeverMisled)
<1> SUFFICES ASSUME NothingCompeting PROVE Spec => []NeverMisled
  OBVIOUS
<1>1. Init /\ Others => OwnedInv
  BY StartOwn DEF Others
<1>2. Others /\ OwnedInv /\ [Next]_vars => OwnedInv'
  <2> SUFFICES ASSUME Others, OwnedInv, [Next]_vars PROVE OwnedInv'
    OBVIOUS
  <2>1. (\A p \in Path : Kept(p, disk[p]))'
    BY DiskOwn
  <2>2. db' \in OwnIndex /\ (InTransaction => saved \in OwnIndex)'
    BY IndexOwn, SavedOwn
  <2>3. JobOwn(job') /\ WatchOwn(watch', events') /\ tombs' \subseteq OwnTomb
    BY JobOwns, WatchOwns
  <2>4. scan'.gone \subseteq OwnTomb /\ scan'.found \subseteq OwnFound /\ journal' \in Seq(OwnEntry)
    BY ScanOwns, LogOwns
  <2> QED BY <2>1, <2>2, <2>3, <2>4 DEF OwnedInv
<1>3. Others /\ OwnedInv => NeverMisled
  <2> SUFFICES ASSUME Others, OwnedInv, NEW p \in OnDisk,
                      NEW k \in View(p), resolve(k, OnDisk) # Null
               PROVE  disk[resolve(k, OnDisk)].id \in LedTo(disk[p].id)
    BY DEF NeverMisled, LeadsTo
  <2>1. PICK q : q = resolve(k, OnDisk)
    OBVIOUS
  <2>2. q \in OnDisk /\ q \in Path /\ token_names_file(k, q)
    BY <2>1, ResolveNames DEF OnDisk
  <2>3. p \in Path /\ disk[p] # Absent /\ disk[p] \in Note /\ OneRow(db.rows)
    BY DEF OnDisk, Others, TypesInv, Stored, QueueInv, RowsInv, QueueKept
  <2>4. Kept(p, disk[p]) /\ Kept(q, disk[q]) /\ db \in OwnIndex
    BY <2>2, <2>3 DEF OwnedInv
  <2>5. k \in Fits(Owner[p])
    BY <2>3, <2>4, ViewOwn
  <2>6. Owner[q] \in LedTo(Owner[p])
    BY <2>2, <2>5 DEF Fits
  <2>7. disk[q].id = Owner[q] /\ disk[p].id = Owner[p]
    BY <2>2, <2>3, <2>4 DEF Kept, Own, OnDisk
  <2> QED BY <2>1, <2>6, <2>7
<1>4. Spec => []Others
  BY QueueKeeps, StagesTyped, PTL DEF Others
<1> QED BY <1>1, <1>2, <1>3, <1>4, PTL DEF Spec
=============================================================================
