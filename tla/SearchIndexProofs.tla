------------------------- MODULE SearchIndexProofs -------------------------
(***************************************************************************)
(* A search index that says Ready, with nothing under way, has every note  *)
(* as it is on disk: for any number of notes, texts, changes and scans.    *)
(***************************************************************************)
EXTENDS SearchIndex, WellFoundedInduction, TLAPS

LEMMA FreshIsUnused ==
  ASSUME Unused # {} PROVE Fresh \in Unused
<1>1. Unused \subseteq Nat
  BY SearchAssumption DEF Unused, Scan
<1>2. PICK k \in Unused : \A j \in Unused : ~(<<j, k>> \in OpToRel(<, Nat))
  BY <1>1, WFMin, NatLessThanWellFounded
<1>3. \A j \in Unused : k <= j
  <2> SUFFICES ASSUME NEW j \in Unused, j < k PROVE FALSE
    BY <1>1
  <2>1. <<j, k>> \in OpToRel(<, Nat)
    BY <1>1 DEF OpToRel
  <2> QED BY <1>2, <2>1
<1> QED BY <1>3 DEF Fresh

(* What the index misses is counted, and nothing missed is forgotten. *)
LEMMA MissesMore ==
  ASSUME TypeOK, NEW ns \in SUBSET Note, Misses(ns)
  PROVE  /\ changes' \in 0..MaxChanges
         /\ raced' \subseteq Note /\ raced \subseteq raced' /\ ns \subseteq raced'
BY SearchAssumption DEF TypeOK, Misses

(* A commit puts before the searches what the writer had, for the notes it does
   not miss. *)
LEMMA CommitShows ==
  ASSUME TypeOK, NEW w \in [Note -> Version], NEW ns \in SUBSET Note, Commit(w, ns)
  PROVE  /\ writer' \in [Note -> Version] /\ reader' \in [Note -> Version]
         /\ changes' \in 0..MaxChanges
         /\ raced' \subseteq Note /\ raced \subseteq raced' /\ ns \subseteq raced'
         /\ \A n \in Note \ raced' : writer'[n] = w[n] /\ reader'[n] = w[n]
<1>1. CASE writer' = w /\ reader' = w /\ Misses(ns)
  BY <1>1, MissesMore
<1>2. CASE ~(writer' = w /\ reader' = w /\ Misses(ns))
  <2> DEFINE unsure == {n \in Note : w[n] # reader[n]}
  <2>1. /\ reader' = reader
        /\ writer' \in [Note -> Version] /\ \A n \in Note : writer'[n] \in {w[n], reader[n]}
        /\ Misses(ns \cup unsure) /\ ns \cup unsure \in SUBSET Note
    BY <1>2 DEF Commit
  <2> HIDE DEF unsure
  <2>2. /\ changes' \in 0..MaxChanges
        /\ raced' \subseteq Note /\ raced \subseteq raced' /\ ns \cup unsure \subseteq raced'
    BY <2>1, MissesMore
  <2>3. \A n \in Note \ raced' : w[n] = reader[n]
    BY <2>2 DEF unsure
  <2> QED BY <2>1, <2>2, <2>3 DEF TypeOK
<1> QED BY <1>1, <1>2

(* A step of the index keeps the types. *)
LEMMA TypesStay ==
  ASSUME TypeOK, held[0] # <<>> => batch # <<>>, [Next]_vars
  PROVE  TypeOK'
<1> USE SearchAssumption
<1> USE DEF TypeOK
<1>0. /\ Version \subseteq Nat /\ 0 \in Version /\ 1 \in Version
      /\ Event \subseteq Event \cup [kind : {"flush"}]
      /\ \A n \in Note : [kind |-> "Modified", note |-> n] \in Event
      /\ \A n \in Note : [kind |-> "Removed", note |-> n] \in Event
  BY DEF Version, Event
<1>1. ASSUME NEW n \in Note, Save(n) PROVE TypeOK'
  <2>1. [disk EXCEPT ![n] = @ + 1] \in [Note -> Version]
    BY <1>1 DEF Save, Version
  <2> QED BY <1>0, <1>1, <2>1 DEF Save, Changes, docs, scans
<1>2. ASSUME NEW n \in Note, Delete(n) PROVE TypeOK'
  BY <1>0, <1>2 DEF Delete, Changes, docs, scans
<1>3. ASSUME NEW n \in Note, NEW m \in Note, RenameMoves(n, m) PROVE TypeOK'
  <2>1. [disk EXCEPT ![m] = disk[n], ![n] = 0] \in [Note -> Version]
    BY <1>0
  <2>2. {n, m} \subseteq Note /\ <<n, m>> \in Note \X Note
    OBVIOUS
  <2>3. queue' \in Seq(Event) /\ changes' \in 0..MaxChanges /\ raced' \subseteq Note
    BY <1>0, <1>3, <2>2 DEF RenameMoves, Changes
  <2> QED BY <1>3, <2>1, <2>2, <2>3 DEF RenameMoves, Changes, docs, scans
<1>4. CASE commit_rename
  <2> DEFINE n == rename[1]
             m == rename[2]
  <2>1. /\ n \in Note /\ m \in Note
        /\ UNCHANGED <<disk, cell, queue, batch, held, scan, todo, seen, tx>>
        /\ rename' = <<>>
    BY <1>4 DEF commit_rename, watch, scans
  <2>2. CASE UNCHANGED docs /\ (Misses({}) \/ Misses({n, m}))
    <3>1. changes' \in 0..MaxChanges /\ raced' \subseteq Note
      BY <2>1, <2>2, MissesMore
    <3> QED BY <2>1, <2>2, <3>1 DEF docs
  <2>3. ASSUME NEW a \in {0, writer[n]}, NEW b \in {0, writer[m], disk[m]}, NEW ns \in SUBSET Note,
               Commit([writer EXCEPT ![n] = a, ![m] = b], ns)
        PROVE  TypeOK'
    <3>1. [writer EXCEPT ![n] = a, ![m] = b] \in [Note -> Version]
      BY <1>0, <2>1
    <3>2. /\ writer' \in [Note -> Version] /\ reader' \in [Note -> Version]
          /\ changes' \in 0..MaxChanges /\ raced' \subseteq Note
      BY <2>3, <3>1, CommitShows
    <3> QED BY <2>1, <3>2
  <2> HIDE DEF TypeOK
  <2>4. {n, m} \in SUBSET Note /\ {} \in SUBSET Note
    BY <2>1
  <2>5. \/ UNCHANGED docs /\ (Misses({}) \/ Misses({n, m}))
        \/ Commit([writer EXCEPT ![n] = 0, ![m] = disk[m]], {})
        \/ \E a \in {0, writer[n]}, b \in {0, writer[m], disk[m]} :
             Commit([writer EXCEPT ![n] = a, ![m] = b], {n, m})
    BY <1>4 DEF commit_rename
  <2> QED BY <2>2, <2>3, <2>4, <2>5
<1>5. CASE handle_watch_batch
  <2>1. /\ queue \in Seq(Event \cup [kind : {"flush"}])
        /\ [kind |-> "flush"] \in Event \cup [kind : {"flush"}]
    BY <1>0
  <2> QED BY <1>5, <2>1 DEF handle_watch_batch, docs, scans
<1>6. CASE ReadWatched
  <2>1. Head(batch).note \in Note
    BY <1>6 DEF ReadWatched, Event
  <2>2. /\ <<Head(batch).note, disk[Head(batch).note]>> \in Note \X Version
        /\ 0 \in {0} \cup Scan
    BY <2>1
  <2>3. held' \in [{0} \cup Scan -> {<<>>} \cup (Note \X Version)]
    BY <1>6, <2>1, <2>2 DEF ReadWatched
  <2> QED BY <1>6, <2>3 DEF ReadWatched, docs, scans, watch
<1>w. CASE WatchSkips
  <2>1. Head(batch).note \in Note /\ batch' \in Seq(Event \cup [kind : {"flush"}])
    BY <1>w DEF WatchSkips, Event
  <2>2. \E ns \in SUBSET Note : Misses(ns)
    BY <1>w, <2>1 DEF WatchSkips
  <2>3. changes' \in 0..MaxChanges /\ raced' \subseteq Note
    BY <2>2, MissesMore
  <2> QED BY <1>w, <2>1, <2>3 DEF WatchSkips, docs, scans
<1>7. CASE changed
  <2>0. held[0] \in {<<>>} \cup (Note \X Version)
    OBVIOUS
  <2>1. held[0] \in Note \X Version /\ held[0][1] \in Note /\ held[0][2] \in Version
    BY <1>7, <2>0 DEF changed
  <2>2. writer' \in [Note -> Version]
    BY <1>0, <1>7, <2>1 DEF changed
  <2>4. held' \in [{0} \cup Scan -> {<<>>} \cup (Note \X Version)]
    <3>1. held' = [held EXCEPT ![0] = <<>>]
      BY <1>7 DEF changed
    <3>2. <<>> \in {<<>>} \cup (Note \X Version)
      OBVIOUS
    <3> HIDE DEF TypeOK
    <3>3. held \in [{0} \cup Scan -> {<<>>} \cup (Note \X Version)]
      BY DEF TypeOK
    <3> QED BY <3>1, <3>2, <3>3
  <2>3. batch' \in Seq(Event \cup [kind : {"flush"}])
    BY <1>7 DEF changed
  <2>5. changes' \in 0..MaxChanges /\ raced' \subseteq Note
    <3>1. \E ns \in SUBSET Note : Misses(ns)
      BY <1>7, <2>1 DEF changed
    <3> QED BY <3>1, MissesMore
  <2> QED BY <1>7, <2>2, <2>3, <2>4, <2>5 DEF changed, scans
<1>8. CASE removed
  <2>0. Head(batch).note \in Note
    BY <1>8 DEF removed, Event
  <2>1. writer' \in [Note -> Version]
    BY <1>0, <1>8 DEF removed
  <2>2. batch' \in Seq(Event \cup [kind : {"flush"}])
    BY <1>8 DEF removed
  <2>3. changes' \in 0..MaxChanges /\ raced' \subseteq Note
    <3>1. \E ns \in SUBSET Note : Misses(ns)
      BY <1>8, <2>0 DEF removed
    <3> QED BY <3>1, MissesMore
  <2> QED BY <1>8, <2>1, <2>2, <2>3 DEF removed, scans
<1>9. CASE flush
  <2>1. /\ writer' \in [Note -> Version] /\ reader' \in [Note -> Version]
        /\ changes' \in 0..MaxChanges /\ raced' \subseteq Note
    BY <1>9, CommitShows DEF flush
  <2> QED BY <1>9, <2>1 DEF flush, scans
<1>10. ASSUME NEW k \in Scan, ScanStep(k) PROVE TypeOK'
  <2>1. /\ 0 \notin Scan /\ k \in {0} \cup Scan
        /\ \A to \in {"begin", "walk", "rebatch", "retain", "drop", "links", "settle",
                      "failed", "done"} :
              [scan EXCEPT ![k] = to] \in [Scan -> Idle \cup Walking \cup {"links", "settle", "failed"}]
    BY DEF Scan, Idle, Walking
  <2>2. CASE Begin(k)
    BY <2>1, <2>2 DEF Begin, Goes, docs, watch
  <2>3. CASE Rebatch(k)
    BY <2>1, <2>3 DEF Rebatch, Goes, docs, watch
  <2>4. ASSUME NEW n \in Note, Walk(k, n) PROVE TypeOK'
    <3>1. changes' \in 0..MaxChanges /\ raced' \subseteq Note
      <4>1. \E ns \in SUBSET Note : Misses(ns)
        BY <2>4 DEF Walk
      <4> QED BY <4>1, MissesMore
    <3>2. held' \in [{0} \cup Scan -> {<<>>} \cup (Note \X Version)]
      BY <2>1, <2>4 DEF Walk
    <3> QED BY <2>1, <2>4, <3>1, <3>2 DEF Walk, docs, watch
  <2>5. CASE markdown(k)
    <3> DEFINE n == held[k][1]
               text == held[k][2]
    <3>1. held[k] \in Note \X Version /\ n \in Note /\ text \in Version
      BY <2>1, <2>5 DEF markdown
    <3>2. PICK d \in {text, writer[n], 0}, ns \in SUBSET Note :
            \/ /\ writer' = [writer EXCEPT ![n] = d] /\ UNCHANGED reader
               /\ Misses(ns)
            \/ Commit([writer EXCEPT ![n] = d], ns)
      BY <2>5, <3>1 DEF markdown
    <3>3. [writer EXCEPT ![n] = d] \in [Note -> Version]
      BY <1>0, <3>1
    <3>4. /\ writer' \in [Note -> Version] /\ reader' \in [Note -> Version]
          /\ changes' \in 0..MaxChanges /\ raced' \subseteq Note
      BY <3>2, <3>3, MissesMore, CommitShows
    <3>5. held' \in [{0} \cup Scan -> {<<>>} \cup (Note \X Version)]
      BY <2>1, <2>5, <3>1 DEF markdown
    <3>6. seen' \in [Scan -> SUBSET Note]
      BY <2>5, <3>1 DEF markdown
    <3> QED BY <2>5, <3>4, <3>5, <3>6 DEF markdown, watch
  <2>6. CASE WalkStops(k)
    BY <2>1, <2>6 DEF WalkStops, Goes, docs, watch
  <2>7. CASE WalkEnds(k)
    <3>1. /\ writer' \in [Note -> Version] /\ reader' \in [Note -> Version]
          /\ changes' \in 0..MaxChanges /\ raced' \subseteq Note
      BY <2>7, CommitShows DEF WalkEnds
    <3> QED BY <2>1, <2>7, <3>1 DEF WalkEnds, Goes, watch
  <2>8. CASE FindOrphans(k)
    <3>1. changes' \in 0..MaxChanges /\ raced' \subseteq Note
      <4>1. \E ns \in SUBSET Note : Misses(ns)
        BY <2>8 DEF FindOrphans
      <4> QED BY <4>1, MissesMore
    <3>2. scan' \in [Scan -> Idle \cup Walking \cup {"links", "settle", "failed"}]
      BY <2>1, <2>8 DEF FindOrphans, Goes
    <3>3. todo' \in [Scan -> SUBSET Note]
      BY <2>8 DEF FindOrphans
    <3> QED BY <2>8, <3>1, <3>2, <3>3 DEF FindOrphans, docs, watch
  <2>9. CASE DropOrphans(k)
    <3>1. [n \in Note |-> IF n \in todo[k] THEN 0 ELSE writer[n]] \in [Note -> Version]
      BY <1>0
    <3>2. /\ writer' \in [Note -> Version] /\ reader' \in [Note -> Version]
          /\ changes' \in 0..MaxChanges /\ raced' \subseteq Note
      <4>1. CASE UNCHANGED docs /\ Misses({})
        BY <4>1, MissesMore DEF docs
      <4>2. CASE Commit([n \in Note |-> IF n \in todo[k] THEN 0 ELSE writer[n]], {})
        BY <3>1, <4>2, CommitShows
      <4> HIDE DEF TypeOK
      <4> QED BY <2>9, <4>1, <4>2 DEF DropOrphans
    <3> QED BY <2>1, <2>9, <3>2 DEF DropOrphans, Goes, watch
  <2>10. CASE LinkPass(k)
    BY <2>1, <2>10 DEF LinkPass, Goes, docs, watch
  <2>11. CASE settle_after_scan(k)
    BY <2>1, <2>11 DEF settle_after_scan, Goes, docs, watch
  <2> HIDE DEF TypeOK
  <2> QED
    BY <1>10, <2>2, <2>3, <2>4, <2>5, <2>6, <2>7, <2>8, <2>9, <2>10, <2>11
    DEF ScanStep
<1>11. CASE search_rebuild_index
  BY <1>0, <1>11 DEF search_rebuild_index, NoDocs, Walking, watch
<1>r. CASE WipeRefused
  <2>1. changes' \in 0..MaxChanges /\ raced' \subseteq Note
    BY <1>r, MissesMore DEF WipeRefused
  <2> QED BY <1>0, <1>r, <2>1 DEF WipeRefused, NoDocs, watch, scans
<1>12. CASE Reopen
  <2>0. \A n \in Note : [disk EXCEPT ![n] = IF @ = 0 THEN 1 ELSE 0] \in [Note -> Version]
    BY <1>0
  <2>1. disk' \in [Note -> Version]
    <3>1. CASE UNCHANGED disk
      BY <3>1
    <3>2. ASSUME NEW n \in Note, disk' = [disk EXCEPT ![n] = IF @ = 0 THEN 1 ELSE 0]
          PROVE  disk' \in [Note -> Version]
      BY <2>0, <3>2
    <3> QED BY <1>12, <3>1, <3>2 DEF Reopen
  <2>5. changes' \in 0..MaxChanges
    BY <1>12 DEF Reopen
  <2>2. writer' \in [Note -> Version] /\ reader' \in [Note -> Version]
    BY <1>0, <1>12 DEF Reopen, NoDocs
  <2>3. held' \in [{0} \cup Scan -> {<<>>} \cup (Note \X Version)]
    BY <1>12 DEF Reopen
  <2>4. scan' \in [Scan -> Idle \cup Walking \cup {"links", "settle", "failed"}]
    BY <1>12 DEF Reopen, Idle, Walking
  <2> QED BY <1>12, <2>1, <2>2, <2>3, <2>4, <2>5 DEF Reopen
<1>13. CASE UNCHANGED vars
  BY <1>13 DEF vars, docs, watch, scans
<1> HIDE DEF TypeOK
<1> QED
  BY <1>1, <1>2, <1>3, <1>4, <1>5, <1>6, <1>w, <1>7, <1>8, <1>9, <1>10, <1>11, <1>r, <1>12,
     <1>13
  DEF Next, WatcherStep

(* A batch ends with its flush, and what the dispatcher has read is the note of
   the first event of the batch. *)
WatcherInv ==
  /\ \A i \in 1..Len(batch) : batch[i].kind = "flush" <=> i = Len(batch)
  /\ held[0] # <<>> => /\ batch # <<>>
                       /\ Head(batch).kind = "Modified"
                       /\ Head(batch).note = held[0][1]

LEMMA WatcherStays ==
  ASSUME TypeOK, WatcherInv, [Next]_vars
  PROVE  WatcherInv'
<1>t. /\ queue \in Seq(Event) /\ batch \in Seq(Event \cup [kind : {"flush"}])
      /\ held \in [{0} \cup Scan -> {<<>>} \cup (Note \X Version)]
      /\ 0 \notin Scan
  BY DEF TypeOK, Scan
<1>1. ASSUME UNCHANGED batch, held'[0] = held[0] PROVE WatcherInv'
  BY <1>1 DEF WatcherInv
<1>2. CASE handle_watch_batch
  <2>1. \A i \in 1..Len(queue) : queue[i].kind # "flush"
    <3>1. \A i \in 1..Len(queue) : queue[i] \in Event
      BY <1>t
    <3> QED BY <3>1 DEF Event
  <2>2. \A i \in 1..Len(batch') : batch'[i].kind = "flush" <=> i = Len(batch')
    BY <1>2, <1>t, <2>1 DEF handle_watch_batch
  <2>3. held'[0] = <<>>
    BY <1>2 DEF handle_watch_batch, WatcherInv
  <2> QED BY <2>2, <2>3 DEF WatcherInv
<1>3. CASE batch # <<>> /\ batch' = Tail(batch) /\ held'[0] = <<>>
  BY <1>3, <1>t DEF WatcherInv
<1>4. CASE ReadWatched
  BY <1>4, <1>t DEF ReadWatched, WatcherInv, watch
<1>w. CASE WatchSkips
  BY <1>3, <1>w DEF WatchSkips
<1>5. CASE changed
  BY <1>3, <1>5, <1>t DEF changed, WatcherInv
<1>6. CASE removed
  BY <1>3, <1>6, <1>t DEF removed, WatcherInv
<1>7. CASE flush
  BY <1>7, <1>t DEF flush, WatcherInv
<1>8. CASE Reopen
  BY <1>8, <1>t DEF Reopen, WatcherInv
<1>9. ASSUME NEW n \in Note, Save(n) \/ Delete(n) \/ \E m \in Note : RenameMoves(n, m)
      PROVE  WatcherInv'
  BY <1>1, <1>9 DEF Save, Delete, RenameMoves, Changes
<1>10. CASE commit_rename
  BY <1>1, <1>10 DEF commit_rename, watch
<1>11. ASSUME NEW k \in Scan, ScanStep(k) PROVE WatcherInv'
  <2>1. \A v : [held EXCEPT ![k] = v][0] = held[0]
    BY <1>t
  <2> QED
    BY <1>1, <1>11, <2>1
    DEF ScanStep, Begin, Rebatch, Walk, markdown, WalkStops, WalkEnds, FindOrphans,
        DropOrphans, LinkPass, settle_after_scan, watch
<1>12. CASE search_rebuild_index \/ WipeRefused
  BY <1>1, <1>12 DEF search_rebuild_index, WipeRefused, watch
<1>13. CASE UNCHANGED vars
  BY <1>1, <1>13 DEF vars, watch
<1> QED
  BY <1>2, <1>4, <1>w, <1>5, <1>6, <1>7, <1>8, <1>9, <1>10, <1>11, <1>12, <1>13
  DEF Next, WatcherStep

(* Two scans are under way only where nothing is said of any note. *)
OneScan ==
  \/ Note \subseteq raced
  \/ \A j, k \in Scan : scan[j] \notin Idle /\ scan[k] \notin Idle => j = k

(* A scan that has not begun to walk has all notes before it; only a walk has
   read a note that is not indexed; no note is both before and behind it. *)
ScanShape(k) ==
  /\ scan[k] \in {"off", "begin"} => todo[k] = Note /\ seen[k] = {}
  /\ held[k] # <<>> => scan[k] = "walk"
  /\ scan[k] \in {"walk", "rebatch"} =>
       /\ todo[k] \cap seen[k] = {}
       /\ held[k] # <<>> => held[k][1] \notin todo[k]

ScansInv ==
  /\ OneScan
  /\ \A k \in Scan : ScanShape(k)
  /\ tx # Nobody => scan[tx] = "walk"
  /\ rename # <<>> => rename[1] # rename[2]

(* The dispatcher leaves the files and the scans alone. *)
LEMMA WatcherAlone ==
  ASSUME TypeOK, WatcherStep
  PROVE  /\ UNCHANGED <<disk, cell, scans, scan, todo, seen, tx, rename>>
         /\ raced \subseteq raced'
         /\ \A k \in Scan : held'[k] = held[k]
<1>1. UNCHANGED <<disk, cell, scans, scan, todo, seen, tx, rename>>
  BY DEF WatcherStep, handle_watch_batch, ReadWatched, WatchSkips, changed, removed, flush, scans
<1>4. raced \subseteq raced'
  BY DEF WatcherStep, handle_watch_batch, ReadWatched, WatchSkips, changed, removed, flush,
         Commit, Misses
<1>2. held' = held \/ \E v : held' = [held EXCEPT ![0] = v]
  BY DEF WatcherStep, handle_watch_batch, ReadWatched, WatchSkips, changed, removed, flush
<1>3. \A v : \A k \in Scan : [held EXCEPT ![0] = v][k] = held[k]
  BY DEF TypeOK, Scan
<1> QED BY <1>1, <1>2, <1>3, <1>4

(* A step of a scan leaves the others and the watcher alone; only a scan that
   begins alone forgets what was raced. *)
LEMMA ScanAlone ==
  ASSUME TypeOK, ScansInv, NEW k \in Scan, ScanStep(k)
  PROVE  /\ scan[k] \notin Idle
         /\ \A j \in Scan \ {k} : /\ scan'[j] = scan[j] /\ held'[j] = held[j]
                                  /\ todo'[j] = todo[j] /\ seen'[j] = seen[j]
         /\ UNCHANGED <<disk, queue, batch, rename>> /\ held'[0] = held[0]
         /\ \/ raced \subseteq raced'
            \/ /\ scan[k] = "begin" /\ scan'[k] = "walk"
               /\ UNCHANGED <<docs, held, todo, seen>>
               /\ rename = <<>> /\ ~OnItsWay(raced)
               /\ \A j \in Scan \ {k} : scan[j] \in Idle
<1>0. /\ \A j \in Scan \ {k} : \A v :
           /\ [scan EXCEPT ![k] = v][j] = scan[j] /\ [held EXCEPT ![k] = v][j] = held[j]
           /\ [todo EXCEPT ![k] = v][j] = todo[j] /\ [seen EXCEPT ![k] = v][j] = seen[j]
      /\ \A v : [scan EXCEPT ![k] = v][k] = v /\ [held EXCEPT ![k] = v][0] = held[0]
  BY DEF TypeOK, Scan
<1>1. scan[k] \notin Idle
  BY DEF ScanStep, Begin, Rebatch, Walk, markdown, WalkStops, WalkEnds, FindOrphans,
         DropOrphans, LinkPass, settle_after_scan, Goes, ScansInv, ScanShape, Idle
<1>2. UNCHANGED <<disk, queue, batch, rename>>
  BY DEF ScanStep, Begin, Rebatch, Walk, markdown, WalkStops, WalkEnds, FindOrphans,
         DropOrphans, LinkPass, settle_after_scan, watch
<1> DEFINE Others == /\ \A j \in Scan \ {k} : /\ scan'[j] = scan[j] /\ held'[j] = held[j]
                                              /\ todo'[j] = todo[j] /\ seen'[j] = seen[j]
                     /\ held'[0] = held[0]
<1>3. ASSUME Begin(k)
      PROVE  /\ Others
             /\ \/ raced \subseteq raced'
                \/ /\ scan[k] = "begin" /\ scan'[k] = "walk"
                   /\ UNCHANGED <<docs, held, todo, seen>>
                   /\ rename = <<>> /\ ~OnItsWay(raced)
                   /\ \A j \in Scan \ {k} : scan[j] \in Idle
  <2>1. PICK to : scan' = [scan EXCEPT ![k] = to]
    BY <1>3 DEF Begin, Goes
  <2>2. UNCHANGED <<docs, held, todo, seen>>
    BY <1>3 DEF Begin
  <2>3. Others
    BY <1>0, <2>1, <2>2
  <2>4. \/ raced \subseteq raced'
        \/ /\ scan[k] = "begin" /\ scan' = [scan EXCEPT ![k] = "walk"]
           /\ rename = <<>> /\ ~OnItsWay(raced)
           /\ \A j \in Scan \ {k} : scan[j] \in Idle
    BY <1>3 DEF Begin, Goes
  <2> QED BY <1>0, <2>2, <2>3, <2>4
<1>4. ASSUME Rebatch(k) PROVE Others /\ raced \subseteq raced'
  BY <1>0, <1>4 DEF Rebatch, Goes
<1>5. ASSUME NEW n \in Note, Walk(k, n) PROVE Others /\ raced \subseteq raced'
  <2>1. held' = held \/ \E v : held' = [held EXCEPT ![k] = v]
    BY <1>5 DEF Walk
  <2>2. Others
    <3>1. held'[0] = held[0] /\ \A j \in Scan \ {k} : held'[j] = held[j]
      <4>1. CASE held' = held
        BY <4>1
      <4>2. ASSUME NEW v, held' = [held EXCEPT ![k] = v]
            PROVE  held'[0] = held[0] /\ \A j \in Scan \ {k} : held'[j] = held[j]
        BY <1>0, <4>2
      <4> QED BY <2>1, <4>1, <4>2
    <3>2. UNCHANGED <<scan, seen>> /\ todo' = [todo EXCEPT ![k] = @ \ {n}]
      BY <1>5 DEF Walk
    <3>3. \A j \in Scan \ {k} : todo'[j] = todo[j]
      BY <1>0, <3>2
    <3> QED BY <3>1, <3>2, <3>3
  <2>3. raced \subseteq raced'
    BY <1>5 DEF Walk, Misses
  <2> QED BY <2>2, <2>3
<1>6. ASSUME markdown(k) PROVE Others /\ raced \subseteq raced'
  <2>1. Others
    BY <1>0, <1>6 DEF markdown
  <2>2. raced \subseteq raced'
    BY <1>6 DEF markdown, Commit, Misses
  <2> QED BY <2>1, <2>2
<1>7. ASSUME WalkStops(k) PROVE Others /\ raced \subseteq raced'
  BY <1>0, <1>7 DEF WalkStops, Goes
<1>8. ASSUME WalkEnds(k) PROVE Others /\ raced \subseteq raced'
  BY <1>0, <1>8 DEF WalkEnds, Goes, Commit, Misses
<1>9. ASSUME FindOrphans(k) PROVE Others /\ raced \subseteq raced'
  <2>1. /\ \E to : scan' = [scan EXCEPT ![k] = to]
        /\ todo' = todo \/ \E v : todo' = [todo EXCEPT ![k] = v]
    BY <1>9 DEF FindOrphans, Goes
  <2>2. UNCHANGED <<held, seen>>
    BY <1>9 DEF FindOrphans
  <2>3. Others
    <3>1. \A j \in Scan \ {k} : scan'[j] = scan[j]
      BY <1>0, <2>1
    <3>2. \A j \in Scan \ {k} : todo'[j] = todo[j]
      <4>1. CASE todo' = todo
        BY <4>1
      <4>2. ASSUME NEW v, todo' = [todo EXCEPT ![k] = v]
            PROVE  \A j \in Scan \ {k} : todo'[j] = todo[j]
        BY <1>0, <4>2
      <4> QED BY <2>1, <4>1, <4>2
    <3> QED BY <2>2, <3>1, <3>2
  <2>4. raced \subseteq raced'
    BY <1>9 DEF FindOrphans, Misses
  <2> QED BY <2>3, <2>4
<1>10. ASSUME DropOrphans(k) PROVE Others /\ raced \subseteq raced'
  BY <1>0, <1>10 DEF DropOrphans, Goes, Commit, Misses
<1>11. ASSUME LinkPass(k) PROVE Others /\ raced \subseteq raced'
  <2>1. PICK to : scan' = [scan EXCEPT ![k] = to]
    BY <1>11 DEF LinkPass, Goes
  <2>2. UNCHANGED <<held, todo, seen, raced>>
    BY <1>11 DEF LinkPass
  <2> QED BY <1>0, <2>1, <2>2
<1>12. ASSUME settle_after_scan(k) PROVE Others /\ raced \subseteq raced'
  <2>1. PICK to : scan' = [scan EXCEPT ![k] = to]
    BY <1>12 DEF settle_after_scan, Goes
  <2>2. /\ UNCHANGED <<held, raced>>
        /\ todo' = [todo EXCEPT ![k] = Note] /\ seen' = [seen EXCEPT ![k] = {}]
    BY <1>12 DEF settle_after_scan
  <2> QED BY <1>0, <2>1, <2>2
<1>13. Others
  <2> HIDE DEF Others
  <2> QED BY <1>3, <1>4, <1>5, <1>6, <1>7, <1>8, <1>9, <1>10, <1>11, <1>12 DEF ScanStep
<1> QED
  BY <1>1, <1>2, <1>3, <1>4, <1>5, <1>6, <1>7, <1>8, <1>9, <1>10, <1>11, <1>12, <1>13
  DEF ScanStep

LEMMA ScansStay ==
  ASSUME TypeOK, ScansInv, [Next]_vars
  PROVE  ScansInv'
<1>t. /\ held \in [{0} \cup Scan -> {<<>>} \cup (Note \X Version)]
      /\ scan \in [Scan -> Idle \cup Walking \cup {"links", "settle", "failed"}]
      /\ todo \in [Scan -> SUBSET Note] /\ seen \in [Scan -> SUBSET Note]
      /\ tx \in Scan \cup {Nobody} /\ Nobody \notin Scan /\ 0 \notin Scan
      /\ raced \subseteq Note
      /\ disk \in [Note -> Version]
  BY SearchAssumption DEF TypeOK, Scan
<1>1. ASSUME UNCHANGED scans, \A k \in Scan : held'[k] = held[k],
             raced \subseteq raced',
             rename' # <<>> => rename' = rename \/ rename'[1] # rename'[2]
      PROVE  ScansInv'
  <2>1. OneScan'
    BY <1>1, <1>t DEF ScansInv, OneScan, scans
  <2>2. \A k \in Scan : ScanShape(k)'
    BY <1>1 DEF ScansInv, ScanShape, scans
  <2> QED BY <1>1, <2>1, <2>2 DEF ScansInv, scans
<1>2. ASSUME NEW n \in Note, Save(n) \/ Delete(n) PROVE ScansInv'
  BY <1>1, <1>2 DEF Save, Delete, Changes
<1>3. ASSUME NEW n \in Note, NEW m \in Note, RenameMoves(n, m) PROVE ScansInv'
  <2>1. n # m /\ rename' = <<n, m>>
    BY <1>3 DEF RenameMoves
  <2> QED BY <1>1, <1>3, <2>1 DEF RenameMoves, Changes
<1>4. CASE commit_rename
  <2>1. raced \subseteq raced'
    BY <1>4 DEF commit_rename, Commit, Misses
  <2> QED BY <1>1, <1>4, <2>1 DEF commit_rename
<1>5. CASE WatcherStep
  BY <1>1, <1>5, WatcherAlone
<1>6. ASSUME NEW k \in Scan, ScanStep(k) PROVE ScansInv'
  <2>1. /\ scan[k] \notin Idle
        /\ \A j \in Scan \ {k} : /\ scan'[j] = scan[j] /\ held'[j] = held[j]
                                 /\ todo'[j] = todo[j] /\ seen'[j] = seen[j]
        /\ rename' = rename
    BY <1>6, ScanAlone
  <2>2. raced \subseteq raced' \/ \A j \in Scan \ {k} : scan[j] \in Idle
    BY <1>6, ScanAlone
  <2>3. OneScan'
    BY <2>1, <2>2 DEF ScansInv, OneScan
  <2>4. \A j \in Scan \ {k} : ScanShape(j)'
    BY <2>1 DEF ScansInv, ScanShape
  <2>6. ScanShape(k)' /\ (tx' # Nobody => scan'[tx'] = "walk")
    <3> USE DEF ScansInv, ScanShape
    <3>1. CASE Begin(k)
      BY <1>t, <3>1 DEF Begin, Goes
    <3>2. CASE Rebatch(k)
      BY <1>t, <3>2 DEF Rebatch, Goes
    <3>3. ASSUME NEW n \in Note, Walk(k, n)
          PROVE  ScanShape(k)' /\ (tx' # Nobody => scan'[tx'] = "walk")
      BY <1>t, <3>3 DEF Walk
    <3>4. CASE markdown(k)
      BY <1>t, <3>4 DEF markdown
    <3>5. CASE WalkStops(k)
      BY <1>t, <3>5 DEF WalkStops, Goes
    <3>6. CASE WalkEnds(k)
      BY <1>t, <3>6 DEF WalkEnds, Goes
    <3>7. CASE FindOrphans(k)
      BY <1>t, <3>7 DEF FindOrphans, Goes
    <3>8. CASE DropOrphans(k)
      BY <1>t, <3>8 DEF DropOrphans, Goes
    <3>9. CASE LinkPass(k)
      BY <1>t, <3>9 DEF LinkPass, Goes
    <3>10. CASE settle_after_scan(k)
      BY <1>t, <3>10 DEF settle_after_scan, Goes
    <3> HIDE DEF ScansInv, ScanShape
    <3> QED
      BY <1>6, <3>1, <3>2, <3>3, <3>4, <3>5, <3>6, <3>7, <3>8, <3>9, <3>10 DEF ScanStep
  <2> QED BY <2>1, <2>3, <2>4, <2>6 DEF ScansInv
<1>7. CASE search_rebuild_index
  <2>1. Fresh \in Unused /\ Fresh \in Scan /\ scan[Fresh] = "off"
    BY <1>7, FreshIsUnused DEF search_rebuild_index, Unused
  <2>2. \A k \in Scan : scan'[k] = IF k = Fresh THEN "begin" ELSE scan[k]
    BY <1>7, <1>t, <2>1 DEF search_rebuild_index
  <2>3. OneScan'
    <3>1. CASE Scanning
      BY <1>7, <3>1 DEF search_rebuild_index, OneScan
    <3>2. CASE ~Scanning
      <4>1. \A k \in Scan : scan'[k] \notin Idle => k = Fresh
        BY <2>2, <3>2 DEF Scanning
      <4> QED BY <4>1 DEF OneScan
    <3> QED BY <3>1, <3>2
  <2>4. \A k \in Scan : ScanShape(k)'
    BY <1>7, <2>1, <2>2 DEF search_rebuild_index, ScansInv, ScanShape
  <2> QED BY <1>7, <2>1, <2>2, <2>3, <2>4, <1>t DEF search_rebuild_index, ScansInv
<1>8. CASE Reopen
  <2>1. Fresh \in Unused /\ \A k \in Unused : k \in Scan /\ scan[k] = "off"
    BY <1>8, FreshIsUnused DEF Reopen, Unused
  <2>2. \A k \in Scan : scan'[k] = IF k = Fresh THEN "begin"
                                   ELSE IF k \in Unused THEN "off" ELSE "done"
    BY <1>8 DEF Reopen
  <2>3. OneScan'
    BY <2>2 DEF OneScan, Idle
  <2>4. \A k \in Scan : ScanShape(k)'
    BY <1>8, <1>t, <2>1, <2>2 DEF Reopen, ScansInv, ScanShape
  <2> QED BY <1>8, <2>3, <2>4 DEF Reopen, ScansInv
<1>r. CASE WipeRefused
  <2>1. raced \subseteq raced'
    BY <1>r DEF WipeRefused, Misses
  <2> QED BY <1>1, <1>r, <2>1 DEF WipeRefused
<1>9. CASE UNCHANGED vars
  BY <1>1, <1>9 DEF vars
<1> QED
  BY <1>2, <1>3, <1>4, <1>5, <1>6, <1>7, <1>8, <1>r, <1>9 DEF Next

-------------------------------------------------------------------------------
(* Events about a note *)

Says(ev, n) == ev.kind # "flush" /\ ev.note = n
Mentions(s, n) == \E i \in 1..Len(s) : Says(s[i], n)
Due(n) == Mentions(queue, n) \/ Mentions(batch, n)

(* The last event about a note, if there is one, tells whether it is there. *)
LastSays(s, n, text) ==
  \A i \in 1..Len(s) :
    Says(s[i], n) /\ (\A j \in 1..Len(s) : j > i => ~Says(s[j], n))
      => (s[i].kind = "Modified" <=> text # 0)

LEMMA NothingSaid ==
  ASSUME NEW n, NEW text PROVE ~Mentions(<<>>, n) /\ LastSays(<<>>, n, text)
BY DEF Mentions, LastSays

(* One more event. *)
LEMMA SaidLast ==
  ASSUME NEW S, NEW s \in Seq(S), NEW ev \in S, NEW n, NEW text
  PROVE  /\ Mentions(Append(s, ev), n) <=> Mentions(s, n) \/ Says(ev, n)
         /\ Says(ev, n) => (LastSays(Append(s, ev), n, text)
                              <=> (ev.kind = "Modified" <=> text # 0))
         /\ ~Says(ev, n) => (LastSays(Append(s, ev), n, text) <=> LastSays(s, n, text))
<1>1. /\ Len(Append(s, ev)) = Len(s) + 1 /\ Len(s) \in Nat
      /\ Append(s, ev)[Len(s) + 1] = ev
      /\ \A i \in 1..Len(s) : Append(s, ev)[i] = s[i]
  OBVIOUS
<1>2. Mentions(Append(s, ev), n) <=> Mentions(s, n) \/ Says(ev, n)
  <2> HIDE DEF Says
  <2> QED BY <1>1 DEF Mentions
<1>3. ASSUME Says(ev, n)
      PROVE  LastSays(Append(s, ev), n, text) <=> (ev.kind = "Modified" <=> text # 0)
  BY <1>1, <1>3 DEF LastSays
<1>4. ASSUME ~Says(ev, n)
      PROVE  LastSays(Append(s, ev), n, text) <=> LastSays(s, n, text)
  BY <1>1, <1>4 DEF LastSays
<1> QED BY <1>2, <1>3, <1>4

(* One event less. *)
LEMMA SaidFirst ==
  ASSUME NEW S, NEW s \in Seq(S), s # <<>>, NEW n, NEW text
  PROVE  /\ Mentions(s, n) <=> Says(Head(s), n) \/ Mentions(Tail(s), n)
         /\ LastSays(s, n, text) => LastSays(Tail(s), n, text)
         /\ LastSays(s, n, text) /\ Says(Head(s), n) /\ ~Mentions(Tail(s), n)
              => (Head(s).kind = "Modified" <=> text # 0)
<1>1. /\ Len(s) \in Nat /\ Len(s) > 0 /\ Head(s) = s[1]
      /\ Len(Tail(s)) = Len(s) - 1
      /\ \A i \in 1..Len(s) - 1 : Tail(s)[i] = s[i + 1]
  OBVIOUS
<1>2. Mentions(s, n) => Says(Head(s), n) \/ Mentions(Tail(s), n)
  <2> SUFFICES ASSUME NEW i \in 1..Len(s), Says(s[i], n), i # 1 PROVE Mentions(Tail(s), n)
    BY <1>1 DEF Mentions
  <2>1. i - 1 \in 1..Len(Tail(s)) /\ Tail(s)[i - 1] = s[i]
    BY <1>1
  <2> QED BY <2>1 DEF Mentions
<1>3. Says(Head(s), n) \/ Mentions(Tail(s), n) => Mentions(s, n)
  <2>1. Says(Head(s), n) => Mentions(s, n)
    BY <1>1 DEF Mentions
  <2>2. ASSUME NEW i \in 1..Len(Tail(s)), Says(Tail(s)[i], n) PROVE Mentions(s, n)
    <3>1. i + 1 \in 1..Len(s) /\ Tail(s)[i] = s[i + 1]
      BY <1>1
    <3> QED BY <2>2, <3>1 DEF Mentions
  <2> QED BY <2>1, <2>2 DEF Mentions
<1>4. ASSUME LastSays(s, n, text) PROVE LastSays(Tail(s), n, text)
  <2> SUFFICES ASSUME NEW i \in 1..Len(Tail(s)), Says(Tail(s)[i], n),
                      \A j \in 1..Len(Tail(s)) : j > i => ~Says(Tail(s)[j], n)
               PROVE  Tail(s)[i].kind = "Modified" <=> text # 0
    BY DEF LastSays
  <2>1. i + 1 \in 1..Len(s) /\ Tail(s)[i] = s[i + 1]
    BY <1>1
  <2>2. ASSUME NEW j \in 1..Len(s), j > i + 1 PROVE ~Says(s[j], n)
    <3>1. j - 1 \in 1..Len(Tail(s)) /\ j - 1 > i /\ Tail(s)[j - 1] = s[j]
      BY <1>1, <2>2
    <3> QED BY <3>1
  <2> QED BY <1>4, <2>1, <2>2 DEF LastSays
<1>5. ASSUME LastSays(s, n, text), Says(Head(s), n), ~Mentions(Tail(s), n)
      PROVE  Head(s).kind = "Modified" <=> text # 0
  <2>1. ASSUME NEW j \in 1..Len(s), j > 1 PROVE ~Says(s[j], n)
    <3>1. j - 1 \in 1..Len(Tail(s)) /\ Tail(s)[j - 1] = s[j]
      BY <1>1, <2>1
    <3> QED BY <1>5, <3>1 DEF Mentions
  <2> QED BY <1>1, <1>5, <2>1 DEF LastSays
<1> QED BY <1>2, <1>3, <1>4, <1>5

(* OnItsWay finds an event wherever it is. *)
LEMMA OnItsWayIsDue ==
  ASSUME TypeOK, NEW ns, NEW n \in ns, Due(n)
  PROVE  OnItsWay(ns)
<1> DEFINE E == Event \cup [kind : {"flush"}]
<1>1. queue \in Seq(E) /\ batch \in Seq(E)
  BY DEF TypeOK
<1>2. /\ Len(queue) \in Nat /\ Len(batch) \in Nat
      /\ DOMAIN (queue \o batch) = 1..(Len(queue) + Len(batch))
      /\ \A i \in 1..Len(queue) : (queue \o batch)[i] = queue[i]
      /\ \A i \in 1..Len(batch) : (queue \o batch)[Len(queue) + i] = batch[i]
  BY <1>1
<1>3. PICK i \in DOMAIN (queue \o batch) : Says((queue \o batch)[i], n)
  <2>1. CASE Mentions(queue, n)
    BY <1>2, <2>1 DEF Mentions
  <2>2. ASSUME NEW i \in 1..Len(batch), Says(batch[i], n)
        PROVE  \E j \in DOMAIN (queue \o batch) : Says((queue \o batch)[j], n)
    <3>1. Len(queue) + i \in DOMAIN (queue \o batch)
      BY <1>2
    <3> QED BY <1>2, <2>2, <3>1
  <2> QED BY <2>1, <2>2 DEF Due, Mentions
<1> QED BY <1>3 DEF OnItsWay, Says

LEMMA NotMentioned ==
  ASSUME NEW s, NEW n, NEW text, ~Mentions(s, n) PROVE LastSays(s, n, text)
BY DEF Mentions, LastSays

(* What is known of a note that was not raced: the last event on its way says
   whether it is there, the dispatcher has its text unless more is to come, and
   a rename moved it to where it is. *)
EventsInv(n) ==
  /\ LastSays(queue, n, disk[n])
  /\ ~Mentions(queue, n) => LastSays(batch, n, disk[n])
  /\ held[0] # <<>> /\ held[0][1] = n /\ ~Mentions(queue, n) /\ ~Mentions(Tail(batch), n)
       => held[0][2] = disk[n]
  /\ rename # <<>> => /\ rename[2] = n => disk[n] # 0
                      /\ rename[1] = n => disk[n] = 0

(* Where nothing is due, nothing has been read. *)
LEMMA NothingDue ==
  ASSUME TypeOK, WatcherInv, NEW n, ~Due(n)
  PROVE  ~(held[0] # <<>> /\ held[0][1] = n)
<1> SUFFICES ASSUME held[0] # <<>>, held[0][1] = n PROVE FALSE
  OBVIOUS
<1>1. batch # <<>> /\ Says(Head(batch), n)
  BY DEF WatcherInv, Says
<1>2. batch \in Seq(Event \cup [kind : {"flush"}])
  BY DEF TypeOK
<1>3. Mentions(batch, n)
  BY <1>1, <1>2, SaidFirst
<1> QED BY <1>3 DEF Due

LEMMA EventsStay ==
  ASSUME TypeOK, WatcherInv, ScansInv, [Next]_vars, NEW n \in Note \ raced',
         \A m \in Note \ raced : EventsInv(m)
  PROVE  EventsInv(n)'
<1>t. /\ queue \in Seq(Event) /\ batch \in Seq(Event \cup [kind : {"flush"}])
      /\ held \in [{0} \cup Scan -> {<<>>} \cup (Note \X Version)]
      /\ disk \in [Note -> Version] /\ Version \subseteq Nat
      /\ 0 \notin Scan /\ raced \subseteq Note
      /\ n \in Note
  BY DEF TypeOK, Scan, Version
<1>1. ASSUME n \notin raced, disk'[n] = disk[n], UNCHANGED <<queue, batch>>,
             held'[0] = held[0], rename' \in {rename, <<>>}
      PROVE  EventsInv(n)'
  <2>1. EventsInv(n)
    BY <1>1
  <2> QED BY <1>1, <2>1 DEF EventsInv
<1>2. ASSUME NEW m \in Note, NEW v \in Nat, NEW ev \in Event, ev.note = m,
             (ev.kind = "Modified") <=> (v # 0),
             Changes([disk EXCEPT ![m] = v], ev, {m}, FALSE), UNCHANGED rename
      PROVE  EventsInv(n)'
  <2>0. /\ queue' = Append(queue, ev) /\ UNCHANGED <<batch, held>>
        /\ disk' = [disk EXCEPT ![m] = v] /\ n \notin raced
        /\ n = m => rename = <<>>
    BY <1>2 DEF Changes
  <2>1. \A k : Says(ev, k) <=> k = m
    BY <1>2 DEF Says, Event
  <2>2. CASE n = m
    <3>1. Mentions(queue', n) /\ LastSays(queue', n, disk'[n])
      BY <1>2, <1>t, <2>0, <2>1, <2>2, SaidLast
    <3> QED BY <1>2, <2>0, <2>2, <3>1 DEF EventsInv
  <2>3. CASE n # m
    <3>1. /\ Mentions(queue', n) <=> Mentions(queue, n)
          /\ LastSays(queue', n, disk[n]) <=> LastSays(queue, n, disk[n])
      BY <1>2, <1>t, <2>0, <2>1, <2>3, SaidLast
    <3>2. disk'[n] = disk[n] /\ EventsInv(n)
      BY <2>0, <2>3, <1>t
    <3> QED BY <1>2, <2>0, <3>1, <3>2 DEF EventsInv
  <2> QED BY <2>2, <2>3
<1>3. ASSUME NEW m \in Note, Save(m) PROVE EventsInv(n)'
  <2> DEFINE ev == [kind |-> "Modified", note |-> m]
  <2>1. ev \in Event /\ ev.kind = "Modified" /\ ev.note = m
    BY DEF Event
  <2>3. disk[m] + 1 \in Nat /\ disk[m] + 1 # 0
    <3>1. disk[m] \in Nat
      BY <1>t
    <3> QED BY <3>1
  <2>2. Changes([disk EXCEPT ![m] = disk[m] + 1], ev, {m}, FALSE) /\ UNCHANGED rename
    BY <1>3 DEF Save, ev
  <2> HIDE DEF ev
  <2> QED BY <1>2, <2>1, <2>2, <2>3
<1>4. ASSUME NEW m \in Note, Delete(m) PROVE EventsInv(n)'
  <2> DEFINE ev == [kind |-> "Removed", note |-> m]
  <2>1. ev \in Event /\ ev.kind # "Modified" /\ ev.note = m
    BY DEF Event
  <2>2. Changes([disk EXCEPT ![m] = 0], ev, {m}, FALSE) /\ UNCHANGED rename
    BY <1>4 DEF Delete
  <2> HIDE DEF ev
  <2> QED BY <1>2, <2>1, <2>2
<1>5. ASSUME NEW a \in Note, NEW b \in Note, RenameMoves(a, b) PROVE EventsInv(n)'
  <2> DEFINE ev == [kind |-> "Removed", note |-> a]
  <2>1. ev \in Event /\ ev.kind = "Removed" /\ \A k : Says(ev, k) <=> k = a
    BY DEF Event, Says
  <2>2. /\ queue' = Append(queue, ev) /\ UNCHANGED <<batch, held>>
        /\ disk' = [disk EXCEPT ![b] = disk[a], ![a] = 0]
        /\ rename' = <<a, b>> /\ a # b /\ disk[a] # 0
        /\ n \notin raced
        /\ n \in {a, b} => ~OnItsWay({a, b})
    BY <1>5 DEF RenameMoves, Changes
  <2> HIDE DEF ev
  <2>3. /\ disk'[n] = IF n = a THEN 0 ELSE IF n = b THEN disk[a] ELSE disk[n]
        /\ EventsInv(n)
    BY <1>t, <2>2
  <2>4. rename' # <<>> => /\ rename'[2] = n => disk'[n] # 0
                          /\ rename'[1] = n => disk'[n] = 0
    BY <2>2, <2>3
  <2>5. CASE n = a
    <3>1. Mentions(queue', n) /\ LastSays(queue', n, disk'[n])
      BY <1>t, <2>1, <2>2, <2>3, <2>5, SaidLast
    <3> QED BY <2>4, <3>1 DEF EventsInv
  <2>6. CASE n # a
    <3>1. /\ Mentions(queue', n) <=> Mentions(queue, n)
          /\ \A text : LastSays(queue', n, text) <=> LastSays(queue, n, text)
      BY <1>t, <2>1, <2>2, <2>6, SaidLast
    <3>2. CASE n # b
      BY <2>2, <2>3, <2>4, <2>6, <3>1, <3>2 DEF EventsInv
    <3>3. CASE n = b
      <4>1. ~Due(n)
        BY <2>2, <3>3, OnItsWayIsDue
      <4>2. ~(held[0] # <<>> /\ held[0][1] = n)
        BY <4>1, NothingDue
      <4>3. \A text : LastSays(queue, n, text) /\ LastSays(batch, n, text)
        BY <4>1, NotMentioned DEF Due
      <4> QED BY <2>2, <2>4, <3>1, <4>2, <4>3 DEF EventsInv
    <3> QED BY <3>2, <3>3
  <2> QED BY <2>5, <2>6
<1>6. CASE commit_rename
  <2>1. n \notin raced
    BY <1>6 DEF commit_rename, Commit, Misses
  <2> QED BY <1>1, <1>6, <2>1 DEF commit_rename, watch
<1>7. CASE handle_watch_batch
  <2> DEFINE ev == [kind |-> "flush"]
  <2>1. /\ batch' = Append(queue, ev) /\ queue' = <<>> /\ batch = <<>>
        /\ UNCHANGED <<disk, held, rename, raced>>
    BY <1>7 DEF handle_watch_batch
  <2>2. queue \in Seq(Event \cup {ev}) /\ ~Says(ev, n)
    BY <1>t DEF Says
  <2> HIDE DEF ev
  <2>3. EventsInv(n) /\ held[0] = <<>>
    BY <2>1 DEF WatcherInv
  <2>4. LastSays(batch', n, disk[n]) /\ LastSays(queue', n, disk[n])
    BY <2>1, <2>2, <2>3, SaidLast, NothingSaid DEF EventsInv
  <2> QED BY <2>1, <2>3, <2>4 DEF EventsInv
<1>8. ASSUME batch # <<>>, batch' = Tail(batch), held'[0] = <<>>, n \notin raced,
             UNCHANGED <<disk, queue, rename>>
      PROVE  EventsInv(n)'
  <2>1. LastSays(batch, n, disk[n]) => LastSays(batch', n, disk[n])
    BY <1>8, <1>t, SaidFirst
  <2>2. EventsInv(n)
    BY <1>8
  <2> QED BY <1>8, <2>1, <2>2 DEF EventsInv
<1>9. CASE ReadWatched
  <2>1. held'[0] = <<Head(batch).note, disk[Head(batch).note]>>
    BY <1>9, <1>t DEF ReadWatched
  <2>2. EventsInv(n) /\ UNCHANGED <<disk, queue, batch, rename>>
    BY <1>9 DEF ReadWatched, watch
  <2> QED BY <2>1, <2>2 DEF EventsInv
<1>w. CASE WatchSkips
  BY <1>8, <1>w DEF WatchSkips, Misses
<1>10. CASE changed
  <2>1. batch # <<>> /\ held'[0] = <<>>
    BY <1>10, <1>t DEF changed, WatcherInv
  <2> QED BY <1>8, <1>10, <2>1 DEF changed, Misses
<1>11. CASE removed
  <2>1. held'[0] = <<>>
    BY <1>11 DEF removed, WatcherInv
  <2> QED BY <1>8, <1>11, <2>1 DEF removed, Misses
<1>12. CASE flush
  <2>1. /\ held'[0] = <<>> /\ batch' = <<>> /\ UNCHANGED <<disk, queue, rename>>
        /\ n \notin raced
    BY <1>12 DEF flush, WatcherInv, Commit, Misses
  <2>2. LastSays(batch', n, disk[n]) /\ EventsInv(n)
    BY <2>1, NothingSaid
  <2> QED BY <2>1, <2>2 DEF EventsInv
<1>13. ASSUME NEW k \in Scan, ScanStep(k) PROVE EventsInv(n)'
  <2>2. UNCHANGED <<disk, queue, batch, rename>> /\ held'[0] = held[0]
    BY <1>13, ScanAlone
  <2>3. n \notin raced \/ (rename = <<>> /\ ~OnItsWay(raced))
    BY <1>13, ScanAlone
  <2>4. CASE n \notin raced
    BY <1>1, <2>2, <2>4
  <2>5. CASE n \in raced /\ rename = <<>> /\ ~OnItsWay(raced)
    <3>1. ~Due(n)
      BY <2>5, OnItsWayIsDue
    <3>2. ~(held[0] # <<>> /\ held[0][1] = n)
      BY <3>1, NothingDue
    <3>3. LastSays(queue, n, disk[n]) /\ LastSays(batch, n, disk[n])
      BY <3>1, NotMentioned DEF Due
    <3> QED BY <2>2, <2>5, <3>2, <3>3 DEF EventsInv
  <2> QED BY <2>3, <2>4, <2>5
<1>14. CASE search_rebuild_index \/ WipeRefused
  BY <1>1, <1>14 DEF search_rebuild_index, WipeRefused, Misses, watch
<1>15. CASE Reopen
  <2>1. queue' = <<>> /\ batch' = <<>> /\ held'[0] = <<>> /\ rename' = <<>>
    BY <1>15, <1>t DEF Reopen
  <2>2. LastSays(queue', n, disk'[n]) /\ LastSays(batch', n, disk'[n])
    BY <2>1, NothingSaid
  <2> QED BY <2>1, <2>2 DEF EventsInv
<1>16. CASE UNCHANGED vars
  BY <1>1, <1>16 DEF vars, watch
<1> QED
  BY <1>3, <1>4, <1>5, <1>6, <1>7, <1>9, <1>w, <1>10, <1>11, <1>12, <1>13, <1>14, <1>15, <1>16
  DEF Next, WatcherStep

-------------------------------------------------------------------------------
(* A walk comes past every note that is there. *)

(* What a scan knows of a note that was not raced: it has read it as it is; it has
   it before it, in its hands or behind it, or the note is not there; and it
   takes it for an orphan only if it is not there. *)
Swept(k, n) ==
  /\ held[k] # <<>> /\ held[k][1] = n => held[k][2] = disk[n]
  /\ scan[k] \in {"walk", "rebatch"} =>
       \/ n \in todo[k] \/ (held[k] # <<>> /\ held[k][1] = n)
       \/ n \in seen[k] \/ disk[n] = 0
  /\ scan[k] = "retain" => n \in seen[k] \/ disk[n] = 0
  /\ scan[k] = "drop" /\ n \in todo[k] => disk[n] = 0

LEMMA SweptStays ==
  ASSUME TypeOK, ScansInv, [Next]_vars, NEW n \in Note \ raced',
         \A m \in Note \ raced : \A k \in Scan : Swept(k, m)
  PROVE  \A k \in Scan : Swept(k, n)'
<1>t. /\ held \in [{0} \cup Scan -> {<<>>} \cup (Note \X Version)]
      /\ scan \in [Scan -> Idle \cup Walking \cup {"links", "settle", "failed"}]
      /\ todo \in [Scan -> SUBSET Note] /\ seen \in [Scan -> SUBSET Note]
      /\ disk \in [Note -> Version] /\ Version \subseteq Nat
      /\ 0 \notin Scan /\ n \in Note
  BY DEF TypeOK, Scan, Version
<1>1. ASSUME n \notin raced, UNCHANGED scans, \A k \in Scan : held'[k] = held[k],
             disk'[n] = disk[n] \/ ~ScanIn(Walking)
      PROVE  \A k \in Scan : Swept(k, n)'
  <2> SUFFICES ASSUME NEW k \in Scan PROVE Swept(k, n)'
    OBVIOUS
  <2>1. Swept(k, n) /\ ScanShape(k)
    BY <1>1 DEF ScansInv
  <2>2. CASE disk'[n] = disk[n]
    BY <1>1, <2>1, <2>2 DEF Swept, scans
  <2>3. CASE ~ScanIn(Walking)
    <3>1. scan[k] \notin Walking
      BY <2>3 DEF ScanIn
    <3> QED BY <1>1, <2>1, <3>1 DEF Swept, ScanShape, scans, Walking
  <2> QED BY <1>1, <2>2, <2>3
<1>2. ASSUME NEW d, NEW ev, NEW ns, NEW late, Changes(d, ev, ns, late),
             n \notin ns => d[n] = disk[n]
      PROVE  \A k \in Scan : Swept(k, n)'
  <2>1. /\ n \notin raced /\ UNCHANGED <<held, scans>> /\ disk' = d
        /\ n \in ns => ~ScanIn(Walking)
    BY <1>2 DEF Changes
  <2> QED BY <1>1, <1>2, <2>1
<1>3. ASSUME NEW m \in Note, Save(m) PROVE \A k \in Scan : Swept(k, n)'
  <2>1. n \notin {m} => [disk EXCEPT ![m] = disk[m] + 1][n] = disk[n]
    BY <1>t
  <2> QED BY <1>2, <1>3, <2>1 DEF Save
<1>4. ASSUME NEW m \in Note, Delete(m) PROVE \A k \in Scan : Swept(k, n)'
  <2>1. n \notin {m} => [disk EXCEPT ![m] = 0][n] = disk[n]
    BY <1>t
  <2> QED BY <1>2, <1>4, <2>1 DEF Delete
<1>5. ASSUME NEW a \in Note, NEW b \in Note, RenameMoves(a, b)
      PROVE  \A k \in Scan : Swept(k, n)'
  <2>1. n \notin {a, b} => [disk EXCEPT ![b] = disk[a], ![a] = 0][n] = disk[n]
    BY <1>t
  <2> QED BY <1>2, <1>5, <2>1 DEF RenameMoves
<1>6. CASE commit_rename
  <2>1. n \notin raced
    BY <1>6 DEF commit_rename, Commit, Misses
  <2> QED BY <1>1, <1>6, <2>1 DEF commit_rename
<1>7. CASE WatcherStep
  BY <1>1, <1>7, WatcherAlone
<1>8. ASSUME NEW k \in Scan, ScanStep(k) PROVE \A j \in Scan : Swept(j, n)'
  <2>1. /\ UNCHANGED disk
        /\ \A j \in Scan \ {k} : /\ scan'[j] = scan[j] /\ held'[j] = held[j]
                                 /\ todo'[j] = todo[j] /\ seen'[j] = seen[j]
        /\ \/ raced \subseteq raced'
           \/ /\ scan[k] = "begin" /\ scan'[k] = "walk"
              /\ UNCHANGED <<held, todo>>
              /\ \A j \in Scan \ {k} : scan[j] \in Idle
    BY <1>8, ScanAlone
  <2>2. ScanShape(k) /\ \A j \in Scan : ScanShape(j)
    BY DEF ScansInv
  <2>3. CASE n \in raced
    <3>1. \A j \in Scan \ {k} : scan'[j] \in Idle /\ held'[j] = <<>>
      BY <2>1, <2>2, <2>3 DEF ScanShape, Idle
    <3>2. scan'[k] = "walk" /\ todo'[k] = Note /\ held'[k] = <<>>
      BY <2>1, <2>2, <2>3 DEF ScanShape
    <3> QED BY <1>t, <3>1, <3>2 DEF Swept, Idle
  <2>4. CASE n \notin raced
    <3>1. \A j \in Scan : Swept(j, n)
      BY <2>4
    <3>2. \A j \in Scan \ {k} : Swept(j, n)'
      BY <2>1, <3>1 DEF Swept
    <3>3. Swept(k, n)'
      <4> USE <1>t, <2>2, <3>1 DEF Swept, ScanShape
      <4>1. CASE Begin(k)
        BY <4>1 DEF Begin, Goes
      <4>2. CASE Rebatch(k)
        BY <4>2 DEF Rebatch, Goes
      <4>3. ASSUME NEW m \in Note, Walk(k, m) PROVE Swept(k, n)'
        BY <4>3 DEF Walk, Misses
      <4>4. CASE markdown(k)
        BY <4>4 DEF markdown
      <4>5. CASE WalkStops(k)
        BY <4>5 DEF WalkStops, Goes
      <4>6. CASE WalkEnds(k)
        BY <4>6 DEF WalkEnds, Goes
      <4>7. CASE FindOrphans(k)
        BY <4>7 DEF FindOrphans, Goes, Misses
      <4>8. CASE DropOrphans(k)
        BY <4>8 DEF DropOrphans, Goes
      <4>9. CASE LinkPass(k)
        BY <4>9 DEF LinkPass, Goes
      <4>10. CASE settle_after_scan(k)
        BY <4>10 DEF settle_after_scan, Goes
      <4> HIDE DEF Swept, ScanShape
      <4> QED
        BY <1>8, <4>1, <4>2, <4>3, <4>4, <4>5, <4>6, <4>7, <4>8, <4>9, <4>10 DEF ScanStep
    <3> QED BY <3>2, <3>3
  <2> QED BY <2>3, <2>4
<1>9. CASE search_rebuild_index
  <2>1. Fresh \in Unused /\ Fresh \in Scan /\ scan[Fresh] = "off"
    BY <1>9, FreshIsUnused DEF search_rebuild_index, Unused
  <2>2. \A k \in Scan : scan'[k] = IF k = Fresh THEN "begin" ELSE scan[k]
    BY <1>9, <1>t, <2>1 DEF search_rebuild_index
  <2>3. \A k \in Scan : scan[k] \in Idle
    BY <1>9 DEF search_rebuild_index, Scanning
  <2>4. \A k \in Scan : held'[k] = <<>>
    BY <1>9, <2>3 DEF search_rebuild_index, ScansInv, ScanShape, Idle
  <2> QED BY <2>2, <2>3, <2>4 DEF Swept, Idle
<1>10. CASE Reopen
  <2>1. \A k \in Scan : scan'[k] \in {"begin", "off", "done"} /\ held'[k] = <<>>
    BY <1>10, <1>t DEF Reopen
  <2> QED BY <2>1 DEF Swept
<1>r. CASE WipeRefused
  BY <1>1, <1>r DEF WipeRefused, Misses
<1>11. CASE UNCHANGED vars
  BY <1>1, <1>11 DEF vars
<1> QED
  BY <1>3, <1>4, <1>5, <1>6, <1>7, <1>8, <1>9, <1>10, <1>r, <1>11 DEF Next

-------------------------------------------------------------------------------
(* Every note that is wrong in the index is seen to *)

(* The stages in which a scan is still to put a note right. *)
WillFix(k, n) ==
  \/ scan[k] = "begin"
  \/ /\ scan[k] \in {"walk", "rebatch"}
     /\ \/ n \in todo[k]
        \/ held[k] = <<n, disk[n]>>
        \/ disk[n] = 0 /\ n \notin seen[k]
  \/ scan[k] = "retain" /\ disk[n] = 0 /\ n \notin seen[k] /\ reader[n] # 0
  \/ scan[k] = "drop" /\ n \in todo[k]

(* The index does not say Ready until another scan has begun. *)
Excused == ScanIn({"failed"}) \/ (cell = "Error" /\ ~Scanning)

Cared(n) ==
  \/ Due(n)
  \/ writer[n] = disk[n]
  \/ \E k \in Scan : WillFix(k, n)
  \/ rename # <<>> /\ rename[2] = n /\ ~ScanIn(Walking)
  \/ Excused

(* What the writer has and searches do not see yet is committed in time. *)
Committed ==
  \/ batch # <<>> \/ ScanIn({"walk", "rebatch"}) \/ Excused
  \/ \A n \in Note \ raced : reader[n] = writer[n]

IndexInv ==
  /\ TypeOK /\ WatcherInv /\ ScansInv /\ Committed
  /\ \A n \in Note \ raced :
       EventsInv(n) /\ Cared(n) /\ \A k \in Scan : Swept(k, n)

LEMMA CaredChanges ==
  ASSUME IndexInv, NEW n \in Note \ raced',
         NEW d, NEW ev \in Event, NEW ns, NEW late, Changes(d, ev, ns, late),
         n \notin ns, d[n] = disk[n], rename = <<>> \/ rename' = rename
  PROVE  Cared(n)'
<1>1. /\ n \in Note \ raced /\ disk'[n] = disk[n]
      /\ UNCHANGED <<writer, reader, cell, batch, held, scan, todo, seen>>
      /\ queue' = Append(queue, ev)
  BY DEF Changes, docs, scans
<1>2. Cared(n)
  BY <1>1 DEF IndexInv
<1>3. Due(n) => Due(n)'
  <2>1. queue \in Seq(Event)
    BY DEF IndexInv, TypeOK
  <2>2. Mentions(queue, n) => Mentions(queue', n)
    BY <1>1, <2>1, SaidLast
  <2> QED BY <1>1, <2>2 DEF Due
<1>4. \A k \in Scan : WillFix(k, n) => WillFix(k, n)'
  BY <1>1 DEF WillFix
<1>5. ScanIn(Walking)' <=> ScanIn(Walking)
  BY <1>1 DEF ScanIn
<1>6. Excused => Excused'
  BY <1>1 DEF Excused, ScanIn, Scanning
<1> QED BY <1>1, <1>2, <1>3, <1>4, <1>5, <1>6 DEF Cared

LEMMA CaredCommits ==
  ASSUME IndexInv, NEW n \in Note \ raced', commit_rename
  PROVE  Cared(n)'
<1>0. n \in Note \ raced
  BY DEF commit_rename, Commit, Misses
<1>1. /\ Cared(n) /\ EventsInv(n) /\ ScansInv
      /\ rename # <<>> /\ rename[1] # rename[2]
      /\ rename[1] \in Note /\ rename[2] \in Note
      /\ UNCHANGED <<disk, cell, queue, batch, held, scan, todo, seen>>
  BY <1>0 DEF IndexInv, TypeOK, ScansInv, commit_rename, watch, scans
<1>5. \/ UNCHANGED <<writer, reader>> /\ (disk[rename[2]] = 0 \/ tx # Nobody)
      \/ UNCHANGED <<writer, reader>> /\ Misses({rename[1], rename[2]})
      \/ Commit([writer EXCEPT ![rename[1]] = 0, ![rename[2]] = disk[rename[2]]], {})
      \/ \E a \in {0, writer[rename[1]]}, b \in {0, writer[rename[2]], disk[rename[2]]} :
           Commit([writer EXCEPT ![rename[1]] = a, ![rename[2]] = b], {rename[1], rename[2]})
  BY DEF commit_rename, docs
<1>2. (Due(n) => Due(n)') /\ (Excused => Excused')
  BY <1>1 DEF Due, Excused, ScanIn, Scanning
<1>3. CASE UNCHANGED <<writer, reader>> /\ (disk[rename[2]] = 0 \/ tx # Nobody)
  <2>1. \A k \in Scan : WillFix(k, n) => WillFix(k, n)'
    BY <1>1, <1>3 DEF WillFix
  <2>2. ~(rename[2] = n /\ ~ScanIn(Walking))
    <3> SUFFICES ASSUME rename[2] = n PROVE ScanIn(Walking)
      OBVIOUS
    <3>1. disk[n] # 0
      BY <1>1 DEF EventsInv
    <3>2. tx \in Scan /\ scan[tx] = "walk"
      BY <1>1, <1>3, <3>1 DEF IndexInv, TypeOK, ScansInv
    <3> QED BY <3>2 DEF ScanIn, Walking
  <2> QED BY <1>1, <1>2, <1>3, <2>1, <2>2 DEF Cared
<1>6. CASE UNCHANGED <<writer, reader>> /\ Misses({rename[1], rename[2]})
  <2>1. n \notin {rename[1], rename[2]}
    BY <1>1, <1>6, MissesMore DEF IndexInv
  <2>2. \A k \in Scan : WillFix(k, n) => WillFix(k, n)'
    BY <1>1, <1>6 DEF WillFix
  <2> QED BY <1>1, <1>2, <1>6, <2>1, <2>2 DEF Cared
<1>4. ASSUME NEW a \in {0, writer[rename[1]]}, NEW b \in {0, writer[rename[2]], disk[rename[2]]},
             NEW ns \in SUBSET Note,
             Commit([writer EXCEPT ![rename[1]] = a, ![rename[2]] = b], ns),
             (a = 0 /\ b = disk[rename[2]]) \/ ns = {rename[1], rename[2]}
      PROVE  Cared(n)'
  <2> DEFINE w == [writer EXCEPT ![rename[1]] = a, ![rename[2]] = b]
  <2>0. /\ TypeOK /\ Version \subseteq Nat /\ 0 \in Version
        /\ disk \in [Note -> Version] /\ writer \in [Note -> Version]
    BY SearchAssumption DEF IndexInv, TypeOK, Version
  <2>1. w \in [Note -> Version]
    BY <1>1, <2>0
  <2>2. ns \subseteq raced' /\ writer'[n] = w[n] /\ reader'[n] = w[n]
    <3> HIDE DEF w
    <3>1. Commit(w, ns)
      BY <1>4 DEF w
    <3> QED BY <1>0, <2>0, <2>1, <3>1, CommitShows
  <2>3. CASE n \in {rename[1], rename[2]}
    <3>1. writer'[n] = disk'[n]
      BY <1>1, <1>4, <2>0, <2>2, <2>3 DEF EventsInv
    <3> QED BY <3>1 DEF Cared
  <2>4. CASE n \notin {rename[1], rename[2]}
    <3>1. writer'[n] = writer[n] /\ reader'[n] = writer[n]
      BY <1>0, <1>1, <2>0, <2>2, <2>4
    <3>2. CASE writer[n] = disk[n]
      BY <1>1, <3>1, <3>2 DEF Cared
    <3>3. CASE writer[n] # disk[n]
      <4>1. \A k \in Scan : WillFix(k, n) => WillFix(k, n)'
        BY <1>1, <3>1, <3>3 DEF WillFix
      <4> QED BY <1>1, <1>2, <2>4, <3>3, <4>1 DEF Cared
    <3> QED BY <3>2, <3>3
  <2> QED BY <2>3, <2>4
<1>7. CASE Commit([writer EXCEPT ![rename[1]] = 0, ![rename[2]] = disk[rename[2]]], {})
  BY <1>4, <1>7
<1>8. CASE \E a \in {0, writer[rename[1]]}, b \in {0, writer[rename[2]], disk[rename[2]]} :
             Commit([writer EXCEPT ![rename[1]] = a, ![rename[2]] = b], {rename[1], rename[2]})
  <2>1. {rename[1], rename[2]} \in SUBSET Note
    BY <1>1
  <2> QED BY <1>4, <1>8, <2>1
<1> QED BY <1>3, <1>5, <1>6, <1>7, <1>8

LEMMA CaredWatches ==
  ASSUME IndexInv, NEW n \in Note \ raced', WatcherStep
  PROVE  Cared(n)'
<1>t. /\ queue \in Seq(Event) /\ batch \in Seq(Event \cup [kind : {"flush"}])
      /\ held \in [{0} \cup Scan -> {<<>>} \cup (Note \X Version)]
      /\ writer \in [Note -> Version] /\ 0 \notin Scan
      /\ WatcherInv
  BY DEF IndexInv, TypeOK, Scan
<1>1. /\ n \in Note /\ n \notin raced /\ Cared(n) /\ EventsInv(n)
      /\ UNCHANGED <<disk, cell, scan, todo, seen, rename>>
  BY WatcherAlone DEF IndexInv
<1>2. \A k \in Scan : held'[k] = held[k]
  BY WatcherAlone DEF IndexInv
<1>3. (ScanIn(Walking)' <=> ScanIn(Walking)) /\ (Excused' <=> Excused)
  BY <1>1 DEF Excused, ScanIn, Scanning
<1>4. ASSUME writer'[n] = writer[n], reader'[n] \in {reader[n], writer[n]},
             Due(n) => Due(n)'
      PROVE  Cared(n)'
  <2>1. CASE writer[n] = disk[n]
    BY <1>1, <1>4, <2>1 DEF Cared
  <2>2. CASE writer[n] # disk[n]
    <3>1. \A k \in Scan : WillFix(k, n) => WillFix(k, n)'
      BY <1>1, <1>2, <1>4, <2>2 DEF WillFix
    <3> QED BY <1>1, <1>3, <1>4, <2>2, <3>1 DEF Cared
  <2> QED BY <2>1, <2>2
<1>5. CASE handle_watch_batch
  <2> DEFINE ev == [kind |-> "flush"]
  <2>1. /\ batch' = Append(queue, ev) /\ queue' = <<>> /\ batch = <<>>
        /\ UNCHANGED <<writer, reader>>
    BY <1>5 DEF handle_watch_batch, docs
  <2>2. queue \in Seq(Event \cup {ev}) /\ ev \in Event \cup {ev}
    BY <1>t
  <2> HIDE DEF ev
  <2>3. Mentions(queue, n) => Mentions(batch', n)
    BY <2>1, <2>2, SaidLast
  <2>4. Due(n) => Due(n)'
    BY <2>1, <2>3, NothingSaid DEF Due
  <2> QED BY <1>4, <2>1, <2>4
(* The first event of the batch is dealt with. *)
<1>6. ASSUME batch # <<>>, batch' = Tail(batch), UNCHANGED queue
      PROVE  /\ ~Says(Head(batch), n) => (Due(n) => Due(n)')
             /\ Says(Head(batch), n) /\ ~Due(n)' =>
                  (Head(batch).kind = "Modified") <=> (disk[n] # 0)
  <2>1. /\ Mentions(batch, n) <=> Says(Head(batch), n) \/ Mentions(batch', n)
        /\ LastSays(batch, n, disk[n]) /\ Says(Head(batch), n) /\ ~Mentions(batch', n)
             => (Head(batch).kind = "Modified" <=> disk[n] # 0)
    BY <1>6, <1>t, SaidFirst
  <2> QED BY <1>1, <1>6, <2>1 DEF Due, EventsInv
<1>7. CASE ReadWatched
  BY <1>4, <1>7 DEF ReadWatched, docs, watch, Due
<1>w. CASE WatchSkips
  <2>1. /\ UNCHANGED <<writer, reader, queue>> /\ batch' = Tail(batch)
        /\ batch # <<>> /\ Head(batch).kind = "Modified"
    BY <1>w DEF WatchSkips, docs
  <2>3. ASSUME n = Head(batch).note, disk[n] # 0 PROVE FALSE
    <3>1. Misses({n}) /\ {n} \in SUBSET Note /\ TypeOK
      BY <1>1, <1>w, <2>3 DEF WatchSkips, IndexInv
    <3> QED BY <3>1, MissesMore
  <2>2. Due(n) => Due(n)'
    BY <1>6, <2>1, <2>3 DEF Says
  <2> QED BY <1>4, <2>1, <2>2
<1>8. CASE changed
  <2>1. /\ batch # <<>> /\ batch' = Tail(batch) /\ UNCHANGED <<queue, reader>>
        /\ held[0] # <<>> /\ held[0][1] = Head(batch).note
        /\ Head(batch).kind = "Modified"
        /\ \E text : writer' \in {writer, [writer EXCEPT ![Head(batch).note] = text]}
        /\ n = Head(batch).note => writer' = [writer EXCEPT ![n] = held[0][2]]
    BY <1>8, <1>t DEF changed, WatcherInv, Misses
  <2>2. CASE n # Head(batch).note
    <3>1. writer'[n] = writer[n] /\ reader'[n] = reader[n]
      BY <1>t, <1>1, <2>1, <2>2
    <3>2. Due(n) => Due(n)'
      BY <1>6, <2>1, <2>2 DEF Says
    <3> QED BY <1>4, <3>1, <3>2
  <2>3. CASE n = Head(batch).note /\ ~Due(n)'
    <3>1. held[0][2] = disk[n]
      BY <1>1, <2>1, <2>3 DEF Due, EventsInv
    <3>2. writer'[n] = disk'[n]
      BY <1>t, <1>1, <2>1, <2>3, <3>1
    <3> QED BY <3>2 DEF Cared
  <2> QED BY <2>2, <2>3 DEF Cared
<1>9. CASE removed
  <2>1. /\ batch # <<>> /\ batch' = Tail(batch) /\ UNCHANGED <<queue, reader>>
        /\ writer' \in {writer, [writer EXCEPT ![Head(batch).note] = 0]}
        /\ n = Head(batch).note => writer' = [writer EXCEPT ![n] = 0]
        /\ Head(batch).kind = "Removed"
    BY <1>9 DEF removed, Misses
  <2>2. CASE n # Head(batch).note
    <3>1. writer'[n] = writer[n] /\ reader'[n] = reader[n]
      BY <1>t, <1>1, <2>1, <2>2
    <3>2. Due(n) => Due(n)'
      BY <1>6, <2>1, <2>2 DEF Says
    <3> QED BY <1>4, <3>1, <3>2
  <2>3. CASE n = Head(batch).note /\ ~Due(n)'
    <3>1. disk[n] = 0
      BY <1>6, <2>1, <2>3 DEF Says
    <3>2. writer'[n] = disk'[n]
      BY <1>t, <1>1, <2>1, <2>3, <3>1
    <3> QED BY <3>2 DEF Cared
  <2> QED BY <2>2, <2>3 DEF Cared
<1>10. CASE flush
  <2>1. /\ batch # <<>> /\ Head(batch).kind = "flush" /\ UNCHANGED queue
        /\ writer'[n] = writer[n] /\ reader'[n] = writer[n]
    BY <1>10, <1>t, CommitShows DEF flush, IndexInv
  <2>2. Len(batch) = 1 /\ batch[1].kind = "flush"
    <3>1. Head(batch) = batch[1] /\ 1 \in 1..Len(batch)
      BY <1>t, <2>1
    <3> QED BY <1>t, <2>1, <3>1 DEF WatcherInv
  <2>3. ~Mentions(batch, n)
    BY <2>2 DEF Mentions, Says
  <2>4. Due(n) => Due(n)'
    BY <2>1, <2>3 DEF Due
  <2> QED BY <1>4, <2>1, <2>4
<1> QED BY <1>5, <1>7, <1>w, <1>8, <1>9, <1>10 DEF WatcherStep

(* What becomes of a note that is not missed, when the sink is given a note and
   when the orphans are dropped. *)
LEMMA MarkdownPuts ==
  ASSUME TypeOK, NEW k \in Scan, markdown(k), NEW n \in Note \ raced'
  PROVE  writer'[n] = IF held[k][1] = n THEN held[k][2] ELSE writer[n]
<1> DEFINE m == held[k][1]
           text == held[k][2]
<1>1. /\ held[k] \in Note \X Version /\ m \in Note /\ text \in Version
      /\ writer \in [Note -> Version] /\ 0 \in Version
  <2>1. k \in {0} \cup Scan /\ held[k] # <<>>
    BY DEF markdown
  <2> QED BY <2>1, SearchAssumption DEF TypeOK, Version
<1>2. PICK d \in {text, writer[m], 0} :
        LET missed == IF d = text THEN {} ELSE {m}
        IN \/ writer' = [writer EXCEPT ![m] = d] /\ Misses(missed)
           \/ Commit([writer EXCEPT ![m] = d], missed)
  BY DEF markdown
<1> DEFINE missed == IF d = text THEN {} ELSE {m}
           w == [writer EXCEPT ![m] = d]
<1>3. missed \in SUBSET Note /\ w \in [Note -> Version]
  BY <1>1
<1>4. missed \subseteq raced' /\ writer'[n] = w[n]
  <2>1. (writer' = w /\ Misses(missed)) \/ Commit(w, missed)
    BY <1>2
  <2> HIDE DEF missed, w
  <2> QED BY <1>3, <2>1, MissesMore, CommitShows
<1>5. m = n => d = text
  BY <1>4
<1> QED BY <1>1, <1>4, <1>5

LEMMA DropsTheRest ==
  ASSUME TypeOK, NEW k \in Scan, DropOrphans(k), NEW n \in Note \ raced'
  PROVE  /\ writer'[n] = IF n \in todo[k] THEN 0 ELSE writer[n]
         /\ (reader'[n] = reader[n] /\ writer'[n] = writer[n]) \/ reader'[n] = writer'[n]
<1> DEFINE w == [m \in Note |-> IF m \in todo[k] THEN 0 ELSE writer[m]]
<1>1. w \in [Note -> Version]
  BY SearchAssumption DEF TypeOK, Version
<1>2. CASE todo[k] = {}
  BY <1>2 DEF DropOrphans, docs
<1>3. CASE todo[k] # {}
  <2>1. Commit(w, {})
    BY <1>3 DEF DropOrphans
  <2> HIDE DEF w
  <2>2. writer'[n] = w[n] /\ reader'[n] = w[n]
    BY <1>1, <2>1, CommitShows
  <2> QED BY <2>2 DEF w
<1> QED BY <1>2, <1>3

LEMMA CaredScans ==
  ASSUME IndexInv, NEW n \in Note \ raced', NEW k \in Scan, ScanStep(k)
  PROVE  Cared(n)'
<1>t. /\ held \in [{0} \cup Scan -> {<<>>} \cup (Note \X Version)]
      /\ scan \in [Scan -> Idle \cup Walking \cup {"links", "settle", "failed"}]
      /\ todo \in [Scan -> SUBSET Note] /\ seen \in [Scan -> SUBSET Note]
      /\ writer \in [Note -> Version] /\ reader \in [Note -> Version]
      /\ k \in {0} \cup Scan /\ n \in Note
      /\ TypeOK /\ ScansInv
  BY DEF IndexInv, TypeOK
<1>1. /\ scan[k] \notin Idle
      /\ \A j \in Scan \ {k} : /\ scan'[j] = scan[j] /\ held'[j] = held[j]
                               /\ todo'[j] = todo[j] /\ seen'[j] = seen[j]
      /\ UNCHANGED <<disk, queue, batch, rename>>
      /\ \/ raced \subseteq raced'
         \/ scan[k] = "begin" /\ scan'[k] = "walk" /\ UNCHANGED todo
  BY <1>t, ScanAlone
<1>2. CASE n \in raced
  <2>1. scan'[k] = "walk" /\ n \in todo'[k]
    BY <1>1, <1>2, <1>t DEF ScansInv, ScanShape
  <2> QED BY <2>1 DEF Cared, WillFix
<1>3. CASE n \notin raced
  <2>1. /\ Cared(n) /\ EventsInv(n) /\ Swept(k, n) /\ ScanShape(k)
        /\ \A j \in Scan : scan[j] \notin Idle => j = k
    BY <1>1, <1>3 DEF IndexInv, ScansInv, OneScan
  <2>2. CASE scan'[k] = "failed"
    BY <2>2 DEF Cared, Excused, ScanIn
  <2>3. CASE scan[k] = "failed"
    <3>1. settle_after_scan(k)
      BY <2>1, <2>3
      DEF ScanStep, Begin, Rebatch, Walk, markdown, WalkStops, WalkEnds, FindOrphans,
          DropOrphans, LinkPass, Goes, ScanShape
    <3>2. cell' = "Error" /\ scan'[k] = "done"
      BY <1>t, <2>3, <3>1 DEF settle_after_scan, Goes
    <3>3. \A j \in Scan : scan'[j] \in Idle
      BY <1>1, <2>1, <3>2 DEF Idle
    <3> QED BY <3>2, <3>3 DEF Cared, Excused, Scanning
  <2>4. CASE scan[k] # "failed" /\ scan'[k] # "failed"
    <3>1. ~Excused
      BY <1>1, <2>1, <2>4 DEF Excused, ScanIn, Scanning, Idle
    <3>2. Due(n) => Due(n)'
      BY <1>1 DEF Due
    <3>3. \A j \in Scan : WillFix(j, n) => j = k
      BY <2>1 DEF WillFix, Idle
    <3>4. writer[n] = disk[n] => writer'[n] = disk'[n]
      <4>1. CASE markdown(k)
        <5>1. held[k] # <<>> /\ writer'[n] = IF held[k][1] = n THEN held[k][2] ELSE writer[n]
          BY <1>t, <4>1, MarkdownPuts DEF markdown
        <5> QED BY <1>1, <2>1, <5>1 DEF Swept
      <4>2. CASE WalkEnds(k)
        BY <1>1, <1>t, <4>2, CommitShows DEF WalkEnds
      <4>3. CASE DropOrphans(k)
        <5>1. /\ scan[k] = "drop"
              /\ writer'[n] = IF n \in todo[k] THEN 0 ELSE writer[n]
          BY <1>t, <4>3, DropsTheRest DEF DropOrphans, Goes
        <5> QED BY <1>1, <2>1, <5>1 DEF Swept
      <4>4. CASE UNCHANGED writer
        BY <1>1, <4>4
      <4> QED
        BY <4>1, <4>2, <4>3, <4>4
        DEF ScanStep, Begin, Rebatch, Walk, WalkStops, FindOrphans, LinkPass,
            settle_after_scan, docs
    <3>5. WillFix(k, n) => WillFix(k, n)' \/ writer'[n] = disk'[n]
      <4> USE <1>t, <1>1, <2>1, <2>4 DEF WillFix, Swept, ScanShape
      <4>1. CASE Begin(k)
        BY <4>1 DEF Begin, Goes
      <4>2. CASE Rebatch(k)
        BY <4>2 DEF Rebatch, Goes
      <4>3. ASSUME NEW m \in Note, Walk(k, m)
            PROVE  WillFix(k, n) => WillFix(k, n)' \/ writer'[n] = disk'[n]
        BY <4>3 DEF Walk, docs, Misses
      <4>4. CASE markdown(k)
        <5>1. held[k] # <<>> /\ held[k][1] = n => writer'[n] = held[k][2]
          BY <4>4, MarkdownPuts
        <5>2. held[k] # <<>> /\ held[k][1] # n => n \in seen'[k] <=> n \in seen[k]
          BY <4>4 DEF markdown
        <5> QED BY <4>4, <5>1, <5>2 DEF markdown
      <4>5. CASE WalkStops(k)
        BY <4>5 DEF WalkStops, Goes
      <4>6. CASE WalkEnds(k)
        <5>1. writer'[n] = reader'[n]
          BY <4>6, CommitShows DEF WalkEnds
        <5> QED BY <4>6, <5>1 DEF WalkEnds, Goes
      <4>7. CASE FindOrphans(k)
        BY <4>7 DEF FindOrphans, Goes, Misses, docs
      <4>8. CASE DropOrphans(k)
        BY <4>8, DropsTheRest DEF DropOrphans, Goes
      <4>9. CASE LinkPass(k)
        BY <4>9 DEF LinkPass, Goes
      <4>10. CASE settle_after_scan(k)
        BY <4>10 DEF settle_after_scan, Goes
      <4> HIDE DEF WillFix, Swept, ScanShape
      <4> QED
        BY <4>1, <4>2, <4>3, <4>4, <4>5, <4>6, <4>7, <4>8, <4>9, <4>10 DEF ScanStep
    <3>6. ~ScanIn(Walking) => ~ScanIn(Walking)'
      <4> SUFFICES ASSUME ~ScanIn(Walking) PROVE ~ScanIn(Walking)'
        OBVIOUS
      <4>1. scan[k] \notin Walking
        BY DEF ScanIn
      <4>2. LinkPass(k) \/ settle_after_scan(k)
        BY <2>1, <4>1
        DEF ScanStep, Begin, Rebatch, Walk, markdown, WalkStops, WalkEnds, FindOrphans,
            DropOrphans, Goes, ScanShape, Walking
      <4>3. scan'[k] \in {"settle", "failed", "done"}
        BY <1>t, <4>2 DEF LinkPass, settle_after_scan, Goes
      <4> QED BY <1>1, <4>3 DEF ScanIn, Walking
    <3> QED BY <1>1, <2>1, <3>1, <3>2, <3>3, <3>4, <3>5, <3>6 DEF Cared
  <2> QED BY <2>2, <2>3, <2>4
<1> QED BY <1>2, <1>3

LEMMA CaredStays ==
  ASSUME IndexInv, [Next]_vars, NEW n \in (Note \ raced)'
  PROVE  Cared(n)'
<1>t. /\ queue \in Seq(Event) /\ disk \in [Note -> Version] /\ n \in Note
      /\ scan \in [Scan -> Idle \cup Walking \cup {"links", "settle", "failed"}]
  BY DEF IndexInv, TypeOK
<1>1. ASSUME NEW m \in Note, NEW v, NEW ev \in Event, ev.note = m,
             Changes([disk EXCEPT ![m] = v], ev, {m}, FALSE), UNCHANGED rename
      PROVE  Cared(n)'
  <2>1. CASE n = m
    <3>1. queue' = Append(queue, ev) /\ Says(ev, n)
      BY <1>1, <2>1 DEF Changes, Says, Event
    <3>2. Mentions(queue', n)
      BY <1>t, <3>1, SaidLast
    <3> QED BY <3>2 DEF Cared, Due
  <2>2. CASE n # m
    <3>1. [disk EXCEPT ![m] = v][n] = disk[n] /\ n \notin {m}
      BY <1>t, <2>2
    <3> HIDE DEF Cared
    <3> QED BY <1>1, <3>1, CaredChanges
  <2> QED BY <2>1, <2>2
<1>2. ASSUME NEW m \in Note, Save(m) PROVE Cared(n)'
  <2> DEFINE ev == [kind |-> "Modified", note |-> m]
  <2>1. ev \in Event /\ ev.note = m
    BY DEF Event
  <2>2. Changes([disk EXCEPT ![m] = disk[m] + 1], ev, {m}, FALSE) /\ UNCHANGED rename
    BY <1>2 DEF Save
  <2> HIDE DEF ev
  <2> QED BY <1>1, <2>1, <2>2
<1>3. ASSUME NEW m \in Note, Delete(m) PROVE Cared(n)'
  <2> DEFINE ev == [kind |-> "Removed", note |-> m]
  <2>1. ev \in Event /\ ev.note = m
    BY DEF Event
  <2>2. Changes([disk EXCEPT ![m] = 0], ev, {m}, FALSE) /\ UNCHANGED rename
    BY <1>3 DEF Delete
  <2> HIDE DEF ev
  <2> QED BY <1>1, <2>1, <2>2
<1>4. ASSUME NEW a \in Note, NEW b \in Note, RenameMoves(a, b) PROVE Cared(n)'
  <2> DEFINE ev == [kind |-> "Removed", note |-> a]
             d == [disk EXCEPT ![b] = disk[a], ![a] = 0]
             late == OnItsWay({a, b})
  <2>1. ev \in Event /\ Says(ev, a)
    BY DEF Event, Says
  <2>2. Changes(d, ev, {a, b}, late) /\ rename = <<>> /\ rename' = <<a, b>>
    BY <1>4 DEF RenameMoves
  <2> HIDE DEF ev, late
  <2>3. CASE n = a
    <3>1. Mentions(queue', n)
      BY <1>t, <2>1, <2>2, <2>3, SaidLast DEF Changes
    <3> QED BY <3>1 DEF Cared, Due
  <2>4. CASE n = b
    <3>1. ~ScanIn(Walking) /\ UNCHANGED scan
      BY <2>2, <2>4 DEF Changes, scans
    <3>2. ~ScanIn(Walking)'
      BY <3>1 DEF ScanIn
    <3>3. rename' # <<>> /\ rename'[2] = n
      BY <2>2, <2>4
    <3> QED BY <3>2, <3>3 DEF Cared
  <2>5. CASE n \notin {a, b}
    <3>1. d[n] = disk[n]
      BY <1>t, <2>5
    <3> HIDE DEF d
    <3> QED BY <2>1, <2>2, <2>5, <3>1, CaredChanges
  <2> QED BY <2>3, <2>4, <2>5
<1>5. CASE search_rebuild_index
  <2>1. Fresh \in Scan
    BY <1>5, FreshIsUnused DEF search_rebuild_index, Unused
  <2>2. scan'[Fresh] = "begin"
    BY <1>5, <1>t, <2>1 DEF search_rebuild_index
  <2> QED BY <2>1, <2>2 DEF Cared, WillFix
<1>6. CASE Reopen
  <2>1. Fresh \in Scan
    BY <1>6, FreshIsUnused DEF Reopen, Unused
  <2>2. scan'[Fresh] = "begin"
    BY <1>6, <2>1 DEF Reopen
  <2> QED BY <2>1, <2>2 DEF Cared, WillFix
<1>r. CASE WipeRefused
  <2>1. FALSE
    BY <1>r, MissesMore, <1>t DEF WipeRefused, IndexInv
  <2> QED BY <2>1
<1>7. CASE UNCHANGED vars
  <2>1. n \in Note \ raced /\ Cared(n)
    BY <1>7 DEF IndexInv, vars
  <2> QED
    BY <1>7, <2>1
    DEF vars, docs, watch, scans, Cared, Due, WillFix, Excused, ScanIn, Scanning
<1> QED
  BY <1>2, <1>3, <1>4, <1>5, <1>r, <1>6, <1>7, CaredCommits, CaredWatches, CaredScans DEF Next

LEMMA CommittedStays ==
  ASSUME IndexInv, [Next]_vars
  PROVE  Committed'
<1>t. /\ queue \in Seq(Event) /\ batch \in Seq(Event \cup [kind : {"flush"}])
      /\ held \in [{0} \cup Scan -> {<<>>} \cup (Note \X Version)]
      /\ scan \in [Scan -> Idle \cup Walking \cup {"links", "settle", "failed"}]
      /\ writer \in [Note -> Version]
      /\ TypeOK /\ WatcherInv /\ ScansInv /\ Committed
  BY DEF IndexInv, TypeOK
<1>1. ASSUME UNCHANGED <<reader, writer, scan, cell>>, raced \subseteq raced',
             batch # <<>> => batch' # <<>>
      PROVE  Committed'
  <2>1. Excused' <=> Excused
    BY <1>1 DEF Excused, ScanIn, Scanning
  <2> QED BY <1>1, <1>t, <2>1 DEF Committed, ScanIn
<1>2. ASSUME \A n \in Note \ raced' : reader'[n] = writer'[n] PROVE Committed'
  BY <1>2 DEF Committed
<1>3. ASSUME batch' # <<>> PROVE Committed'
  BY <1>3 DEF Committed
<1>4. ASSUME NEW n \in Note, Save(n) \/ Delete(n) \/ \E m \in Note : RenameMoves(n, m)
      PROVE  Committed'
  BY <1>1, <1>4 DEF Save, Delete, RenameMoves, Changes, docs, scans
<1>5. CASE commit_rename
  <2> DEFINE n == rename[1]
             m == rename[2]
  <2>1. n \in Note /\ m \in Note
    BY <1>5, <1>t DEF commit_rename, TypeOK
  <2>2. CASE UNCHANGED docs
    <3>1. raced \subseteq raced'
      BY <1>5 DEF commit_rename, Commit, Misses
    <3> QED BY <1>1, <1>5, <2>2, <3>1 DEF commit_rename, docs, watch, scans
  <2>3. ASSUME NEW a \in {0, writer[n]}, NEW b \in {0, writer[m], disk[m]},
               NEW ns \in SUBSET Note, Commit([writer EXCEPT ![n] = a, ![m] = b], ns)
        PROVE  Committed'
    <3>1. [writer EXCEPT ![n] = a, ![m] = b] \in [Note -> Version]
      <4>1. 0 \in Version /\ disk[m] \in Version /\ writer[n] \in Version /\ writer[m] \in Version
        BY <1>t, <2>1, SearchAssumption DEF TypeOK, Version
      <4>2. a \in Version /\ b \in Version
        BY <4>1
      <4> QED BY <1>t, <4>2
    <3>2. \A o \in Note \ raced' : reader'[o] = writer'[o]
      BY <1>t, <2>3, <3>1, CommitShows
    <3> QED BY <1>2, <3>2
  <2>4. {n, m} \in SUBSET Note /\ {} \in SUBSET Note
    BY <2>1
  <2>5. \/ UNCHANGED docs
        \/ Commit([writer EXCEPT ![n] = 0, ![m] = disk[m]], {})
        \/ \E a \in {0, writer[n]}, b \in {0, writer[m], disk[m]} :
             Commit([writer EXCEPT ![n] = a, ![m] = b], {n, m})
    BY <1>5 DEF commit_rename
  <2> QED BY <2>2, <2>3, <2>4, <2>5
<1>6. CASE handle_watch_batch
  <2>1. batch' = Append(queue, [kind |-> "flush"])
    BY <1>6 DEF handle_watch_batch
  <2>2. queue \in Seq(Event \cup {[kind |-> "flush"]})
    BY <1>t
  <2>3. batch' # <<>>
    BY <2>1, <2>2
  <2> QED BY <1>3, <2>3
<1>7. ASSUME batch # <<>>, Head(batch).kind # "flush", batch' \in {batch, Tail(batch)}
      PROVE  Committed'
  <2>1. Head(batch) = batch[1] /\ 1 \in 1..Len(batch) /\ Len(batch) \in Nat
    BY <1>7, <1>t
  <2>2. Len(batch) > 1
    BY <1>7, <1>t, <2>1 DEF WatcherInv
  <2>3. Len(Tail(batch)) = Len(batch) - 1
    BY <1>7, <1>t
  <2>4. Tail(batch) # <<>>
    BY <2>1, <2>2, <2>3
  <2> QED BY <1>3, <1>7, <2>4
<1>8. CASE ReadWatched \/ WatchSkips
  BY <1>7, <1>8 DEF ReadWatched, WatchSkips, watch
<1>9. CASE changed
  BY <1>7, <1>9, <1>t DEF changed, WatcherInv
<1>10. CASE removed
  BY <1>7, <1>10 DEF removed
<1>11. CASE flush
  BY <1>2, <1>11, <1>t, CommitShows DEF flush
<1>12. ASSUME NEW k \in Scan, ScanStep(k) PROVE Committed'
  <2>1. /\ scan[k] \notin Idle
        /\ \A j \in Scan \ {k} : scan'[j] = scan[j]
        /\ UNCHANGED batch
        /\ raced \subseteq raced' \/ scan'[k] = "walk"
    BY <1>12, <1>t, ScanAlone
  <2>2. CASE scan'[k] \in {"walk", "rebatch", "failed"}
    BY <2>2 DEF Committed, ScanIn, Excused
  <2>3. CASE batch # <<>>
    BY <2>1, <2>3 DEF Committed
  <2>5. CASE Note \subseteq raced
    BY <2>1, <2>2, <2>5 DEF Committed
  <2>4. CASE /\ ~(Note \subseteq raced) /\ batch = <<>>
             /\ scan'[k] \notin {"walk", "rebatch", "failed"}
    <3>1. \A j \in Scan : scan[j] \notin Idle => j = k
      BY <1>t, <2>1, <2>4 DEF ScansInv, OneScan
    <3>2. \/ \A n \in Note \ raced : reader[n] = writer[n]
          \/ scan[k] \in {"walk", "rebatch", "failed"}
      BY <1>t, <2>1, <2>4, <3>1 DEF Committed, Excused, ScanIn, Scanning, Idle
    <3>3. ScanShape(k)
      BY <1>t DEF ScansInv
    <3>4. CASE scan[k] = "failed"
      <4>1. settle_after_scan(k)
        BY <1>12, <3>3, <3>4
        DEF ScanStep, Begin, Rebatch, Walk, markdown, WalkStops, WalkEnds, FindOrphans,
            DropOrphans, LinkPass, Goes, ScanShape
      <4>2. cell' = "Error" /\ scan'[k] = "done"
        BY <1>t, <3>4, <4>1 DEF settle_after_scan, Goes
      <4>3. \A j \in Scan : scan'[j] \in Idle
        BY <2>1, <3>1, <4>2 DEF Idle
      <4> QED BY <4>2, <4>3 DEF Committed, Excused, Scanning
    <3>5. CASE scan[k] \in {"walk", "rebatch"}
      <4>1. WalkEnds(k)
        BY <1>12, <1>t, <2>4, <3>5
        DEF ScanStep, Begin, Rebatch, Walk, markdown, WalkStops, FindOrphans,
            DropOrphans, LinkPass, settle_after_scan, Goes
      <4> QED BY <1>2, <1>t, <4>1, CommitShows DEF WalkEnds
    <3>6. CASE /\ \A n \in Note \ raced : reader[n] = writer[n]
               /\ scan[k] \notin {"walk", "rebatch", "failed"}
      <4>0. raced \subseteq raced'
        BY <2>1, <2>4
      <4>1. CASE DropOrphans(k)
        <5>1. \A n \in Note \ raced' : reader'[n] = writer'[n]
          BY <1>t, <3>6, <4>0, <4>1, DropsTheRest
        <5> QED BY <1>2, <5>1
      <4>2. CASE UNCHANGED <<reader, writer>>
        BY <1>2, <3>6, <4>0, <4>2
      <4>3. ~markdown(k) /\ ~WalkEnds(k)
        BY <3>3, <3>6 DEF markdown, WalkEnds, Goes, ScanShape
      <4> QED
        BY <1>12, <4>1, <4>2, <4>3
        DEF ScanStep, Begin, Rebatch, Walk, WalkStops, FindOrphans, LinkPass,
            settle_after_scan, docs
    <3> QED BY <3>2, <3>4, <3>5, <3>6
  <2> QED BY <2>2, <2>3, <2>4, <2>5
<1>13. CASE search_rebuild_index
  BY <1>2, <1>13 DEF search_rebuild_index
<1>14. CASE Reopen
  BY <1>2, <1>14 DEF Reopen
<1>r. CASE WipeRefused
  <2>1. Note \subseteq raced'
    BY <1>r, <1>t, MissesMore DEF WipeRefused
  <2> QED BY <1>2, <2>1
<1>15. CASE UNCHANGED vars
  BY <1>1, <1>15 DEF vars, docs, watch, scans
<1> QED
  BY <1>4, <1>5, <1>6, <1>8, <1>9, <1>10, <1>11, <1>12, <1>13, <1>14, <1>r, <1>15
  DEF Next, WatcherStep

-------------------------------------------------------------------------------
(* The types and the invariants are kept by every step. *)
THEOREM IndexKept == Spec => []IndexInv
<1>1. Init => IndexInv
  <2> SUFFICES ASSUME Init PROVE IndexInv
    OBVIOUS
  <2>1. TypeOK
    <3>1. 0 \in Version /\ 1 \in Version
      BY SearchAssumption DEF Version
    <3>2. /\ disk \in [Note -> Version] /\ writer \in [Note -> Version]
          /\ reader \in [Note -> Version]
      BY <3>1 DEF Init, NoDocs
    <3>3. changes \in 0..MaxChanges
      BY SearchAssumption DEF Init
    <3>4. queue \in Seq(Event) /\ batch \in Seq(Event \cup [kind : {"flush"}])
      BY DEF Init
    <3> QED BY <3>2, <3>3, <3>4 DEF Init, TypeOK, Idle, Walking
  <2>2. WatcherInv
    BY DEF Init, WatcherInv
  <2>3. ScansInv
    BY SearchAssumption DEF Init, ScansInv, OneScan, ScanShape, Scan, Idle
  <2>4. Committed
    BY DEF Init, Committed
  <2>5. ASSUME NEW n \in Note
        PROVE  EventsInv(n) /\ Cared(n) /\ \A k \in Scan : Swept(k, n)
    <3>1. EventsInv(n)
      BY NothingSaid DEF Init, EventsInv
    <3>2. \A k \in Scan : Swept(k, n)
      BY SearchAssumption DEF Init, Swept, Scan
    <3>3. 1 \in Scan /\ WillFix(1, n)
      BY SearchAssumption DEF Init, WillFix, Scan
    <3> QED BY <3>1, <3>2, <3>3 DEF Cared
  <2> QED BY <2>1, <2>2, <2>3, <2>4, <2>5 DEF IndexInv
<1>2. IndexInv /\ [Next]_vars => IndexInv'
  <2> SUFFICES ASSUME IndexInv, [Next]_vars PROVE IndexInv'
    OBVIOUS
  <2>1. /\ TypeOK /\ WatcherInv /\ ScansInv
        /\ \A m \in Note \ raced : EventsInv(m) /\ \A k \in Scan : Swept(k, m)
    BY DEF IndexInv
  <2>2. TypeOK' /\ WatcherInv' /\ ScansInv' /\ Committed'
    BY <2>1, TypesStay, WatcherStays, ScansStay, CommittedStays DEF WatcherInv
  <2>3. ASSUME NEW n \in (Note \ raced)' PROVE EventsInv(n)' /\ \A k \in Scan : Swept(k, n)'
    BY <2>1, <2>3, EventsStay, SweptStays
  <2>4. ASSUME NEW n \in (Note \ raced)' PROVE Cared(n)'
    BY CaredStays
  <2> QED BY <2>2, <2>3, <2>4 DEF IndexInv
<1> QED BY <1>1, <1>2, PTL DEF Spec

(* ReadyIsTrue: when no event, no rename and no scan is under way, nobody is left
   to put a note right, so every one is right already. *)
THEOREM ReadyIsTruthful == Spec => []ReadyIsTrue
<1>1. IndexInv => ReadyIsTrue
  <2> SUFFICES ASSUME IndexInv, Quiet, cell = "Ready", NEW n \in Note \ raced
               PROVE  reader[n] = disk[n]
    BY DEF ReadyIsTrue
  <2>1. Cared(n) /\ Committed
    BY DEF IndexInv
  <2>2. ~Due(n)
    BY NothingSaid DEF Due, Quiet
  <2>3. ~Excused
    BY DEF Excused, ScanIn, Quiet, Scanning, Idle
  <2>4. \A k \in Scan : ~WillFix(k, n)
    BY DEF WillFix, Quiet, Scanning, Idle
  <2>5. writer[n] = disk[n]
    BY <2>1, <2>2, <2>3, <2>4 DEF Cared, Quiet
  <2>6. reader[n] = writer[n]
    BY <2>1, <2>3 DEF Committed, ScanIn, Quiet, Scanning, Idle
  <2> QED BY <2>5, <2>6
<1> QED BY <1>1, IndexKept, PTL
=============================================================================
