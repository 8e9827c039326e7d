------------------------- MODULE FlushProtocolProofs -------------------------
(***************************************************************************)
(* What flush_in_progress gives the queue, for any number of notes, tasks, *)
(* tokens, ops and crashes, whatever undo, the editor, the watcher and     *)
(* other programs do meanwhile.                                            *)
(*                                                                         *)
(* The argument: a task that is not idle holds the mutex (LockInv), so     *)
(* between the read of a note's rows and their deletion no other task is   *)
(* at the step that inserts rows, and the only other writer of the table,  *)
(* undo_rename, shrinks it.                                                *)
(* Then the queue is in order of time, so that applying rows means one     *)
(* thing; the texts are texts; the index agrees with the files again once  *)
(* all is quiet, where flushes alone write them; and readers see nothing   *)
(* but renames happen, the refinement of LinkView.                         *)
(***************************************************************************)
EXTENDS FlushProtocol, PendingRewritesProofs, TLAPS, FiniteSetTheorems

(* A task does anything at all only while it holds flush_in_progress.       *)
LockInv == \A t \in Task : pc[t] # "idle" <=> lock = t

-----------------------------------------------------------------------------
(* The rows of the table have their type.                                   *)
LEMMA RowsTyped ==
  ASSUME QueueTypeOK, NEW T \in SUBSET File,
         NEW old \in Token, NEW new \in Token
  PROVE  enqueue_coalesced(T, old, new) \subseteq Row
<1>1. Named(T, old) \subseteq Row
  BY DEF Named, QueueTypeOK
<1>2. Renewed(T, old, new) \subseteq Row
  BY <1>1 DEF Renewed, Row, QueueTypeOK
<1>3. Fresh(T, old, new) \subseteq Row
  BY DEF Fresh, Row, QueueTypeOK
<1>4. QED
  BY <1>1, <1>2, <1>3 DEF enqueue_coalesced, QueueTypeOK

(* The queue's variables keep their types in every step.                    *)
LEMMA QueueTypeInit == Init => QueueTypeOK
BY DEF Init, QueueTypeOK, PC

LEMMA QueueTypeStep ==
  ASSUME QueueTypeOK, [Next]_vars
  PROVE  QueueTypeOK'
<1>. USE DEF QueueTypeOK, PC
<1>1. ASSUME NEW t \in Task, NEW next \in {"enqueue", "next"},
             NEW F \in SUBSET File, NEW g \in BOOLEAN, Acquire(t, next, F, g)
      PROVE  QueueTypeOK'
  BY <1>1 DEF Acquire, tableVars
<1>2. {r.target : r \in rows} \subseteq File
  BY DEF Row
<1>3. ASSUME NEW t \in Task, flush_all_for_vault(t)
      PROVE  QueueTypeOK'
  BY <1>1, <1>2, <1>3 DEF flush_all_for_vault
<1>4. ASSUME NEW t \in Task, flush_pending_rewrites_for_target(t)
      PROVE  QueueTypeOK'
  BY <1>1, <1>4 DEF flush_pending_rewrites_for_target
<1>5. ASSUME NEW t \in Task, flush_target_for_link_mention(t)
      PROVE  QueueTypeOK'
  BY <1>1, <1>5 DEF flush_target_for_link_mention
<1>6. ASSUME NEW t \in Task, BeginRename(t)
      PROVE  QueueTypeOK'
  BY <1>1, <1>6 DEF BeginRename
<1>7. ASSUME NEW t \in Task, CommitRename(t)
      PROVE  QueueTypeOK'
  <2>1. rows' \subseteq Row
    BY <1>7, RowsTyped, RewriteAssumption DEF CommitRename
  <2>2. todo' \in [Task -> SUBSET File]
    BY <1>7 DEF CommitRename
  <2>3. QED
    BY <1>7, <2>1, <2>2 DEF CommitRename
<1>8. ASSUME NEW t \in Task, Release(t), UNCHANGED <<rows, second>>,
             nextOp' \in Nat \ {0}
      PROVE  QueueTypeOK'
  BY <1>8 DEF Release
<1>9. ASSUME NEW t \in Task, Fail(t) \/ Finish(t)
      PROVE  QueueTypeOK'
  BY <1>8, <1>9
  DEF Fail, Finish, RenameFails, ReadFails, WriteFails, tableVars
<1>10. ASSUME NEW t \in Task, ReadRows(t) \/ NoRows(t)
       PROVE  QueueTypeOK'
  BY <1>10 DEF ReadRows, NoRows, pending_for_target, tableVars
<1>11. ASSUME NEW t \in Task,
              NothingToWrite(t) \/ StageWrite(t) \/ WriteFile(t)
       PROVE  QueueTypeOK'
  BY <1>11 DEF NothingToWrite, StageWrite, WriteFile, tableVars
<1>12. ASSUME NEW t \in Task, DeleteRows(t) \/ DropRows(t) \/ UpdateHash(t)
       PROVE  QueueTypeOK'
  BY <1>12 DEF DeleteRows, DropRows, UpdateHash, Proceed, tableVars
<1>13. ASSUME NEW f \in File, EditorStep(f) \/ ExternalEdit(f)
       PROVE  QueueTypeOK'
  BY <1>13 DEF EditorStep, ReadRaw, materialize_on_read, Type, BeginSave,
       SaveFile, SaveFails, SaveHash, CloseNote, SetEditor, ExternalEdit,
       tableVars, taskVars
<1>14. CASE undo_rename
  BY <1>14 DEF undo_rename, taskVars
<1>15. CASE Watcher
  BY <1>15 DEF Watcher, WatchRead, WatchRow, WatchAnnounce, tableVars, taskVars
<1>16. CASE Tick
  BY <1>16 DEF Tick, taskVars
<1>17. CASE Crash
  BY <1>17 DEF Crash, tableVars
<1>18. CASE UNCHANGED vars
  BY <1>18 DEF vars, tableVars, taskVars
<1>19. QED
  BY <1>3, <1>4, <1>5, <1>6, <1>7, <1>9, <1>10, <1>11, <1>12, <1>13, <1>14,
     <1>15, <1>16, <1>17, <1>18
  DEF Next, TaskStep, Flush

(* The types of the queue, of the mutex and of the tasks that share them.   *)
THEOREM QueueTyped == Spec => []QueueTypeOK
BY QueueTypeInit, QueueTypeStep, PTL DEF Spec

-----------------------------------------------------------------------------
(* A step keeps to the mutex: only the task that holds it moves, and it     *)
(* holds it for exactly as long as it is not idle.                          *)
LEMMA LockStep ==
  ASSUME QueueTypeOK, LockInv, [Next]_vars
  PROVE  LockInv'
<1>. USE TaskAssumption DEF QueueTypeOK, PC, LockInv
<1>1. ASSUME NEW t \in Task, NEW next \in {"enqueue", "next"},
             NEW F, NEW g, Acquire(t, next, F, g)
      PROVE  LockInv'
  BY <1>1 DEF Acquire
<1>2. ASSUME NEW t \in Task,
             \/ flush_all_for_vault(t) \/ flush_pending_rewrites_for_target(t)
             \/ flush_target_for_link_mention(t) \/ BeginRename(t)
      PROVE  LockInv'
  BY <1>1, <1>2 DEF flush_all_for_vault, flush_pending_rewrites_for_target,
     flush_target_for_link_mention, BeginRename
<1>3. ASSUME NEW t \in Task, pc[t] # "idle", Release(t)
      PROVE  LockInv'
  BY <1>3 DEF Release
<1>4. ASSUME NEW t \in Task, Fail(t) \/ Finish(t)
      PROVE  LockInv'
  BY <1>3, <1>4 DEF Fail, Finish, RenameFails, ReadFails, WriteFails
<1>5. ASSUME NEW t \in Task, NEW k \in PC \ {"idle"}, pc[t] # "idle",
             pc' = [pc EXCEPT ![t] = k], lock' = lock
      PROVE  LockInv'
  BY <1>5
<1>6. ASSUME NEW t \in Task,
             \/ CommitRename(t) \/ ReadRows(t) \/ NothingToWrite(t)
             \/ StageWrite(t) \/ WriteFile(t) \/ DeleteRows(t)
             \/ DropRows(t) \/ UpdateHash(t)
      PROVE  LockInv'
  BY <1>5, <1>6 DEF CommitRename, ReadRows, NothingToWrite, StageWrite,
     WriteFile, DeleteRows, DropRows, UpdateHash, Proceed
<1>7. ASSUME NEW t \in Task, NoRows(t)
      PROVE  LockInv'
  BY <1>7 DEF NoRows
<1>8. ASSUME UNCHANGED <<lock, pc>>
      PROVE  LockInv'
  BY <1>8
<1>9. ASSUME NEW f \in File, EditorStep(f) \/ ExternalEdit(f)
      PROVE  LockInv'
  BY <1>8, <1>9 DEF EditorStep, ReadRaw, materialize_on_read, Type, BeginSave,
     SaveFile, SaveFails, SaveHash, CloseNote, SetEditor, ExternalEdit, taskVars
<1>10. CASE undo_rename \/ Watcher \/ Tick
  BY <1>8, <1>10
  DEF undo_rename, Watcher, WatchRead, WatchRow, WatchAnnounce, Tick, taskVars
<1>11. CASE Crash
  BY <1>11 DEF Crash
<1>12. CASE UNCHANGED vars
  BY <1>8, <1>12 DEF vars, taskVars
<1>13. QED
  BY <1>2, <1>4, <1>6, <1>7, <1>9, <1>10, <1>11, <1>12 DEF Next, TaskStep, Flush

(* At most one task at a time enqueues or flushes.                          *)
THEOREM MutexHeld == Spec => []LockInv
<1>1. Init => LockInv
  BY TaskAssumption DEF Init, LockInv
<1>2. QED
  BY <1>1, LockStep, QueueTyped, PTL DEF Spec

-----------------------------------------------------------------------------
(* Only the commit of a rename puts rows in the table, and an op id is new.  *)
Minted == nextOp' = nextOp \/ nextOp' = nextOp + 1

LEMMA RowsShrink ==
  ASSUME [Next]_vars, \A t \in Task : ~ CommitRename(t)
  PROVE  rows' \subseteq rows /\ Minted
<1>. USE DEF Minted
<1>1. ASSUME NEW t \in Task, TaskStep(t)
      PROVE  rows' \subseteq rows /\ Minted
  BY <1>1
  DEF TaskStep, flush_all_for_vault, flush_pending_rewrites_for_target,
      flush_target_for_link_mention, BeginRename, Acquire, Flush, Fail,
      ReadRows, NoRows, NothingToWrite, StageWrite, WriteFile, DeleteRows,
      DropRows, UpdateHash, Finish, RenameFails, ReadFails, WriteFails, tableVars
<1>2. ASSUME NEW f \in File, EditorStep(f) \/ ExternalEdit(f)
      PROVE  rows' \subseteq rows /\ Minted
  BY <1>2 DEF EditorStep, ReadRaw, materialize_on_read, Type, BeginSave,
     SaveFile, SaveFails, SaveHash, CloseNote, SetEditor, ExternalEdit, tableVars
<1>3. CASE undo_rename \/ Watcher \/ Tick \/ Crash
  BY <1>3
  DEF undo_rename, Watcher, WatchRead, WatchRow, WatchAnnounce, Tick, Crash, tableVars
<1>4. CASE UNCHANGED vars
  BY <1>4 DEF vars, tableVars
<1>5. QED
  BY <1>1, <1>2, <1>3, <1>4 DEF Next

(* The steps at which a task holds rows it has read and not yet deleted.    *)
Holding == {"read", "write", "delete", "drop"}
AtNote == Holding \union {"hash"}

(* A task that is at a note came to it in this step, or was at it before.   *)
LEMMA HoldingStep ==
  ASSUME QueueTypeOK, [Next]_vars, NEW u \in Task, pc'[u] \in AtNote
  PROVE  \/ cur'[u] \in File /\ snap'[u] = {r \in rows : r.target = cur'[u]}
         \/ /\ pc[u] \in AtNote /\ (pc'[u] # "hash" => pc[u] \in Holding)
            /\ cur'[u] = cur[u] /\ snap'[u] = snap[u]
<1>. USE DEF QueueTypeOK, PC, Holding, AtNote
<1>. DEFINE Claim == \/ cur'[u] \in File /\ snap'[u] = {r \in rows : r.target = cur'[u]}
                     \/ /\ pc[u] \in AtNote /\ (pc'[u] # "hash" => pc[u] \in Holding)
                        /\ cur'[u] = cur[u] /\ snap'[u] = snap[u]
<1>1. ASSUME NEW t \in Task, NEW next \in {"enqueue", "next"},
             NEW F, NEW g, Acquire(t, next, F, g)
      PROVE  Claim
  BY <1>1 DEF Acquire
<1>2. ASSUME NEW t \in Task,
             \/ flush_all_for_vault(t) \/ flush_pending_rewrites_for_target(t)
             \/ flush_target_for_link_mention(t) \/ BeginRename(t)
      PROVE  Claim
  BY <1>1, <1>2 DEF flush_all_for_vault, flush_pending_rewrites_for_target,
     flush_target_for_link_mention, BeginRename
<1>3. ASSUME NEW t \in Task, Release(t)
      PROVE  Claim
  BY <1>3 DEF Release
<1>4. ASSUME NEW t \in Task, Fail(t) \/ Finish(t)
      PROVE  Claim
  BY <1>3, <1>4 DEF Fail, Finish, RenameFails, ReadFails, WriteFails
<1>5. ASSUME NEW t \in Task, ReadRows(t)
      PROVE  Claim
  BY <1>5 DEF ReadRows, pending_for_target
<1>6. ASSUME NEW t \in Task,
             CommitRename(t) \/ NoRows(t) \/ DropRows(t) \/ UpdateHash(t)
      PROVE  Claim
  BY <1>6 DEF CommitRename, NoRows, DropRows, UpdateHash, Proceed
<1>7. ASSUME NEW t \in Task,
             \/ NothingToWrite(t) \/ StageWrite(t) \/ WriteFile(t)
             \/ DeleteRows(t)
      PROVE  Claim
  BY <1>7 DEF NothingToWrite, StageWrite, WriteFile, DeleteRows
<1>8. ASSUME UNCHANGED <<pc, cur, snap>>
      PROVE  Claim
  BY <1>8
<1>9. ASSUME NEW f \in File, EditorStep(f) \/ ExternalEdit(f)
      PROVE  Claim
  BY <1>8, <1>9 DEF EditorStep, ReadRaw, materialize_on_read, Type, BeginSave,
     SaveFile, SaveFails, SaveHash, CloseNote, SetEditor, ExternalEdit, taskVars
<1>10. CASE undo_rename \/ Watcher \/ Tick
  BY <1>8, <1>10
  DEF undo_rename, Watcher, WatchRead, WatchRow, WatchAnnounce, Tick, taskVars
<1>11. CASE Crash
  BY <1>11 DEF Crash
<1>12. CASE UNCHANGED vars
  BY <1>8, <1>12 DEF vars, taskVars
<1>13. QED
  BY <1>2, <1>4, <1>5, <1>6, <1>7, <1>9, <1>10, <1>11, <1>12
  DEF Next, TaskStep, Flush

(* While a rename commits no task holds rows.                               *)
LEMMA CommitAlone ==
  ASSUME QueueTypeOK, LockInv, NEW t \in Task, CommitRename(t), NEW u \in Task
  PROVE  pc'[u] \notin Holding
BY DEF QueueTypeOK, LockInv, CommitRename, PC, Holding

(* No row is deleted that was not applied.                                  *)
THEOREM NoRewriteLost == Spec => []NothingDeletedUnapplied
<1>1. Init => NothingDeletedUnapplied
  BY DEF Init, NothingDeletedUnapplied
<1>2. ASSUME QueueTypeOK, LockInv, NothingDeletedUnapplied, [Next]_vars
      PROVE  NothingDeletedUnapplied'
  <2>. SUFFICES ASSUME NEW u \in Task, pc'[u] \in Holding
                PROVE  {r \in rows' : r.target = cur'[u]} \subseteq snap'[u]
    BY DEF NothingDeletedUnapplied, pending_for_target, Holding
  <2>1. rows' \subseteq rows
    BY <1>2, RowsShrink, CommitAlone
  <2>2. CASE snap'[u] = {r \in rows : r.target = cur'[u]}
    BY <2>1, <2>2
  <2>3. CASE pc[u] \in Holding /\ cur'[u] = cur[u] /\ snap'[u] = snap[u]
    <3>1. {r \in rows : r.target = cur[u]} \subseteq snap[u]
      BY <1>2, <2>3 DEF NothingDeletedUnapplied, pending_for_target, Holding
    <3>2. QED
      BY <2>1, <2>3, <3>1
  <2>4. QED
    BY <1>2, <2>2, <2>3, HoldingStep DEF AtNote, Holding
<1>3. QED
  BY <1>1, <1>2, QueueTyped, MutexHeld, PTL DEF Spec

-----------------------------------------------------------------------------
(* Coalescing keeps one row per token of a note, and none that is idle.     *)
LEMMA Coalesces ==
  ASSUME OneRowPerToken, QueueTypeOK, NEW T \in SUBSET File,
         NEW old \in Token, NEW new \in Token,
         NEW r \in enqueue_coalesced(T, old, new),
         NEW s \in enqueue_coalesced(T, old, new)
  PROVE  /\ r.old # r.new
         /\ r.target = s.target /\ r.old = s.old => r = s
<1>. DEFINE Rest == rows \ Named(T, old)
            New == IF new = old THEN {} ELSE Renewed(T, old, new) \union Fresh(T, old, new)
<1>1. ASSUME NEW x \in New
      PROVE  x.old = old /\ x.new = new /\ x.target \in T /\ new # old
  <2>1. ASSUME x \in Renewed(T, old, new)
        PROVE  x.old = old /\ x.new = new /\ x.target \in T
    BY <2>1 DEF Renewed, Named, QueueTypeOK, Row
  <2>2. ASSUME x \in Fresh(T, old, new)
        PROVE  x.old = old /\ x.new = new /\ x.target \in T
    BY <2>2 DEF Fresh
  <2>3. QED
    BY <2>1, <2>2
<1>2. ASSUME NEW x \in New, NEW y \in New, x.target = y.target
      PROVE  x = y
  <2>1. CASE x \in Renewed(T, old, new) /\ y \in Renewed(T, old, new)
    <3>1. PICK p \in Named(T, old) :
            x = [p EXCEPT !.new = new, !.at = second, !.op = nextOp]
      BY <2>1 DEF Renewed
    <3>2. PICK q \in Named(T, old) :
            y = [q EXCEPT !.new = new, !.at = second, !.op = nextOp]
      BY <2>1 DEF Renewed
    <3>3. p \in Row /\ q \in Row /\ p \in rows /\ q \in rows
      BY DEF Named, QueueTypeOK
    <3>4. x.target = p.target /\ y.target = q.target
      BY <3>1, <3>2, <3>3 DEF Row
    <3>5. p = q
      BY <1>2, <3>3, <3>4 DEF Named, OneRowPerToken
    <3>6. QED
      BY <3>1, <3>2, <3>5
  <2>2. CASE x \in Fresh(T, old, new) /\ y \in Fresh(T, old, new)
    BY <1>2, <2>2 DEF Fresh
  <2>3. ASSUME NEW a \in Renewed(T, old, new), NEW b \in Fresh(T, old, new)
        PROVE  a.target # b.target
    <3>1. PICK p \in Named(T, old) : a.target = p.target
      BY DEF Renewed, Named, QueueTypeOK, Row
    <3>2. \A v \in rows : ~ (v.target = b.target /\ v.old = old)
      BY DEF Fresh
    <3>3. QED
      BY <3>1, <3>2 DEF Named
  <2>4. QED
    BY <1>2, <2>1, <2>2, <2>3
<1>3. ASSUME NEW x \in Rest, NEW y \in New
      PROVE  ~ (x.target = y.target /\ x.old = y.old)
  BY <1>1, <1>3 DEF Named
<1>4. r \in Rest \union New /\ s \in Rest \union New
  BY DEF enqueue_coalesced
<1>5. r.old # r.new
  BY <1>1, <1>4 DEF OneRowPerToken
<1>6. ASSUME r.target = s.target, r.old = s.old
      PROVE  r = s
  BY <1>2, <1>3, <1>4, <1>6 DEF OneRowPerToken
<1>7. QED
  BY <1>5, <1>6

(* The queue holds the net edit of each token of a note.                    *)
THEOREM QueueCoalesced == Spec => []OneRowPerToken
<1>1. Init => OneRowPerToken
  BY DEF Init, OneRowPerToken
<1>2. ASSUME QueueTypeOK, OneRowPerToken, [Next]_vars
      PROVE  OneRowPerToken'
  <2>1. ASSUME NEW t \in Task, CommitRename(t)
        PROVE  OneRowPerToken'
    <3>1. PICK rw \in Rewrite, T \in SUBSET File :
            rows' = enqueue_coalesced(T, rw[1], rw[2])
      BY <2>1 DEF CommitRename
    <3>2. rw[1] \in Token /\ rw[2] \in Token
      BY RewriteAssumption
    <3>3. \A r, s \in rows' :
            /\ r.old # r.new
            /\ r.target = s.target /\ r.old = s.old => r = s
      BY <1>2, <3>1, <3>2, Coalesces
    <3>4. QED
      BY <3>3 DEF OneRowPerToken
  <2>2. CASE \A t \in Task : ~ CommitRename(t)
    <3>1. rows' \subseteq rows
      BY <1>2, <2>2, RowsShrink
    <3>2. QED
      BY <1>2, <3>1 DEF OneRowPerToken
  <2>3. QED
    BY <2>1, <2>2
<1>3. QED
  BY <1>1, <1>2, QueueTyped, PTL DEF Spec

-----------------------------------------------------------------------------
(* The rows of a note are ordered: an op inserts at most one of them, under *)
(* an id no row has yet, and coalescing leaves a row its id.                *)
IdsInv ==
  /\ \A r \in rows : r.id < nextOp
  /\ \A r, s \in rows : r.target = s.target /\ r.id = s.id => r = s
  /\ \A f \in File : IsFiniteSet(pending_for_target(f))

LEMMA RowsTimed ==
  ASSUME QueueTypeOK, IdsInv, NEW f \in File
  PROVE  Timed(pending_for_target(f))
<1>1. \A r \in pending_for_target(f) : r.at \in Int /\ r.id \in Int
  BY DEF QueueTypeOK, Row, pending_for_target
<1>2. QED
  BY <1>1 DEF IdsInv, Timed

(* An image of a finite set is finite.                                      *)
LEMMA ImageFinite ==
  ASSUME NEW S, IsFiniteSet(S), NEW f, DOMAIN f = S, f = [x \in S |-> f[x]]
  PROVE  IsFiniteSet({f[x] : x \in S})
<1>1. f \in Surjection(S, {f[x] : x \in S})
  BY DEF Surjection
<1>2. QED
  BY <1>1, FS_Surjection

(* Every row of a coalesced table was there, renews one that was there, or  *)
(* is the new one of its note.                                              *)
Origin(x, old, new) ==
  \/ x \in rows
  \/ \E r \in rows : x = [r EXCEPT !.new = new, !.at = second, !.op = nextOp]
  \/ /\ x = [id |-> nextOp, target |-> x.target, old |-> old, new |-> new,
             at |-> second, op |-> nextOp]

LEMMA CoalescedFrom ==
  ASSUME NEW T \in SUBSET File, NEW old, NEW new,
         NEW x \in enqueue_coalesced(T, old, new)
  PROVE  Origin(x, old, new)
<1>1. ASSUME x \in Renewed(T, old, new)
      PROVE  Origin(x, old, new)
  <2>1. PICK r \in Named(T, old) : x = [r EXCEPT !.new = new, !.at = second, !.op = nextOp]
    BY <1>1 DEF Renewed
  <2>2. QED
    BY <2>1 DEF Named, Origin
<1>2. ASSUME x \in Fresh(T, old, new)
      PROVE  Origin(x, old, new)
  <2>1. PICK f \in T : x = [id |-> nextOp, target |-> f, old |-> old, new |-> new,
                           at |-> second, op |-> nextOp]
    BY <1>2 DEF Fresh
  <2>2. x.target = f
    BY <2>1
  <2>3. QED
    BY <2>1, <2>2 DEF Origin
<1>3. QED
  BY <1>1, <1>2 DEF enqueue_coalesced, Origin

LEMMA CoalescedFinite ==
  ASSUME QueueTypeOK, IdsInv, NEW T \in SUBSET File, NEW old, NEW new, NEW f \in File
  PROVE  IsFiniteSet({r \in enqueue_coalesced(T, old, new) : r.target = f})
<1>. DEFINE P == pending_for_target(f)
            g == [r \in P |-> [r EXCEPT !.new = new, !.at = second, !.op = nextOp]]
            x == [id |-> nextOp, target |-> f, old |-> old, new |-> new,
                  at |-> second, op |-> nextOp]
<1>1. IsFiniteSet({g[r] : r \in P})
  <2>1. IsFiniteSet(P)
    BY DEF IdsInv
  <2>2. DOMAIN g = P /\ g = [r \in P |-> g[r]]
    BY Zenon
  <2>. HIDE DEF g, P
  <2>3. QED
    BY <2>1, <2>2, ImageFinite
<1>2. IsFiniteSet(P \union {g[r] : r \in P} \union {x})
  <2>1. IsFiniteSet(P)
    BY DEF IdsInv
  <2>. HIDE DEF g, P, x
  <2>2. QED
    BY <1>1, <2>1, FS_Union, FS_Singleton
<1>3. ASSUME NEW s \in enqueue_coalesced(T, old, new), s.target = f
      PROVE  s \in P \union {g[r] : r \in P} \union {x}
  <2>1. CASE s \in rows
    BY <1>3, <2>1 DEF pending_for_target
  <2>2. ASSUME NEW r \in rows, s = [r EXCEPT !.new = new, !.at = second, !.op = nextOp]
        PROVE  s \in {g[q] : q \in P}
    <3>1. s.target = r.target
      BY <2>2 DEF QueueTypeOK, Row
    <3>2. r \in P
      BY <1>3, <3>1 DEF pending_for_target
    <3>3. g[r] = s
      BY <2>2, <3>2
    <3>4. QED
      BY <3>2, <3>3
  <2>3. QED
    BY <1>3, <2>1, <2>2, CoalescedFrom DEF Origin
<1>4. {r \in enqueue_coalesced(T, old, new) : r.target = f}
        \subseteq P \union {g[r] : r \in P} \union {x}
  <2>. HIDE DEF g, P, x
  <2>1. QED
    BY <1>3
<1>5. QED
  <2>. HIDE DEF g, P, x
  <2>1. QED
    BY <1>2, <1>4, FS_Subset

(* The rows a task holds came from the table as they were.                  *)
HeldInv ==
  \A t \in Task : pc[t] \in AtNote => cur[t] \in File /\ Timed(snap[t])

LEMMA IdsStep ==
  ASSUME QueueTypeOK, IdsInv, [Next]_vars
  PROVE  IdsInv'
<1>1. ASSUME NEW t \in Task, CommitRename(t)
      PROVE  IdsInv'
  <2>1. PICK rw \in Rewrite, T \in SUBSET File :
          rows' = enqueue_coalesced(T, rw[1], rw[2])
    BY <1>1 DEF CommitRename
  <2>2. nextOp' = nextOp + 1 /\ nextOp \in Nat
    BY <1>1 DEF CommitRename, QueueTypeOK
  <2>3. ASSUME NEW x \in rows'
        PROVE  /\ x.id \in Nat
               /\ \/ x.id = nextOp
                  \/ \E r \in rows : r.id = x.id /\ r.target = x.target
    <3>1. Origin(x, rw[1], rw[2])
      BY <2>1, CoalescedFrom
    <3>2. CASE x \in rows
      BY <3>2 DEF QueueTypeOK, Row
    <3>3. ASSUME NEW r \in rows,
                 x = [r EXCEPT !.new = rw[2], !.at = second, !.op = nextOp]
          PROVE  x.id = r.id /\ x.target = r.target /\ r.id \in Nat
      BY <3>3 DEF QueueTypeOK, Row
    <3>4. CASE x = [id |-> nextOp, target |-> x.target, old |-> rw[1], new |-> rw[2],
                    at |-> second, op |-> nextOp]
      BY <2>2, <3>4
    <3>5. QED
      BY <3>1, <3>2, <3>3, <3>4 DEF Origin
  <2>4. \A x \in rows' : x.id < nextOp'
    BY <2>2, <2>3 DEF IdsInv
  <2>5. ASSUME NEW x \in rows', NEW y \in rows', x.target = y.target, x.id = y.id
        PROVE  x = y
    <3>1. ASSUME NEW p \in rows, NEW q \in rows, p.target = q.target, p.id = q.id
          PROVE  p = q
      BY <3>1 DEF IdsInv
    <3>. DEFINE Old == rows \ Named(T, rw[1])
                New == Renewed(T, rw[1], rw[2])
                Added == Fresh(T, rw[1], rw[2])
    <3>2. x \in Old \union New \union Added /\ y \in Old \union New \union Added
      BY <2>1 DEF enqueue_coalesced
    <3>3. \A z \in Old : z \in rows /\ z \notin Named(T, rw[1])
      OBVIOUS
    <3>4. ASSUME NEW z \in New
          PROVE  \E r \in Named(T, rw[1]) :
                   /\ r \in rows /\ z.id = r.id /\ z.target = r.target
                   /\ z = [r EXCEPT !.new = rw[2], !.at = second, !.op = nextOp]
      <4>1. PICK r \in Named(T, rw[1]) :
              z = [r EXCEPT !.new = rw[2], !.at = second, !.op = nextOp]
        BY DEF Renewed
      <4>2. r \in rows
        BY DEF Named
      <4>3. z.id = r.id /\ z.target = r.target
        BY <4>1, <4>2 DEF QueueTypeOK, Row
      <4>4. QED
        BY <4>1, <4>2, <4>3
    <3>5. \A z \in Added : z = [id |-> nextOp, target |-> z.target, old |-> rw[1],
                                new |-> rw[2], at |-> second, op |-> nextOp]
      BY DEF Fresh
    <3>6. \A r \in rows : r.id # nextOp
      BY <2>2 DEF IdsInv, QueueTypeOK, Row
    <3>. HIDE DEF Old, New, Added
    <3>7. ASSUME NEW v \in Old \union New, NEW w \in Added
          PROVE  v.id # w.id
      <4>1. \E r \in rows : v.id = r.id
        BY <3>3, <3>4
      <4>2. w.id = nextOp
        BY <3>5
      <4>3. QED
        BY <3>6, <4>1, <4>2
    <3>8. CASE x \in Added /\ y \in Added
      BY <2>5, <3>5, <3>8
    <3>9. CASE x \in Old /\ y \in Old
      BY <2>5, <3>1, <3>3, <3>9
    <3>10. CASE x \in New /\ y \in New
      <4>1. PICK p \in Named(T, rw[1]) :
              /\ p \in rows /\ x.id = p.id /\ x.target = p.target
              /\ x = [p EXCEPT !.new = rw[2], !.at = second, !.op = nextOp]
        BY <3>4, <3>10
      <4>2. PICK q \in Named(T, rw[1]) :
              /\ q \in rows /\ y.id = q.id /\ y.target = q.target
              /\ y = [q EXCEPT !.new = rw[2], !.at = second, !.op = nextOp]
        BY <3>4, <3>10
      <4>3. p = q
        BY <2>5, <3>1, <4>1, <4>2
      <4>4. QED
        BY <4>1, <4>2, <4>3
    <3>11. ASSUME NEW v \in Old, NEW w \in New
           PROVE  ~(v.target = w.target /\ v.id = w.id)
      <4>1. PICK q \in Named(T, rw[1]) : q \in rows /\ w.id = q.id /\ w.target = q.target
        BY <3>4
      <4>2. v # q
        BY <3>3
      <4>3. QED
        BY <3>1, <3>3, <4>1, <4>2
    <3>12. QED
      BY <2>5, <3>2, <3>7, <3>8, <3>9, <3>10, <3>11
  <2>6. \A f \in File : IsFiniteSet(pending_for_target(f)')
    BY <2>1, CoalescedFinite DEF pending_for_target
  <2>7. QED
    BY <2>4, <2>5, <2>6 DEF IdsInv
<1>2. CASE \A t \in Task : ~ CommitRename(t)
  <2>1. rows' \subseteq rows
    BY <1>2, RowsShrink
  <2>2. nextOp' \in {nextOp, nextOp + 1}
    BY <1>2, RowsShrink DEF Minted
  <2>3. ASSUME NEW f \in File
        PROVE  IsFiniteSet(pending_for_target(f)')
    <3>1. pending_for_target(f)' \subseteq pending_for_target(f)
      BY <2>1 DEF pending_for_target
    <3>2. QED
      BY <3>1, FS_Subset DEF IdsInv
  <2>4. \A r \in rows' : r.id < nextOp'
    BY <2>1, <2>2 DEF IdsInv, QueueTypeOK, Row
  <2>5. QED
    BY <2>1, <2>3, <2>4 DEF IdsInv
<1>3. QED
  BY <1>1, <1>2

LEMMA HeldStep ==
  ASSUME QueueTypeOK, IdsInv, HeldInv, [Next]_vars
  PROVE  HeldInv'
<1>. SUFFICES ASSUME NEW t \in Task, pc'[t] \in AtNote
              PROVE  cur'[t] \in File /\ Timed(snap'[t])
  BY DEF HeldInv
<1>1. CASE cur'[t] \in File /\ snap'[t] = {r \in rows : r.target = cur'[t]}
  BY <1>1, RowsTimed DEF pending_for_target
<1>2. CASE pc[t] \in AtNote /\ cur'[t] = cur[t] /\ snap'[t] = snap[t]
  BY <1>2 DEF HeldInv
<1>3. QED
  BY <1>1, <1>2, HoldingStep

(* The rows a flush has read are ordered, whichever they are.               *)
THEOREM RowsOrdered == Spec => [](IdsInv /\ HeldInv)
<1>1. Init => IdsInv /\ HeldInv
  BY FS_EmptySet DEF Init, IdsInv, HeldInv, pending_for_target, AtNote, Holding
<1>2. QED
  BY <1>1, IdsStep, HeldStep, QueueTyped, PTL DEF Spec

-----------------------------------------------------------------------------
(* Texts keep their types: rows that are ordered turn a text into a text,   *)
(* for a flush as for whoever opens the note.                               *)
LEMMA TextsStayTexts ==
  ASSUME NEW text \in Text, NEW R \in SUBSET Row, Timed(R)
  PROVE  apply_pending(text, R) \in Text
BY ApplyTyped DEF Text, Row

LEMMA TextTypeInit == Init => TextTypeOK
<1>. SUFFICES ASSUME Init PROVE TextTypeOK
  OBVIOUS
<1>. USE DEF Init
<1>1. disk \in [File -> Text \union {Absent}] /\ hash \in [File -> Text \union {Absent}]
  BY TextAssumption
<1>2. {} \in Text
  BY DEF Text
<1>3. out \in [Task -> Text] /\ gated \in [Task -> BOOLEAN] /\ gate \subseteq File \X Text
  BY <1>2
<1>4. editor \in [File -> [pc : {"closed", "raw", "open", "saving", "saved"},
                          buf : Text, dirty : BOOLEAN]]
  BY <1>2
<1>5. events \in Seq(WatchEvent)
  OBVIOUS
<1>6. watch \in [pc : {"idle", "row", "announce"},
                kind : {"created", "modified", "removed"},
                file : File \union {0}, text : Text \union {Absent}]
  BY DEF NotWatching
<1>7. edits \in 0 .. MaxEdits /\ crashes \in 0 .. MaxCrashes
  BY BoundAssumption
<1>8. QED
  BY <1>1, <1>3, <1>4, <1>5, <1>6, <1>7 DEF TextTypeOK

(* What the two ends of a sequence are.                                     *)
LEMMA Ends ==
  ASSUME NEW S, NEW s \in Seq(S)
  PROVE  /\ s # <<>> =>
              /\ Head(s) \in S /\ Head(s) = s[1]
              /\ Tail(s) \in Seq(S) /\ Len(Tail(s)) = Len(s) - 1
              /\ \A i \in 1 .. Len(s) - 1 : Tail(s)[i] = s[i + 1]
         /\ \A e \in S :
              /\ Append(s, e) \in Seq(S) /\ Len(Append(s, e)) = Len(s) + 1
              /\ Append(s, e)[Len(s) + 1] = e
              /\ \A i \in 1 .. Len(s) : Append(s, e)[i] = s[i]
  OBVIOUS

(* Whatever is told of a note is an event of the watcher.                   *)
LEMMA Notified ==
  ASSUME TextTypeOK, NEW f \in File, NEW kind \in {"created", "modified", "removed"},
         Notify(f, kind)
  PROVE  events' \in Seq(WatchEvent)
<1>1. [kind |-> kind, file |-> f] \in WatchEvent /\ events \in Seq(WatchEvent)
  BY DEF TextTypeOK, WatchEvent
<1>2. Append(events, [kind |-> kind, file |-> f]) \in Seq(WatchEvent)
  BY <1>1, Ends
<1>3. QED
  BY <1>1, <1>2 DEF Notify

LEMMA TextTypeTask ==
  ASSUME QueueTypeOK, TextTypeOK, HeldInv, NEW t \in Task, TaskStep(t)
  PROVE  TextTypeOK'
<1>. USE DEF TextTypeOK
<1>1. ASSUME NEW next, NEW F, NEW g \in BOOLEAN, Acquire(t, next, F, g)
      PROVE  TextTypeOK'
  BY <1>1 DEF Acquire, watchVars, userVars
<1>2. CASE \/ flush_all_for_vault(t) \/ flush_pending_rewrites_for_target(t)
           \/ flush_target_for_link_mention(t) \/ BeginRename(t)
  BY <1>1, <1>2 DEF flush_all_for_vault, flush_pending_rewrites_for_target,
     flush_target_for_link_mention, BeginRename
<1>3. CASE CommitRename(t) \/ ReadRows(t) \/ NoRows(t) \/ NothingToWrite(t) \/ DeleteRows(t)
  BY <1>3 DEF CommitRename, ReadRows, NoRows, NothingToWrite, DeleteRows, watchVars, userVars
<1>4. ASSUME out' = [out EXCEPT ![t] = {}], gated' = gated
      PROVE  out' \in [Task -> Text] /\ gated' \in [Task -> BOOLEAN]
  BY <1>4 DEF Text
<1>5. CASE RenameFails(t) \/ ReadFails(t) \/ Finish(t) \/ DropRows(t)
  BY <1>4, <1>5
  DEF RenameFails, ReadFails, Finish, DropRows, Release, Proceed, watchVars, userVars
<1>6. CASE WriteFails(t)
  <2>1. gate' \subseteq gate
    BY <1>6 DEF WriteFails
  <2>2. QED
    BY <1>4, <1>6, <2>1 DEF WriteFails, Release, watchVars, userVars
<1>7. CASE StageWrite(t)
  <2>1. cur[t] \in File /\ Timed(snap[t]) /\ snap[t] \in SUBSET Row
    BY <1>7 DEF StageWrite, HeldInv, AtNote, Holding, QueueTypeOK
  <2>2. materialized(t) \in Text
    <3>1. disk[cur[t]] # Absent /\ disk[cur[t]] \in Text
      BY <1>7, <2>1 DEF StageWrite, materialized
    <3>2. QED
      BY <2>1, <3>1, TextsStayTexts DEF materialized
  <2>3. out' = [out EXCEPT ![t] = materialized(t)]
        /\ gate' \subseteq gate \union {<<cur[t], materialized(t)>>}
    BY <1>7 DEF StageWrite
  <2>4. out' \in [Task -> Text] /\ gate' \subseteq File \X Text
    BY <2>1, <2>2, <2>3
  <2>5. QED
    BY <1>7, <2>4 DEF StageWrite, watchVars, userVars
<1>8. CASE WriteFile(t)
  <2>1. cur[t] \in File
    BY <1>8 DEF WriteFile, HeldInv, AtNote, Holding
  <2>2. events' \in Seq(WatchEvent)
    BY <1>8, <2>1, Notified DEF WriteFile, NotifyReplaced
  <2>3. disk' \in [File -> Text \union {Absent}]
    BY <1>8, <2>1 DEF WriteFile
  <2>4. QED
    BY <1>8, <2>2, <2>3 DEF WriteFile, userVars
<1>9. CASE UpdateHash(t)
  <2>1. cur[t] \in File
    BY <1>9 DEF UpdateHash, HeldInv, AtNote
  <2>2. hash' \in [File -> Text \union {Absent}]
    BY <1>9, <2>1 DEF UpdateHash
  <2>3. QED
    BY <1>4, <1>9, <2>2 DEF UpdateHash, Proceed, watchVars, userVars
<1>10. QED
  BY <1>2, <1>3, <1>5, <1>6, <1>7, <1>8, <1>9 DEF TaskStep, Flush, Fail

LEMMA TextTypeEditor ==
  ASSUME QueueTypeOK, TextTypeOK, IdsInv, NEW f \in File, EditorStep(f)
  PROVE  TextTypeOK'
<1>. DEFINE Session == [pc : {"closed", "raw", "open", "saving", "saved"},
                        buf : Text, dirty : BOOLEAN]
<1>1. editor[f] \in Session /\ editor \in [File -> Session]
  BY DEF TextTypeOK
<1>. HIDE DEF Session
<1>2. ASSUME NEW e \in Session, SetEditor(f, e)
      PROVE  editor' \in [File -> Session] /\ UNCHANGED <<gate, out, gated, watch, crashes>>
  BY <1>1, <1>2 DEF SetEditor, taskVars
<1>3. ASSUME editor' \in [File -> Session], UNCHANGED <<gate, out, gated, watch, crashes>>,
             disk' \in [File -> Text \union {Absent}],
             hash' \in [File -> Text \union {Absent}],
             events' \in Seq(WatchEvent), edits' \in 0 .. MaxEdits
      PROVE  TextTypeOK'
  BY <1>3 DEF TextTypeOK, Session
<1>. USE DEF Session
<1>4. CASE ReadRaw(f)
  <2>1. disk[f] \in Text
    BY <1>4 DEF ReadRaw, TextTypeOK
  <2>2. PICK e : e = [editor[f] EXCEPT !.pc = "raw", !.buf = disk[f]]
    OBVIOUS
  <2>3. e \in Session
    BY <1>1, <2>1, <2>2
  <2>. HIDE DEF Session
  <2>4. QED
    BY <1>2, <1>3, <1>4, <2>2, <2>3 DEF ReadRaw, TextTypeOK
<1>5. CASE materialize_on_read(f)
  <2>1. apply_pending(editor[f].buf, pending_for_target(f)) \in Text
    <3>1. pending_for_target(f) \in SUBSET Row
      BY DEF QueueTypeOK, pending_for_target
    <3>2. QED
      BY <1>1, <3>1, RowsTimed, TextsStayTexts
  <2>2. PICK x : x = apply_pending(editor[f].buf, pending_for_target(f))
    OBVIOUS
  <2>3. PICK e : e = [editor[f] EXCEPT !.pc = "open", !.buf = x]
    OBVIOUS
  <2>4. e \in Session
    BY <1>1, <2>1, <2>2, <2>3
  <2>. HIDE DEF Session
  <2>5. SetEditor(f, e)
    BY <1>5, <2>2, <2>3 DEF materialize_on_read
  <2>6. QED
    BY <1>2, <1>3, <1>5, <2>4, <2>5 DEF materialize_on_read, TextTypeOK
<1>6. CASE Type(f)
  <2>1. PICK k \in Token :
          SetEditor(f, [editor[f] EXCEPT !.dirty = TRUE,
            !.buf = IF k \in @ THEN @ \ {k} ELSE @ \union {k}])
    BY <1>6 DEF Type
  <2>2. PICK x : x = IF k \in editor[f].buf THEN editor[f].buf \ {k}
                     ELSE editor[f].buf \union {k}
    OBVIOUS
  <2>3. x \in Text
    BY <1>1, <2>2 DEF Text
  <2>4. PICK e : e = [editor[f] EXCEPT !.dirty = TRUE, !.buf = x]
    OBVIOUS
  <2>5. e \in Session
    BY <1>1, <2>3, <2>4
  <2>6. SetEditor(f, e)
    BY <2>1, <2>2, <2>4
  <2>7. edits' \in 0 .. MaxEdits
    BY <1>6, BoundAssumption DEF Type, TextTypeOK
  <2>. HIDE DEF Session
  <2>8. QED
    BY <1>2, <1>3, <1>6, <2>5, <2>6, <2>7 DEF Type, TextTypeOK
<1>7. CASE BeginSave(f) \/ SaveFails(f)
  <2>1. PICK e \in Session : SetEditor(f, e)
    <3>1. PICK e1, e2 : /\ e1 = [editor[f] EXCEPT !.pc = "saving", !.dirty = FALSE]
                        /\ e2 = [editor[f] EXCEPT !.pc = "open", !.dirty = TRUE]
      OBVIOUS
    <3>2. e1 \in Session /\ e2 \in Session
      BY <1>1, <3>1
    <3>3. QED
      BY <1>7, <3>1, <3>2 DEF BeginSave, SaveFails
  <2>. HIDE DEF Session
  <2>2. QED
    BY <1>2, <1>3, <1>7, <2>1 DEF BeginSave, SaveFails, TextTypeOK
<1>8. CASE SaveFile(f)
  <2>1. PICK e : e = [editor[f] EXCEPT !.pc = "saved"]
    OBVIOUS
  <2>2. e \in Session /\ editor[f].buf \in Text
    BY <1>1, <2>1
  <2>3. disk' \in [File -> Text \union {Absent}]
    BY <1>8, <2>2 DEF SaveFile, TextTypeOK
  <2>4. events' \in Seq(WatchEvent)
    BY <1>8, Notified DEF SaveFile, NotifyReplaced
  <2>. HIDE DEF Session
  <2>5. QED
    BY <1>2, <1>3, <1>8, <2>1, <2>2, <2>3, <2>4 DEF SaveFile, TextTypeOK
<1>9. CASE SaveHash(f)
  <2>1. PICK e : e = [editor[f] EXCEPT !.pc = "open"]
    OBVIOUS
  <2>2. e \in Session /\ editor[f].buf \in Text
    BY <1>1, <2>1
  <2>3. hash' \in [File -> Text \union {Absent}]
    BY <1>9, <2>2 DEF SaveHash, TextTypeOK
  <2>. HIDE DEF Session
  <2>4. QED
    BY <1>2, <1>3, <1>9, <2>1, <2>2, <2>3 DEF SaveHash, TextTypeOK
<1>10. CASE CloseNote(f)
  <2>1. [pc |-> "closed", buf |-> {}, dirty |-> FALSE] \in Session
    BY DEF Text
  <2>. HIDE DEF Session
  <2>2. QED
    BY <1>2, <1>3, <1>10, <2>1 DEF CloseNote, TextTypeOK
<1>11. QED
  BY <1>4, <1>5, <1>6, <1>7, <1>8, <1>9, <1>10 DEF EditorStep

LEMMA TextTypeStep ==
  ASSUME QueueTypeOK, TextTypeOK, IdsInv, HeldInv, [Next]_vars
  PROVE  TextTypeOK'
<1>1. ASSUME NEW f \in File, ExternalEdit(f)
      PROVE  TextTypeOK'
  <2>1. events' \in Seq(WatchEvent)
    BY <1>1, Notified DEF ExternalEdit, NotifyReplaced
  <2>2. disk' \in [File -> Text \union {Absent}]
    BY <1>1 DEF ExternalEdit, TextTypeOK
  <2>3. edits' \in 0 .. MaxEdits
    BY <1>1, BoundAssumption DEF ExternalEdit, TextTypeOK
  <2>4. QED
    BY <1>1, <2>1, <2>2, <2>3 DEF ExternalEdit, TextTypeOK, taskVars
<1>2. CASE undo_rename \/ Tick
  BY <1>2 DEF undo_rename, Tick, TextTypeOK, taskVars, watchVars, userVars
<1>3. CASE WatchRead
  <2>1. Head(events) \in WatchEvent /\ events' \in Seq(WatchEvent)
    BY <1>3, Ends DEF WatchRead, TextTypeOK
  <2>2. PICK e : e = Head(events)
    OBVIOUS
  <2>3. /\ e.kind \in {"created", "modified", "removed"} /\ e.file \in File
        /\ watch' = [pc |-> "row", kind |-> e.kind, file |-> e.file,
                     text |-> IF e.kind = "removed" THEN Absent ELSE disk[e.file]]
    BY <1>3, <2>1, <2>2 DEF WatchRead, WatchEvent
  <2>4. (IF e.kind = "removed" THEN Absent ELSE disk[e.file]) \in Text \union {Absent}
    BY <2>3 DEF TextTypeOK
  <2>5. watch' \in [pc : {"idle", "row", "announce"},
                    kind : {"created", "modified", "removed"},
                    file : File \union {0}, text : Text \union {Absent}]
    BY <2>3, <2>4
  <2>6. QED
    BY <1>3, <2>1, <2>5 DEF WatchRead, TextTypeOK, taskVars, userVars
<1>4. CASE WatchRow
  BY <1>4 DEF WatchRow, TextTypeOK, taskVars, userVars
<1>5. CASE WatchAnnounce
  BY <1>5 DEF WatchAnnounce, NotWatching, TextTypeOK, taskVars, userVars
<1>6. CASE Crash
  BY <1>6, BoundAssumption DEF Crash, NotWatching, TextTypeOK, Text
<1>7. CASE UNCHANGED vars
  BY <1>7 DEF vars, taskVars, watchVars, userVars, TextTypeOK
<1>8. QED
  BY <1>1, <1>2, <1>3, <1>4, <1>5, <1>6, <1>7, TextTypeTask, TextTypeEditor
  DEF Next, Watcher

(* The types of everything, texts included.                                 *)
THEOREM TextsTyped == Spec => []TypeOK
<1>1. Init => TextTypeOK
  BY TextTypeInit
<1>2. QueueTypeOK /\ IdsInv /\ HeldInv /\ TextTypeOK /\ [Next]_vars => TextTypeOK'
  BY TextTypeStep
<1>3. QED
  BY <1>1, <1>2, QueueTyped, RowsOrdered, PTL DEF Spec, TypeOK

-----------------------------------------------------------------------------
(* Where flushes alone write the files, the index comes to agree with them. *)
(* The argument: a note whose hash is behind its bytes has an event on its  *)
(* way or is being read, and a text that the watcher has read and that was  *)
(* replaced since is followed by the event of that write.                   *)
NotesStay == disk \in [File -> Text \ {Absent}]

Told == [kind : {"created", "modified"}, file : File]
Announced(f) == \E i \in DOMAIN events : events[i].file = f

EditorsClosed == \A f \in File : editor[f].pc = "closed"

TrackTypes ==
  /\ hash \in [File -> Text \ {Absent}]
  /\ events \in Seq(Told)
  /\ watch \in [pc : {"idle", "row", "announce"}, kind : {"created", "modified"},
                file : File \union {0}, text : Text \union {Absent}]
  /\ watch.pc # "idle" => watch.file \in File /\ watch.text \in Text \ {Absent}
  /\ EditorsClosed

FlushInv ==
  /\ out = [t \in Task |-> out[t]]
  /\ \A t \in Task :
       /\ pc[t] \in {"read", "write", "delete", "drop", "hash"} => cur[t] \in File
       /\ pc[t] \in {"delete", "hash"} => out[t] = disk[cur[t]]

(* A note is tracked when its hash will come to be right by itself.         *)
Tracked(f) ==
  \/ hash[f] = disk[f]
  \/ Announced(f)
  \/ watch.pc = "row" /\ watch.file = f /\ watch.text = disk[f]

TrackInv ==
  /\ \A f \in File : Tracked(f)
  /\ watch.pc = "row" /\ watch.text # disk[watch.file] => Announced(watch.file)

NobodyElseWrites == {"editor", "external"} \cap Outside = {}
OnlyFlushesWrite == "watcher" \in Outside /\ NobodyElseWrites

(* Nobody but the tasks and the watcher moves then.                         *)
LEMMA OthersRest ==
  ASSUME NobodyElseWrites, EditorsClosed, NEW f \in File
  PROVE  ~ EditorStep(f) /\ ~ ExternalEdit(f)
<1>1. editor[f].pc = "closed" /\ "editor" \notin Outside /\ "external" \notin Outside
  BY DEF NobodyElseWrites, EditorsClosed
<1>2. ~ ReadRaw(f)
  BY <1>1 DEF ReadRaw
<1>3. ~ materialize_on_read(f)
  BY <1>1 DEF materialize_on_read
<1>4. ~ Type(f) /\ ~ BeginSave(f) /\ ~ CloseNote(f)
  BY <1>1 DEF Type, BeginSave, CloseNote
<1>5. ~ SaveFile(f) /\ ~ SaveFails(f) /\ ~ SaveHash(f)
  BY <1>1 DEF SaveFile, SaveFails, SaveHash
<1>6. ~ ExternalEdit(f)
  BY <1>1 DEF ExternalEdit
<1>7. QED
  BY <1>2, <1>3, <1>4, <1>5, <1>6 DEF EditorStep

(* What a task has written is what is in the file until it is done with it. *)
LEMMA FlushStep ==
  ASSUME QueueTypeOK, TextTypeOK, LockInv, NobodyElseWrites, EditorsClosed, FlushInv,
         [Next]_vars
  PROVE  FlushInv'
<1>. USE DEF QueueTypeOK, PC, FlushInv
<1>1. ASSUME NEW t \in Task, NEW next \in {"enqueue", "next"},
             NEW F, NEW g, Acquire(t, next, F, g)
      PROVE  FlushInv'
  BY <1>1 DEF Acquire
<1>2. ASSUME NEW t \in Task,
             \/ flush_all_for_vault(t) \/ flush_pending_rewrites_for_target(t)
             \/ flush_target_for_link_mention(t) \/ BeginRename(t)
      PROVE  FlushInv'
  BY <1>1, <1>2 DEF flush_all_for_vault, flush_pending_rewrites_for_target,
     flush_target_for_link_mention, BeginRename
<1>3. ASSUME NEW t \in Task, Release(t), disk' = disk
      PROVE  FlushInv'
  BY <1>3 DEF Release
<1>4. ASSUME NEW t \in Task, Fail(t) \/ Finish(t)
      PROVE  FlushInv'
  BY <1>3, <1>4 DEF Fail, Finish, RenameFails, ReadFails, WriteFails
<1>5. ASSUME NEW t \in Task, CommitRename(t) \/ ReadRows(t) \/ NoRows(t)
      PROVE  FlushInv'
  BY <1>5 DEF CommitRename, ReadRows, NoRows
<1>6. ASSUME NEW t \in Task, NothingToWrite(t) \/ DeleteRows(t)
      PROVE  FlushInv'
  BY <1>6 DEF NothingToWrite, DeleteRows
<1>7. ASSUME NEW t \in Task, StageWrite(t)
      PROVE  FlushInv'
  BY <1>7 DEF StageWrite
<1>8. ASSUME NEW t \in Task, WriteFile(t)
      PROVE  FlushInv'
  <2>1. \A u \in Task : pc[u] # "idle" => u = t
    BY <1>8 DEF WriteFile, LockInv
  <2>2. \A u \in Task : pc'[u] # "idle" => u = t
    BY <1>8, <2>1 DEF WriteFile
  <2>3. disk'[cur[t]] = out[t]
    BY <1>8 DEF WriteFile, TextTypeOK
  <2>4. QED
    BY <1>8, <2>2, <2>3 DEF WriteFile
<1>9. ASSUME NEW t \in Task, DropRows(t) \/ UpdateHash(t)
      PROVE  FlushInv'
  BY <1>9 DEF DropRows, UpdateHash, Proceed
<1>10. CASE undo_rename \/ Watcher \/ Tick
  BY <1>10
  DEF undo_rename, Watcher, WatchRead, WatchRow, WatchAnnounce, Tick, taskVars
<1>11. CASE Crash
  BY <1>11 DEF Crash
<1>12. CASE UNCHANGED vars
  BY <1>12 DEF vars, taskVars
<1>13. QED
  BY OthersRest, <1>2, <1>4, <1>5, <1>6, <1>7, <1>8, <1>9, <1>10, <1>11, <1>12
  DEF Next, TaskStep, Flush

(* Most steps leave the index, the watcher and the notes alone.             *)
trackVars == <<hash, events, watch, editor>>

LEMMA QuietStep ==
  ASSUME OnlyFlushesWrite, TrackTypes, [Next]_vars,
         \A t \in Task : ~ WriteFile(t) /\ ~ UpdateHash(t),
         ~ WatchRead, ~ WatchRow, ~ WatchAnnounce, ~ Crash
  PROVE  UNCHANGED <<disk, trackVars>>
<1>1. ASSUME NEW t \in Task, TaskStep(t)
      PROVE  UNCHANGED <<disk, trackVars>>
  BY <1>1
  DEF TaskStep, flush_all_for_vault, flush_pending_rewrites_for_target,
      flush_target_for_link_mention, BeginRename, Acquire, CommitRename, Flush, Fail,
      ReadRows, NoRows, NothingToWrite, StageWrite, DeleteRows, DropRows, Finish,
      RenameFails, ReadFails, WriteFails, watchVars, userVars, trackVars
<1>2. CASE undo_rename \/ Tick
  BY <1>2 DEF undo_rename, Tick, watchVars, userVars, trackVars
<1>3. CASE UNCHANGED vars
  BY <1>3 DEF vars, watchVars, userVars, trackVars
<1>4. QED
  BY <1>1, <1>2, <1>3, OthersRest DEF Next, Watcher, OnlyFlushesWrite, TrackTypes

(* The seven steps that matter, one by one: types first.                    *)
LEMMA TrackTypesStep ==
  ASSUME QueueTypeOK, OnlyFlushesWrite, NotesStay, NotesStay', TrackTypes, FlushInv,
         [Next]_vars
  PROVE  TrackTypes'
<1>. USE DEF TrackTypes, EditorsClosed
<1>1. ASSUME NEW t \in Task, WriteFile(t)
      PROVE  TrackTypes'
  <2>1. cur[t] \in File
    BY <1>1 DEF WriteFile, FlushInv
  <2>2. PICK kind \in {"created", "modified"} :
          events' = Append(events, [kind |-> kind, file |-> cur[t]])
    BY <1>1 DEF WriteFile, NotifyReplaced, Notify, OnlyFlushesWrite
  <2>3. [kind |-> kind, file |-> cur[t]] \in Told
    BY <2>1 DEF Told
  <2>4. events' \in Seq(Told)
    BY <2>2, <2>3, Ends
  <2>5. QED
    BY <1>1, <2>4 DEF WriteFile, userVars
<1>2. ASSUME NEW t \in Task, UpdateHash(t)
      PROVE  TrackTypes'
  <2>1. cur[t] \in File /\ out[t] = disk[cur[t]]
    BY <1>2 DEF UpdateHash, FlushInv
  <2>2. hash' \in [File -> Text \ {Absent}]
    BY <1>2, <2>1 DEF UpdateHash, NotesStay
  <2>3. QED
    BY <1>2, <2>2 DEF UpdateHash, watchVars, userVars
<1>3. CASE WatchRead
  <2>1. /\ Head(events) \in Told
        /\ events' \in Seq(Told) /\ UNCHANGED <<hash, editor>>
    BY <1>3, Ends DEF WatchRead, userVars
  <2>2. Head(events).kind \in {"created", "modified"} /\ Head(events).file \in File
    BY <2>1 DEF Told
  <2>3. watch' = [pc |-> "row", kind |-> Head(events).kind, file |-> Head(events).file,
                  text |-> disk[Head(events).file]]
    BY <1>3, <2>2 DEF WatchRead
  <2>4. disk[Head(events).file] \in Text \ {Absent}
    BY <2>2 DEF NotesStay
  <2>5. QED
    BY <2>1, <2>2, <2>3, <2>4
<1>4. CASE WatchRow
  BY <1>4 DEF WatchRow, userVars
<1>5. CASE WatchAnnounce
  BY <1>5 DEF WatchAnnounce, userVars, NotWatching
<1>6. CASE Crash
  <2>1. hash' \in [File -> Text \ {Absent}]
    BY <1>6 DEF Crash, NotesStay
  <2>2. QED
    BY <1>6, <2>1 DEF Crash, NotWatching
<1>7. CASE UNCHANGED trackVars
  BY <1>7 DEF trackVars
<1>8. QED
  BY <1>1, <1>2, <1>3, <1>4, <1>5, <1>6, <1>7, QuietStep

(* ... then that no note is left behind.                                    *)
LEMMA TrackStep ==
  ASSUME QueueTypeOK, OnlyFlushesWrite, NotesStay, NotesStay', TrackTypes, TrackTypes',
         FlushInv, TrackInv, [Next]_vars
  PROVE  TrackInv'
<1>. USE DEF TrackTypes
<1>1. ASSUME NEW t \in Task, WriteFile(t)
      PROVE  TrackInv'
  <2>1. cur[t] \in File
    BY <1>1 DEF WriteFile, FlushInv
  <2>2. PICK kind \in {"created", "modified"} :
          events' = Append(events, [kind |-> kind, file |-> cur[t]])
    BY <1>1 DEF WriteFile, NotifyReplaced, Notify, OnlyFlushesWrite
  <2>3. /\ events' \in Seq(Told) /\ Len(events') = Len(events) + 1
        /\ events'[Len(events) + 1].file = cur[t]
        /\ \A i \in 1 .. Len(events) : events'[i] = events[i]
    <3>1. [kind |-> kind, file |-> cur[t]] \in Told
      BY <2>1 DEF Told
    <3>2. QED
      BY <2>2, <3>1, Ends
  <2>4. \A f \in File : Announced(f) => Announced(f)'
    BY <2>3 DEF Announced
  <2>5. \A f \in File : f = cur[t] => Announced(f)'
    <3>1. Len(events) + 1 \in DOMAIN events'
      BY <2>3
    <3>2. QED
      BY <2>3, <3>1 DEF Announced
  <2>6. \A f \in File : f # cur[t] => disk'[f] = disk[f]
    BY <1>1, <2>1 DEF WriteFile, NotesStay
  <2>7. hash' = hash /\ watch' = watch
    BY <1>1 DEF WriteFile
  <2>8. \A f \in File : Tracked(f)'
    BY <2>4, <2>5, <2>6, <2>7 DEF TrackInv, Tracked
  <2>9. ASSUME watch'.pc = "row", watch'.text # disk'[watch'.file]
        PROVE  Announced(watch.file)'
    <3>1. watch.file \in File /\ watch.pc = "row" /\ watch' = watch
      BY <2>7, <2>9
    <3>2. CASE watch.file = cur[t]
      BY <2>5, <3>1, <3>2 DEF Announced
    <3>3. CASE watch.file # cur[t]
      BY <2>4, <2>6, <2>9, <3>1, <3>3 DEF TrackInv, Announced
    <3>4. QED
      BY <3>2, <3>3
  <2>10. QED
    BY <2>8, <2>9 DEF TrackInv
<1>2. ASSUME NEW t \in Task, UpdateHash(t)
      PROVE  TrackInv'
  <2>1. cur[t] \in File /\ out[t] = disk[cur[t]]
    BY <1>2 DEF UpdateHash, FlushInv
  <2>2. hash'[cur[t]] = disk[cur[t]] /\ \A f \in File : f # cur[t] => hash'[f] = hash[f]
    BY <1>2, <2>1 DEF UpdateHash
  <2>3. UNCHANGED <<disk, events, watch>>
    BY <1>2 DEF UpdateHash, watchVars
  <2>4. QED
    BY <2>2, <2>3 DEF TrackInv, Tracked, Announced
<1>3. CASE WatchRead
  <2>1. /\ Head(events).kind \in {"created", "modified"} /\ Head(events).file \in File
        /\ Head(events) = events[1] /\ Len(events') = Len(events) - 1
        /\ \A i \in 1 .. Len(events) - 1 : events'[i] = events[i + 1]
    BY <1>3, Ends DEF WatchRead, Told
  <2>2. watch' = [pc |-> "row", kind |-> Head(events).kind, file |-> Head(events).file,
                  text |-> disk[Head(events).file]]
    BY <1>3, <2>1 DEF WatchRead
  <2>3. UNCHANGED <<disk, hash>> /\ watch.pc = "idle"
    BY <1>3 DEF WatchRead
  <2>4. ASSUME NEW f \in File, Announced(f), f # Head(events).file
        PROVE  Announced(f)'
    <3>1. PICK i \in DOMAIN events : events[i].file = f
      BY <2>4 DEF Announced
    <3>2. i # 1
      BY <2>1, <2>4, <3>1
    <3>3. i - 1 \in DOMAIN events' /\ events'[i - 1] = events[i]
      BY <2>1, <3>1, <3>2
    <3>4. QED
      BY <3>1, <3>3 DEF Announced
  <2>5. \A f \in File : Tracked(f)'
    BY <2>2, <2>3, <2>4 DEF TrackInv, Tracked
  <2>6. watch'.text = disk'[watch'.file]
    BY <2>2, <2>3
  <2>7. QED
    BY <2>5, <2>6 DEF TrackInv
<1>4. CASE WatchRow
  <2>1. hash' = [hash EXCEPT ![watch.file] = watch.text] /\ watch.file \in File
    BY <1>4 DEF WatchRow
  <2>2. watch'.pc = "announce" /\ UNCHANGED <<disk, events>> /\ watch.pc = "row"
    BY <1>4 DEF WatchRow
  <2>3. \A f \in File : f # watch.file => Tracked(f)'
    BY <2>1, <2>2 DEF TrackInv, Tracked, Announced
  <2>4. \A f \in File : f = watch.file => Tracked(f)'
    <3>1. hash'[watch.file] = watch.text
      BY <2>1
    <3>2. watch.text = disk[watch.file] \/ Announced(watch.file)
      BY <2>2 DEF TrackInv
    <3>3. QED
      BY <2>2, <3>1, <3>2 DEF Tracked, Announced
  <2>5. QED
    BY <2>2, <2>3, <2>4 DEF TrackInv
<1>5. CASE WatchAnnounce
  <2>1. UNCHANGED <<disk, hash, events>> /\ watch.pc = "announce" /\ watch'.pc = "idle"
    BY <1>5 DEF WatchAnnounce, NotWatching
  <2>2. QED
    BY <2>1 DEF TrackInv, Tracked, Announced
<1>6. CASE Crash
  BY <1>6 DEF Crash, NotWatching, TrackInv, Tracked
<1>7. CASE UNCHANGED <<disk, trackVars>>
  BY <1>7 DEF trackVars, TrackInv, Tracked, Announced
<1>8. QED
  BY <1>1, <1>2, <1>3, <1>4, <1>5, <1>6, <1>7, QuietStep

(* A note stays: what a flush writes is a text.                             *)
LEMMA NotesStayStep ==
  ASSUME TextTypeOK, OnlyFlushesWrite, NotesStay, TrackTypes, [Next]_vars
  PROVE  NotesStay'
<1>1. ASSUME NEW t \in Task, WriteFile(t)
      PROVE  NotesStay'
  <2>1. out[t] \in Text \ {Absent}
    BY TextAssumption DEF TextTypeOK
  <2>2. QED
    BY <1>1, <2>1 DEF WriteFile, NotesStay
<1>2. ASSUME WatchRead \/ WatchRow \/ WatchAnnounce \/ Crash
      PROVE  disk' = disk
  BY <1>2 DEF WatchRead, WatchRow, WatchAnnounce, Crash
<1>3. ASSUME NEW t \in Task, UpdateHash(t)
      PROVE  disk' = disk
  BY <1>3 DEF UpdateHash
<1>4. CASE disk' = disk
  BY <1>4 DEF NotesStay
<1>5. QED
  BY <1>1, <1>2, <1>3, <1>4, QuietStep

(* All the notes are there at the start.                                    *)
NotesExist == \A f \in File : InitText[f] # Absent

(* Once all is quiet the index has the hash of the bytes on disk, wherever  *)
(* a crash and however late the watcher came in between.                    *)
THEOREM IndexTracksDisk ==
  ASSUME OnlyFlushesWrite, NotesExist
  PROVE  Spec => []HashTracksDisk
<1>. DEFINE Inv == NotesStay /\ TrackTypes /\ FlushInv /\ TrackInv
<1>1. Init => Inv
  <2>1. Init => NotesStay
    BY NotesExist, TextAssumption DEF Init, NotesStay, NotesExist
  <2>2. Init /\ NotesStay => TrackTypes /\ FlushInv /\ TrackInv
    BY DEF Init, NotesStay, TrackTypes, EditorsClosed, Told, NotWatching, FlushInv, TrackInv,
       Tracked
  <2>3. QED
    BY <2>1, <2>2
<1>2. QueueTypeOK /\ LockInv /\ TextTypeOK /\ Inv /\ [Next]_vars => Inv'
  <2>1. SUFFICES ASSUME QueueTypeOK, LockInv, TextTypeOK, Inv, [Next]_vars
                 PROVE  Inv'
    OBVIOUS
  <2>2. NotesStay'
    BY <2>1, OnlyFlushesWrite, NotesStayStep
  <2>3. QED
    BY <2>1, <2>2, OnlyFlushesWrite, FlushStep, TrackTypesStep, TrackStep
    DEF OnlyFlushesWrite, TrackTypes
<1>3. Inv => HashTracksDisk
  BY DEF NotesStay, TrackTypes, TrackInv, Tracked, Announced, HashTracksDisk, Quiet
<1>4. QED
  BY <1>1, <1>2, <1>3, QueueTyped, MutexHeld, TextsTyped, PTL DEF Spec, TypeOK

-----------------------------------------------------------------------------
(* Readers see only renames.  What a note shows is its text with its rows   *)
(* applied all at once: no name is used twice.  A flush that has written    *)
(* the note leaves its rows nothing to exchange until they are deleted.     *)

(* No note takes a name another note has or had, and none is renamed twice. *)
NamesUsedOnce ==
  \A p, q \in Rewrite : p[1] # q[2] /\ (p[1] = q[1] => p = q)

(* Nobody but the flushes, the watcher and a crash comes in between.        *)
FlushesAlone == Outside \subseteq {"watcher", "crash"}

(* Rows that find no token of theirs in a text.                             *)
Settled(text, R) == \A r \in R : r.old \notin text

(* What a task that flushes knows of the note it is at.                     *)
FlushKnows(t) ==
  /\ pc[t] \in Holding => snap[t] = pending_for_target(cur[t])
  /\ pc[t] = "write" =>
       disk[cur[t]] # Absent /\ out[t] = AllAtOnce(disk[cur[t]], snap[t])
  /\ pc[t] \in {"delete", "drop"} =>
       disk[cur[t]] = Absent \/ Settled(disk[cur[t]], snap[t])

ViewInv ==
  /\ \A r \in rows : <<r.old, r.new>> \in Rewrite
  /\ EditorsClosed
  /\ \A t \in Task : FlushKnows(t)

(* The rows of a note are of different names, and so come all at once.      *)
LEMMA RowsSeparate ==
  ASSUME NamesUsedOnce, OneRowPerToken, ViewInv, NEW f \in File
  PROVE  Separate(pending_for_target(f))
<1>1. ASSUME NEW r \in rows, NEW s \in rows
      PROVE  r.old # s.new
  <2>1. PICK p \in Rewrite, q \in Rewrite : p = <<r.old, r.new>> /\ q = <<s.old, s.new>>
    BY DEF ViewInv
  <2>2. p[1] # q[2]
    BY DEF NamesUsedOnce
  <2>3. QED
    BY <2>1, <2>2
<1>2. \A r, s \in pending_for_target(f) : r.old = s.old => r = s
  BY DEF OneRowPerToken, pending_for_target
<1>3. QED
  BY <1>1, <1>2 DEF Separate, pending_for_target

ViewKnown ==
  \A f \in File :
    /\ Separate(pending_for_target(f))
    /\ View(f) = Absent <=> disk[f] = Absent
    /\ View(f) = IF disk[f] = Absent THEN Absent
                 ELSE AllAtOnce(disk[f], pending_for_target(f))

LEMMA ViewIs ==
  ASSUME NamesUsedOnce, QueueTypeOK, TextTypeOK, IdsInv, OneRowPerToken, ViewInv
  PROVE  ViewKnown
<1>1. ASSUME NEW f \in File, disk[f] # Absent
      PROVE  View(f) = AllAtOnce(disk[f], pending_for_target(f)) /\ View(f) # Absent
  <2>1. View(f) = AllAtOnce(disk[f], pending_for_target(f))
    BY <1>1, RowsTimed, RowsSeparate, ApplyAtOnce DEF View
  <2>2. View(f) \in Text
    <3>1. disk[f] \in Text /\ pending_for_target(f) \in SUBSET Row
      BY <1>1 DEF TextTypeOK, QueueTypeOK, pending_for_target
    <3>2. QED
      BY <1>1, <3>1, RowsTimed, TextsStayTexts DEF View
  <2>3. QED
    BY <2>1, <2>2, TextAssumption
<1>2. QED
  BY <1>1, RowsSeparate DEF ViewKnown, View

(* What rows that come all at once do to a text.                            *)
LEMMA SettledIs ==
  ASSUME NEW text, NEW R, Settled(text, R)
  PROVE  AllAtOnce(text, R) = text
BY DEF Settled, AllAtOnce

LEMMA AppliedSettles ==
  ASSUME NEW text, NEW R, Separate(R)
  PROVE  Settled(AllAtOnce(text, R), R)
BY DEF Settled, AllAtOnce, Separate

(* One row more exchanges one token more.                                   *)
LEMMA OneRowMore ==
  ASSUME NEW text, NEW R, NEW x, x \notin R, Separate(R \union {x})
  PROVE  AllAtOnce(text, R \union {x}) = Promise!Replaced(AllAtOnce(text, R), x.old, x.new)
<1>1. \A r \in R : r.old # x.new /\ x.old # r.new /\ r.old # x.old
  BY DEF Separate
<1>2. x.old # x.new
  BY DEF Separate
<1>3. x.old \in AllAtOnce(text, R) <=> x.old \in text
  BY <1>1 DEF AllAtOnce
<1>4. CASE x.old \in text
  <2>1. \A k : k \in AllAtOnce(text, R \union {x})
                 <=> k \in (AllAtOnce(text, R) \ {x.old}) \union {x.new}
    BY <1>1, <1>2, <1>4 DEF AllAtOnce
  <2>2. QED
    BY <1>3, <1>4, <2>1 DEF Promise!Replaced
<1>5. CASE x.old \notin text
  <2>1. \A k : k \in AllAtOnce(text, R \union {x}) <=> k \in AllAtOnce(text, R)
    BY <1>1, <1>2, <1>5 DEF AllAtOnce
  <2>2. QED
    BY <1>3, <1>5, <2>1 DEF Promise!Replaced
<1>6. QED
  BY <1>4, <1>5

(* Rows that say the same come to the same.                                 *)
LEMMA SameTokens ==
  ASSUME NEW text, NEW R, NEW S,
         \A r \in R : \E s \in S : s.old = r.old /\ s.new = r.new,
         \A s \in S : \E r \in R : s.old = r.old /\ s.new = r.new
  PROVE  AllAtOnce(text, R) = AllAtOnce(text, S)
<1>1. \A k : k \in AllAtOnce(text, R) <=> k \in AllAtOnce(text, S)
  BY DEF AllAtOnce
<1>2. QED
  BY <1>1

(* While one task moves the others are idle, and know nothing.              *)
LEMMA OthersIdle ==
  ASSUME QueueTypeOK, LockInv, NEW t \in Task, TaskStep(t)
  PROVE  \A u \in Task : u # t => pc'[u] = "idle"
<1>. USE TaskAssumption DEF QueueTypeOK, LockInv
<1>1. \A u \in Task : u # t => pc[u] = "idle"
  BY DEF TaskStep, flush_all_for_vault, flush_pending_rewrites_for_target,
     flush_target_for_link_mention, BeginRename, Acquire, CommitRename, Flush, Fail,
     ReadRows, NoRows, NothingToWrite, StageWrite, WriteFile, DeleteRows, DropRows,
     UpdateHash, Finish, RenameFails, ReadFails, WriteFails
<1>2. \A u \in Task : u # t => pc'[u] = pc[u]
  BY DEF TaskStep, flush_all_for_vault, flush_pending_rewrites_for_target,
     flush_target_for_link_mention, BeginRename, Acquire, CommitRename, Flush, Fail,
     ReadRows, NoRows, NothingToWrite, StageWrite, WriteFile, DeleteRows, DropRows,
     UpdateHash, Finish, RenameFails, ReadFails, WriteFails, Release, Proceed
<1>3. QED
  BY <1>1, <1>2

(* The parties that do not hold the mutex change neither rows nor notes.    *)
LEMMA OutsideRests ==
  ASSUME FlushesAlone, ViewInv, [Next]_vars, \A t \in Task : ~ TaskStep(t)
  PROVE  /\ UNCHANGED <<disk, rows>>
         /\ EditorsClosed'
         /\ \/ UNCHANGED <<pc, cur, snap, out>>
            \/ \A t \in Task : pc'[t] = "idle"
<1>1. ASSUME NEW f \in File
      PROVE  ~ EditorStep(f) /\ ~ ExternalEdit(f)
  BY OthersRest DEF FlushesAlone, NobodyElseWrites, ViewInv
<1>2. ~ undo_rename
  BY DEF undo_rename, FlushesAlone
<1>3. CASE Watcher \/ Tick
  BY <1>3 DEF Watcher, WatchRead, WatchRow, WatchAnnounce, Tick, ViewInv, EditorsClosed, tableVars,
     taskVars, userVars
<1>4. CASE Crash
  BY <1>4 DEF Crash, EditorsClosed, tableVars
<1>5. CASE UNCHANGED vars
  BY <1>5 DEF vars, tableVars, taskVars, userVars, ViewInv, EditorsClosed
<1>6. QED
  BY <1>1, <1>2, <1>3, <1>4, <1>5 DEF Next

(* What a rename adds is a row of a name it gives.                          *)
LEMMA RewritesStep ==
  ASSUME QueueTypeOK, ViewInv, [Next]_vars
  PROVE  \A r \in rows' : <<r.old, r.new>> \in Rewrite
<1>1. ASSUME NEW t \in Task, CommitRename(t), NEW x \in rows'
      PROVE  <<x.old, x.new>> \in Rewrite
  <2>1. PICK rw \in Rewrite, T \in SUBSET File :
          rows' = enqueue_coalesced(T, rw[1], rw[2])
    BY <1>1 DEF CommitRename
  <2>2. rw = <<rw[1], rw[2]>>
    BY RewriteAssumption
  <2>3. CASE x \in rows
    BY <2>3 DEF ViewInv
  <2>4. CASE x \in Renewed(T, rw[1], rw[2])
    <3>1. PICK r \in Named(T, rw[1]) :
            x = [r EXCEPT !.new = rw[2], !.at = second, !.op = nextOp]
      BY <2>4 DEF Renewed
    <3>2. r.old = rw[1] /\ r \in Row
      BY DEF Named, QueueTypeOK
    <3>3. x.old = rw[1] /\ x.new = rw[2]
      BY <3>1, <3>2 DEF Row
    <3>4. QED
      BY <2>2, <3>3
  <2>5. CASE x \in Fresh(T, rw[1], rw[2])
    <3>1. PICK f \in T : x = [id |-> nextOp, target |-> f, old |-> rw[1], new |-> rw[2],
                             at |-> second, op |-> nextOp]
      BY <2>5 DEF Fresh
    <3>2. x.old = rw[1] /\ x.new = rw[2]
      BY <3>1
    <3>3. QED
      BY <2>2, <3>2
  <2>6. QED
    BY <1>1, <2>1, <2>3, <2>4, <2>5 DEF enqueue_coalesced
<1>2. CASE \A t \in Task : ~ CommitRename(t)
  BY <1>2, RowsShrink DEF ViewInv
<1>3. QED
  BY <1>1, <1>2

(* What a task knows stays true as it goes from step to step.               *)
LEMMA KnowsStep ==
  ASSUME NamesUsedOnce, QueueTypeOK, TextTypeOK, LockInv, IdsInv, HeldInv,
         OneRowPerToken, ViewInv, FlushInv, NEW t \in Task, TaskStep(t)
  PROVE  FlushKnows(t)'
<1>. USE DEF QueueTypeOK, Holding
<1>1. CASE pc'[t] \in {"idle", "enqueue", "next", "hash"}
  BY <1>1 DEF FlushKnows
<1>2. CASE ReadRows(t)
  <2>1. pc'[t] = "read" /\ snap'[t] = pending_for_target(cur'[t]) /\ rows' = rows
    BY <1>2 DEF ReadRows, tableVars
  <2>2. QED
    BY <2>1 DEF FlushKnows, pending_for_target
<1>3. ASSUME pc[t] \in Holding
      PROVE  /\ cur[t] \in File /\ snap[t] = pending_for_target(cur[t])
             /\ Timed(snap[t]) /\ Separate(snap[t])
  BY <1>3, RowsSeparate DEF ViewInv, FlushKnows, HeldInv, AtNote
<1>4. ASSUME pc[t] \in Holding, disk[cur[t]] # Absent
      PROVE  materialized(t) = AllAtOnce(disk[cur[t]], snap[t])
  BY <1>3, <1>4, ApplyAtOnce DEF materialized
<1>5. CASE NothingToWrite(t)
  <2>1. /\ pc[t] = "read" /\ pc'[t] = "drop" /\ materialized(t) = disk[cur[t]]
        /\ UNCHANGED <<disk, rows, cur, snap, out>>
    BY <1>5 DEF NothingToWrite, tableVars
  <2>2. disk[cur[t]] = Absent \/ Settled(disk[cur[t]], snap[t])
    BY <1>3, <1>4, <2>1, AppliedSettles
  <2>3. QED
    BY <1>3, <2>1, <2>2 DEF FlushKnows, pending_for_target, Settled
<1>6. CASE StageWrite(t)
  <2>1. /\ pc[t] = "read" /\ pc'[t] = "write" /\ materialized(t) # disk[cur[t]]
        /\ UNCHANGED <<disk, rows, cur, snap>> /\ out'[t] = materialized(t)
    BY <1>6 DEF StageWrite, tableVars, FlushInv
  <2>2. disk[cur[t]] # Absent
    BY <2>1 DEF materialized
  <2>3. QED
    BY <1>3, <1>4, <2>1, <2>2 DEF FlushKnows, pending_for_target, AllAtOnce
<1>7. CASE WriteFile(t)
  <2>1. /\ pc[t] = "write" /\ pc'[t] = "delete"
        /\ UNCHANGED <<rows, cur, snap, out>>
        /\ disk' = [disk EXCEPT ![cur[t]] = out[t]]
    BY <1>7 DEF WriteFile, tableVars
  <2>2. disk'[cur[t]] = AllAtOnce(disk[cur[t]], snap[t])
    BY <1>3, <2>1 DEF TextTypeOK, ViewInv, FlushKnows
  <2>3. Settled(disk'[cur[t]], snap[t])
    BY <1>3, <2>1, <2>2, AppliedSettles
  <2>4. QED
    BY <1>3, <2>1, <2>3 DEF FlushKnows, pending_for_target, Settled
<1>8. CASE \/ flush_all_for_vault(t) \/ flush_pending_rewrites_for_target(t)
           \/ flush_target_for_link_mention(t) \/ BeginRename(t)
  BY <1>1, <1>8 DEF flush_all_for_vault, flush_pending_rewrites_for_target,
     flush_target_for_link_mention, BeginRename, Acquire
<1>9. CASE \/ CommitRename(t) \/ NoRows(t) \/ DeleteRows(t) \/ DropRows(t) \/ UpdateHash(t)
           \/ Finish(t) \/ Fail(t)
  BY <1>1, <1>9 DEF CommitRename, NoRows, DeleteRows, DropRows, UpdateHash, Finish, Fail,
     RenameFails, ReadFails, WriteFails, Release, Proceed
<1>10. QED
  BY <1>2, <1>5, <1>6, <1>7, <1>8, <1>9 DEF TaskStep, Flush

LEMMA ViewStep ==
  ASSUME NamesUsedOnce, FlushesAlone, QueueTypeOK, TextTypeOK, LockInv, IdsInv, HeldInv,
         OneRowPerToken, FlushInv, ViewInv, [Next]_vars
  PROVE  ViewInv'
<1>1. CASE \A t \in Task : ~ TaskStep(t)
  <2>1. /\ UNCHANGED <<disk, rows>> /\ EditorsClosed'
        /\ \/ UNCHANGED <<pc, cur, snap, out>>
           \/ \A t \in Task : pc'[t] = "idle"
    BY <1>1, OutsideRests
  <2>2. ASSUME NEW t \in Task
        PROVE  FlushKnows(t)'
    BY <2>1 DEF ViewInv, FlushKnows, pending_for_target, Holding, Settled, AllAtOnce
  <2>3. QED
    BY <2>1, <2>2 DEF ViewInv
<1>2. ASSUME NEW t \in Task, TaskStep(t)
      PROVE  ViewInv'
  <2>1. FlushKnows(t)'
    BY <1>2, KnowsStep
  <2>2. \A u \in Task : u # t => FlushKnows(u)'
    BY <1>2, OthersIdle DEF FlushKnows, Holding
  <2>3. editor' = editor
    BY <1>2 DEF TaskStep, flush_all_for_vault, flush_pending_rewrites_for_target,
      flush_target_for_link_mention, BeginRename, Acquire, CommitRename, Flush, Fail,
      ReadRows, NoRows, NothingToWrite, StageWrite, WriteFile, DeleteRows, DropRows,
      UpdateHash, Finish, RenameFails, ReadFails, WriteFails, userVars
  <2>4. QED
    BY <2>1, <2>2, <2>3, RewritesStep DEF ViewInv, EditorsClosed
<1>3. QED
  BY <1>1, <1>2

(* What the notes show.                                                     *)
Shown == [f \in File |-> View(f)]

(* A rename exchanges its token in the notes it queues a row for.           *)
LEMMA CommitExchanges ==
  ASSUME NamesUsedOnce, QueueTypeOK, ViewInv, ViewKnown, ViewKnown',
         NEW t \in Task, CommitRename(t)
  PROVE  \E rw \in Rewrite : Promise!Exchange(rw[1], rw[2])
<1>1. PICK rw \in Rewrite, T \in SUBSET File :
        rows' = enqueue_coalesced(T, rw[1], rw[2])
  BY DEF CommitRename
<1>. DEFINE old == rw[1]
            new == rw[2]
            N == {f \in T : \A r \in rows : ~ (r.target = f /\ r.old = old)}
<1>2. old # new /\ disk' = disk
  BY DEF NamesUsedOnce, CommitRename
<1>3. /\ \A r \in Renewed(T, old, new) :
            /\ r.target \in T /\ r.old = old /\ r.new = new
            /\ \E s \in Named(T, old) : s.target = r.target /\ s.old = old
      /\ \A s \in Named(T, old) :
            \E r \in Renewed(T, old, new) : r.target = s.target /\ r.old = old /\ r.new = new
  <2>1. ASSUME NEW s \in Named(T, old), NEW r, r = [s EXCEPT !.new = new, !.at = second,
                                                             !.op = nextOp]
        PROVE  /\ r.target = s.target /\ r.old = old /\ r.new = new
               /\ s.target \in T /\ s.old = old
    BY <2>1 DEF Named, QueueTypeOK, Row
  <2>2. ASSUME NEW r \in Renewed(T, old, new)
        PROVE  \E s \in Named(T, old) : r = [s EXCEPT !.new = new, !.at = second,
                                                       !.op = nextOp]
    BY DEF Renewed
  <2>3. ASSUME NEW s \in Named(T, old)
        PROVE  [s EXCEPT !.new = new, !.at = second, !.op = nextOp] \in Renewed(T, old, new)
    BY DEF Renewed
  <2>. HIDE DEF old, new
  <2>4. ASSUME NEW r \in Renewed(T, old, new)
        PROVE  /\ r.target \in T /\ r.old = old /\ r.new = new
               /\ \E s \in Named(T, old) : s.target = r.target /\ s.old = old
    BY <2>1, <2>2
  <2>5. ASSUME NEW s \in Named(T, old)
        PROVE  \E r \in Renewed(T, old, new) : r.target = s.target /\ r.old = old /\ r.new = new
    <3>1. PICK r : r = [s EXCEPT !.new = new, !.at = second, !.op = nextOp]
      OBVIOUS
    <3>2. QED
      BY <2>1, <2>3, <3>1
  <2>6. QED
    BY <2>4, <2>5
<1>4. \A s \in Named(T, old) : s.new = new
  <2>1. ASSUME NEW s \in Named(T, old)
        PROVE  s.new = new
    <3>1. PICK q \in Rewrite : q = <<s.old, s.new>>
      BY DEF ViewInv, Named
    <3>2. q[1] = rw[1]
      BY <3>1 DEF Named
    <3>3. q = rw
      BY <3>2 DEF NamesUsedOnce
    <3>4. QED
      BY <3>1, <3>3
  <2>2. QED
    BY <2>1
<1>5. \A x \in Fresh(T, old, new) : x.target \in N /\ x.old = old /\ x.new = new
  BY DEF Fresh
<1>6. ASSUME NEW f \in N
      PROVE  \E x : /\ pending_for_target(f)' = pending_for_target(f) \union {x}
                    /\ x \notin pending_for_target(f) /\ x.old = old /\ x.new = new
  <2>1. PICK x : x = [id |-> nextOp, target |-> f, old |-> old, new |-> new,
                      at |-> second, op |-> nextOp]
    OBVIOUS
  <2>2. x.target = f /\ x.old = old /\ x.new = new
    BY <2>1
  <2>3. x \in Fresh(T, old, new) /\ \A y \in Fresh(T, old, new) : y.target = f => y = x
    BY <2>1 DEF Fresh
  <2>4. x \notin pending_for_target(f)
    BY <2>2 DEF pending_for_target
  <2>5. rows' = (rows \ Named(T, old)) \union Renewed(T, old, new) \union Fresh(T, old, new)
    BY <1>1, <1>2 DEF enqueue_coalesced
  <2>6. \A s \in Named(T, old) : s.target # f
    BY DEF Named
  <2>7. \A r \in Renewed(T, old, new) : r.target # f
    BY <1>3, <2>6
  <2>. HIDE DEF N
  <2>8. pending_for_target(f)' = pending_for_target(f) \union {x}
    BY <2>2, <2>3, <2>5, <2>6, <2>7 DEF pending_for_target
  <2>9. QED
    BY <2>2, <2>4, <2>8
<1>7. ASSUME NEW f \in File \ N
      PROVE  /\ \A r \in pending_for_target(f) : \E s \in pending_for_target(f)' :
                   s.old = r.old /\ s.new = r.new
             /\ \A s \in pending_for_target(f)' : \E r \in pending_for_target(f) :
                   s.old = r.old /\ s.new = r.new
  <2>1. rows' = (rows \ Named(T, old)) \union Renewed(T, old, new) \union Fresh(T, old, new)
    BY <1>1, <1>2 DEF enqueue_coalesced
  <2>2. \A x \in Fresh(T, old, new) : x.target # f
    BY <1>5
  <2>. HIDE DEF N, old, new
  <2>3. ASSUME NEW r \in pending_for_target(f)
        PROVE  \E s \in pending_for_target(f)' : s.old = r.old /\ s.new = r.new
    <3>1. CASE r \in Named(T, old)
      <4>1. PICK s \in Renewed(T, old, new) :
              s.target = r.target /\ s.old = old /\ s.new = new
        BY <1>3, <3>1
      <4>2. r.old = old /\ r.new = new
        BY <1>4, <3>1 DEF Named
      <4>3. QED
        BY <2>1, <2>3, <4>1, <4>2 DEF pending_for_target
    <3>2. CASE r \notin Named(T, old)
      BY <2>1, <2>3, <3>2 DEF pending_for_target
    <3>3. QED
      BY <3>1, <3>2
  <2>4. ASSUME NEW s \in pending_for_target(f)'
        PROVE  \E r \in pending_for_target(f) : s.old = r.old /\ s.new = r.new
    <3>1. s \in rows' /\ s.target = f
      BY <2>4 DEF pending_for_target
    <3>2. CASE s \in Renewed(T, old, new)
      <4>1. PICK r \in Named(T, old) : r.target = s.target /\ r.old = old
        BY <1>3, <3>2
      <4>2. s.old = old /\ s.new = new /\ r.new = new /\ r \in rows
        BY <1>3, <1>4, <3>2 DEF Named
      <4>3. QED
        BY <3>1, <4>1, <4>2 DEF pending_for_target
    <3>3. CASE s \in rows
      BY <3>1, <3>3 DEF pending_for_target
    <3>4. QED
      BY <2>1, <2>2, <3>1, <3>2, <3>3
  <2>5. QED
    BY <2>3, <2>4
<1>8. ASSUME NEW f \in File
      PROVE  View(f)' = IF f \in N /\ View(f) # Absent
                          THEN Promise!Replaced(View(f), old, new) ELSE View(f)
  <2>1. View(f) = IF disk[f] = Absent THEN Absent
                  ELSE AllAtOnce(disk[f], pending_for_target(f))
    BY DEF ViewKnown
  <2>2. View(f)' = IF disk'[f] = Absent THEN Absent
                   ELSE AllAtOnce(disk'[f], pending_for_target(f)')
    BY DEF ViewKnown
  <2>3. CASE f \in N /\ disk[f] # Absent
    <3>1. PICK x : /\ pending_for_target(f)' = pending_for_target(f) \union {x}
                   /\ x \notin pending_for_target(f) /\ x.old = old /\ x.new = new
      BY <1>6, <2>3
    <3>2. Separate(pending_for_target(f) \union {x})
      BY <3>1 DEF ViewKnown
    <3>3. AllAtOnce(disk[f], pending_for_target(f) \union {x})
            = Promise!Replaced(AllAtOnce(disk[f], pending_for_target(f)), old, new)
      BY <3>1, <3>2, OneRowMore
    <3>4. View(f) # Absent
      BY <2>3 DEF ViewKnown
    <3>. HIDE DEF N, old, new
    <3>5. QED
      BY <1>2, <2>1, <2>2, <2>3, <3>1, <3>3, <3>4
  <2>4. CASE disk[f] = Absent
    BY <1>2, <2>1, <2>2, <2>4
  <2>5. CASE f \notin N
    <3>1. AllAtOnce(disk[f], pending_for_target(f))
            = AllAtOnce(disk[f], pending_for_target(f)')
      BY <1>7, <2>5, SameTokens
    <3>2. QED
      BY <1>2, <2>1, <2>2, <2>5, <3>1
  <2>6. QED
    BY <2>3, <2>4, <2>5
<1>9. Promise!Exchange(old, new)
  <2>1. N \in SUBSET File
    OBVIOUS
  <2>. HIDE DEF N, old, new
  <2>2. Shown' = [f \in File |-> IF f \in N /\ Shown[f] # Absent
                                   THEN Promise!Replaced(Shown[f], old, new) ELSE Shown[f]]
    BY <1>8 DEF Shown
  <2>3. QED
    BY <2>1, <2>2 DEF Promise!Exchange, Shown
<1>10. QED
  BY <1>9

(* Nothing else shows.                                                      *)
LEMMA OthersHide ==
  ASSUME NamesUsedOnce, FlushesAlone, QueueTypeOK, TextTypeOK, LockInv, HeldInv, FlushInv,
         ViewInv, ViewKnown, ViewKnown', [Next]_vars, \A t \in Task : ~ CommitRename(t)
  PROVE  Shown' = Shown
<1>1. ASSUME UNCHANGED <<disk, rows>>
      PROVE  Shown' = Shown
  <2>1. ASSUME NEW f \in File
        PROVE  View(f)' = View(f)
    BY <1>1 DEF ViewKnown, pending_for_target
  <2>2. QED
    BY <2>1 DEF Shown
<1>2. ASSUME NEW t \in Task, WriteFile(t)
      PROVE  Shown' = Shown
  <2>1. /\ cur[t] \in File /\ disk[cur[t]] # Absent
        /\ out[t] = AllAtOnce(disk[cur[t]], pending_for_target(cur[t]))
    BY <1>2 DEF WriteFile, ViewInv, FlushKnows, HeldInv, AtNote, Holding
  <2>2. rows' = rows /\ disk' = [disk EXCEPT ![cur[t]] = out[t]]
    BY <1>2 DEF WriteFile, tableVars
  <2>3. ASSUME NEW f \in File, f # cur[t]
        PROVE  View(f)' = View(f)
    <3>1. disk'[f] = disk[f]
      BY <2>2, <2>3 DEF TextTypeOK
    <3>2. QED
      BY <2>2, <3>1 DEF ViewKnown, pending_for_target
  <2>4. View(cur[t])' = View(cur[t])
    <3>1. PICK R : R = pending_for_target(cur[t])
      OBVIOUS
    <3>2. PICK f \in File : f = cur[t]
      BY <2>1
    <3>3. disk'[f] = AllAtOnce(disk[f], R) /\ Separate(R)
      BY <2>1, <2>2, <3>1, <3>2 DEF TextTypeOK, ViewKnown
    <3>4. AllAtOnce(disk'[f], R) = AllAtOnce(disk[f], R)
      BY <3>3, AppliedSettles, SettledIs
    <3>5. View(f) = AllAtOnce(disk[f], R)
      BY <2>1, <3>1, <3>2 DEF ViewKnown
    <3>6. disk'[f] # Absent
      BY <2>1, <3>2, <3>3, <3>5 DEF ViewKnown
    <3>7. pending_for_target(f)' = R
      BY <2>2, <3>1, <3>2 DEF pending_for_target
    <3>8. View(f)' = AllAtOnce(disk'[f], R)
      BY <3>6, <3>7 DEF ViewKnown
    <3>9. cur' = cur
      BY <1>2 DEF WriteFile
    <3>10. QED
      BY <3>2, <3>4, <3>5, <3>8, <3>9
  <2>5. cur' = cur
    BY <1>2 DEF WriteFile
  <2>6. \A f \in File : View(f)' = View(f)
    BY <2>1, <2>3, <2>4, <2>5
  <2>7. QED
    BY <2>6 DEF Shown
<1>3. ASSUME NEW t \in Task, DeleteRows(t) \/ DropRows(t)
      PROVE  Shown' = Shown
  <2>1. PICK R : R = pending_for_target(cur[t])
    OBVIOUS
  <2>2. /\ cur[t] \in File
        /\ disk[cur[t]] = Absent \/ Settled(disk[cur[t]], R)
    BY <1>3, <2>1
    DEF DeleteRows, DropRows, ViewInv, FlushKnows, HeldInv, AtNote, Holding
  <2>3. disk' = disk /\ rows' = rows \ R
    BY <1>3, <2>1 DEF DeleteRows, DropRows
  <2>4. ASSUME NEW f \in File
        PROVE  View(f)' = View(f)
    <3>1. CASE f # cur[t]
      <4>1. pending_for_target(f)' = pending_for_target(f)
        BY <2>1, <2>3, <3>1 DEF pending_for_target
      <4>2. QED
        BY <2>3, <4>1 DEF ViewKnown
    <3>2. CASE f = cur[t]
      <4>1. pending_for_target(f)' = {}
        BY <2>1, <2>3, <3>2 DEF pending_for_target
      <4>2. disk[f] # Absent =>
              AllAtOnce(disk[f], R) = disk[f] /\ AllAtOnce(disk[f], {}) = disk[f]
        BY <2>2, <3>2, SettledIs DEF AllAtOnce
      <4>3. QED
        BY <2>1, <2>3, <3>2, <4>1, <4>2 DEF ViewKnown
    <3>3. QED
      BY <3>1, <3>2
  <2>5. QED
    BY <2>4 DEF Shown
<1>4. ASSUME NEW t \in Task, TaskStep(t), ~ WriteFile(t), ~ DeleteRows(t), ~ DropRows(t)
      PROVE  UNCHANGED <<disk, rows>>
  BY <1>4 DEF TaskStep, flush_all_for_vault, flush_pending_rewrites_for_target,
     flush_target_for_link_mention, BeginRename, Acquire, Flush, Fail, ReadRows, NoRows,
     NothingToWrite, StageWrite, UpdateHash, Finish, RenameFails, ReadFails, WriteFails,
     tableVars
<1>5. QED
  BY <1>1, <1>2, <1>3, <1>4, OutsideRests

(* Where flushes alone write the files and no name is used twice, what is   *)
(* shown implements LinkView: it changes when a rename commits, once for    *)
(* its op and from the old token to the new, and no flush, fuse, failure or *)
(* crash is ever seen: none loses a row before the file has it.             *)
THEOREM RenamesAloneAreSeen ==
  ASSUME NamesUsedOnce, FlushesAlone
  PROVE  Spec => ReadersSeeOnlyRenames
<1>. DEFINE Known == /\ QueueTypeOK /\ TextTypeOK /\ LockInv /\ IdsInv /\ HeldInv
                     /\ OneRowPerToken
<1>1. Spec => []Known
  BY QueueTyped, TextsTyped, MutexHeld, RowsOrdered, QueueCoalesced, PTL DEF TypeOK
<1>2. Spec => [](FlushInv /\ ViewInv)
  <2>1. Init => FlushInv /\ ViewInv
    BY DEF Init, FlushInv, ViewInv, EditorsClosed, FlushKnows, Holding
  <2>2. Known /\ FlushInv /\ ViewInv /\ [Next]_vars => FlushInv' /\ ViewInv'
    BY NamesUsedOnce, FlushesAlone, FlushStep, ViewStep
    DEF FlushesAlone, NobodyElseWrites, ViewInv
  <2>3. QED
    BY <1>1, <2>1, <2>2, PTL DEF Spec
<1>3. Known /\ ViewInv => ViewKnown
  BY NamesUsedOnce, ViewIs
<1>4. Init => Promise!Init
  <2>1. SUFFICES ASSUME Init PROVE Promise!Init
    OBVIOUS
  <2>2. ASSUME NEW f \in File
        PROVE  View(f) = InitText[f]
    <3>1. pending_for_target(f) = {} /\ disk = InitText
      BY <2>1 DEF Init, pending_for_target
    <3>2. apply_pending(disk[f], {}) = disk[f]
      BY ApplyNone
    <3>3. QED
      BY <3>1, <3>2 DEF View
  <2>3. InitText = [f \in File |-> InitText[f]]
    BY TextAssumption
  <2>4. nextOp = 1
    BY <2>1 DEF Init
  <2>5. QED
    BY <2>2, <2>3, <2>4 DEF Promise!Init
<1>5. Known /\ FlushInv /\ ViewInv /\ ViewKnown /\ ViewKnown' /\ [Next]_vars
        => [Promise!Next]_<<Shown, nextOp>>
  <2>1. SUFFICES ASSUME Known, FlushInv, ViewInv, ViewKnown, ViewKnown', [Next]_vars
                 PROVE  Promise!Next \/ UNCHANGED <<Shown, nextOp>>
    OBVIOUS
  <2>2. CASE \E t \in Task : CommitRename(t)
    <3>1. nextOp' = nextOp + 1
      BY <2>2 DEF CommitRename
    <3>2. \E rw \in Rewrite : Promise!Exchange(rw[1], rw[2])
      BY <2>1, <2>2, NamesUsedOnce, CommitExchanges
    <3>3. QED
      BY <3>1, <3>2 DEF Promise!Next, Promise!Rename
  <2>3. CASE \A t \in Task : ~ CommitRename(t)
    <3>1. Shown' = Shown
      BY <2>1, <2>3, NamesUsedOnce, FlushesAlone, OthersHide
    <3>2. Minted
      BY <2>1, <2>3, RowsShrink
    <3>3. QED
      BY <3>1, <3>2 DEF Minted, Promise!Next, Promise!Fails, Shown
  <2>4. QED
    BY <2>2, <2>3
<1>6. QED
  BY <1>1, <1>2, <1>3, <1>4, <1>5, PTL DEF Spec, ReadersSeeOnlyRenames, Promise!Spec, Shown


=============================================================================
