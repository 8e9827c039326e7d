-------------------------- MODULE VaultSessionProofs --------------------------
(***************************************************************************)
(* The session's types, its live flags and the exclusion of its writers    *)
(* while it is open, for any number of rebuilds.                           *)
(***************************************************************************)
EXTENDS VaultSession, TLAPS

Replays(k) == scan[k].at = "replay" /\ scan[k].own

(* Who has the session's mutex is at the step that needs it, and the replay
   that has it is the only one. *)
MutexInv ==
  /\ \A k \in Slot : Replays(k) => mutex = "scan"
  /\ \A j, k \in Slot : Replays(j) /\ Replays(k) => j = k
  /\ watcher = "adopt" => mutex = "watcher"
  /\ timer = "flush" => mutex = "timer"
  /\ open = "flushing" => mutex = "close"
  /\ Registered => \A k \in Slot : scan[k].at \in {"wait", "replay"} => scan[k].own

(* Nobody tells the tasks of an open session to stop. *)
FlagInv ==
  /\ Registered => stopping = {}
  /\ LiveFlagsTrue

SessionInv == TypeOK /\ MutexInv /\ FlagInv

(* A scan dispatcher that takes one step, and the others as they are. *)
ScanState == [at : Running \cup {"off", "done", "refused"}, token : Slot,
              ok : BOOLEAN, own : BOOLEAN]

LEMMA OneScan ==
  ASSUME TypeOK, NEW k \in Slot, NEW to \in Running \cup {"off", "done", "refused"},
         NEW from, ScanGoes(k, from, to)
  PROVE  /\ scan' \in [Slot -> ScanState]
         /\ scan[k].at = from /\ scan'[k].at = to /\ scan'[k].own = scan[k].own
         /\ \A j \in Slot : j # k => scan'[j] = scan[j]
BY DEF TypeOK, ScanGoes, ScanState

(* The same for a step that writes more of the dispatcher's state. *)
LEMMA OneScanWrites ==
  ASSUME TypeOK, NEW k \in Slot, NEW r \in ScanState, scan' = [scan EXCEPT ![k] = r]
  PROVE  /\ scan' \in [Slot -> ScanState] /\ scan'[k] = r
         /\ \A j \in Slot : j # k => scan'[j] = scan[j]
BY DEF TypeOK, ScanState

(* Whatever order the tasks of a vault, its rebuilds and its close come in: the
   state keeps its types, who writes the queue has flush_in_progress, nobody has
   told the tasks of an open vault to stop, and no health flag outlives its task. *)
THEOREM SessionKept == Spec => []SessionInv
<1> USE SessionAssumption
<1>0. 0 \in Slot
  BY DEF Slot
<1>1. Init => SessionInv
  <2> SUFFICES ASSUME Init PROVE SessionInv
    OBVIOUS
  <2>1. /\ NoScan \in ScanState /\ [NoScan EXCEPT !.at = "walk"] \in ScanState
        /\ NoScan.at = "off" /\ [NoScan EXCEPT !.at = "walk"].at = "walk"
    BY <1>0 DEF NoScan, ScanState, Running
  <2>2. /\ scan \in [Slot -> ScanState]
        /\ \A k \in Slot : scan[k].at \in {"off", "walk"}
    <3> HIDE DEF NoScan
    <3> QED BY <2>1 DEF Init
  <2>3. TypeOK
    BY <1>0, <2>2 DEF Init, TypeOK, ScanState, Task
  <2>4. MutexInv
    BY <2>2 DEF Init, MutexInv, Replays
  <2>5. FlagInv
    BY DEF Init, FlagInv, LiveFlagsTrue
  <2> QED BY <2>3, <2>4, <2>5 DEF SessionInv
<1>2. SessionInv /\ [Next]_vars => SessionInv'
  <2> SUFFICES ASSUME SessionInv, [Next]_vars PROVE SessionInv'
    OBVIOUS
  <2> USE DEF SessionInv, FlagInv, LiveFlagsTrue, Registered
  <2>1. CASE close_vault
    BY <2>1 DEF close_vault, cells, tasks, TypeOK, MutexInv, Replays
  <2>2. CASE flush_at_close
    BY <2>2 DEF flush_at_close, cells, tokens, TypeOK, MutexInv, Replays, Task
  <2>3. CASE CloseEnds
    BY <2>3 DEF CloseEnds, cells, TypeOK, MutexInv, Replays, Task
  <2>4. CASE cancel_vault_scan
    BY <2>4 DEF cancel_vault_scan, cells, tasks, TypeOK, MutexInv, Replays
  <2>5. CASE search_rebuild_index
    <3>1. PICK k \in Slot, t \in Slot :
            /\ scan' = [scan EXCEPT ![k] = [NoScan EXCEPT !.at = "asked", !.token = t]]
            /\ token' = t
            /\ UNCHANGED <<open, search, cells, cancelled, stopping, watcher, timer, mutex>>
      BY <2>5 DEF search_rebuild_index, TypeOK
    <3>2. /\ [NoScan EXCEPT !.at = "asked", !.token = t] \in ScanState
          /\ [NoScan EXCEPT !.at = "asked", !.token = t].at = "asked"
      BY DEF NoScan, ScanState, Running
    <3>3. /\ scan' \in [Slot -> ScanState] /\ scan'[k].at = "asked"
          /\ \A j \in Slot : j # k => scan'[j] = scan[j]
      <4> HIDE DEF NoScan
      <4> QED BY <3>1, <3>2, OneScanWrites
    <3> QED BY <3>1, <3>3 DEF cells, TypeOK, ScanState, MutexInv, Replays
  <2>6. ASSUME NEW k \in Slot, RebuildStarts(k) \/ WipeRefused(k)
        PROVE  SessionInv'
    <3>1. ScanGoes(k, "asked", "walk") \/ ScanGoes(k, "asked", "refused")
      BY <2>6 DEF RebuildStarts, WipeRefused
    <3>2. /\ scan' \in [Slot -> ScanState] /\ scan'[k].at \in {"walk", "refused"}
          /\ \A j \in Slot : j # k => scan'[j] = scan[j]
      BY <3>1, OneScan DEF Running
    <3>3. /\ cell' = "Building"
          /\ UNCHANGED <<status, live, open, search, tokens, watcher, timer, mutex>>
      BY <2>6 DEF RebuildStarts, WipeRefused
    <3> QED BY <3>2, <3>3 DEF tokens, TypeOK, ScanState, MutexInv, Replays
  <2>7. ASSUME NEW k \in Slot, ScanFound(k) PROVE SessionInv'
    <3> DEFINE r == [scan[k] EXCEPT !.at = "found", !.ok = TRUE]
    <3>1. r \in ScanState /\ r.at = "found" /\ scan' = [scan EXCEPT ![k] = r]
      BY <2>7 DEF ScanFound, TypeOK, ScanState, Running
    <3>2. /\ scan' \in [Slot -> ScanState] /\ scan'[k].at = "found"
          /\ \A j \in Slot : j # k => scan'[j] = scan[j]
      <4> HIDE DEF r
      <4> QED BY <3>1, OneScanWrites
    <3> QED
      BY <2>7, <3>2 DEF ScanFound, cells, tokens, TypeOK, ScanState, MutexInv, Replays
  <2>8. ASSUME NEW k \in Slot, ScanStops(k) PROVE SessionInv'
    BY <2>8, OneScan DEF ScanStops, cells, tokens, TypeOK,
       ScanState, MutexInv, Replays, Running
  <2>9. ASSUME NEW k \in Slot, journal_renames_found_by_scan(k) PROVE SessionInv'
    <3> DEFINE r == [scan[k] EXCEPT !.at = "wait", !.own = Registered]
    <3>1. /\ r \in ScanState /\ r.at = "wait" /\ r.own = Registered
          /\ scan' = [scan EXCEPT ![k] = r]
      BY <2>9 DEF journal_renames_found_by_scan, TypeOK, ScanState, Running
    <3>2. /\ scan' \in [Slot -> ScanState] /\ scan'[k].at = "wait"
          /\ Registered => scan'[k].own
          /\ \A j \in Slot : j # k => scan'[j] = scan[j]
      <4> HIDE DEF r
      <4> QED BY <3>1, OneScanWrites
    <3> QED
      BY <2>9, <3>2 DEF journal_renames_found_by_scan, cells, tokens, TypeOK,
         ScanState, MutexInv, Replays
  <2>10. ASSUME NEW k \in Slot, replay_rename_journal(k) PROVE SessionInv'
    <3>1. ScanGoes(k, "wait", "replay")
      BY <2>10 DEF replay_rename_journal
    <3> QED
      BY <2>10, <3>1, OneScan DEF replay_rename_journal, cells, tokens, TypeOK,
         ScanState, MutexInv, Replays, Running, Task
  <2>11. ASSUME NEW k \in Slot, ReplayEnds(k) PROVE SessionInv'
    <3>1. ScanGoes(k, "replay", "settle")
      BY <2>11 DEF ReplayEnds
    <3> QED
      BY <2>11, <3>1, OneScan DEF ReplayEnds, cells, tokens, TypeOK,
         ScanState, MutexInv, Replays, Running, Task
  <2>12. ASSUME NEW k \in Slot, Settle(k) PROVE SessionInv'
    <3>1. ScanGoes(k, "settle", "done")
      BY <2>12 DEF Settle
    <3> QED
      BY <2>12, <3>1, OneScan DEF Settle, tokens, TypeOK, ScanState, MutexInv,
         Replays, Running
  <2>13. CASE WatcherStep
    <3>1. CASE handle_watch_batch
      BY <3>1 DEF handle_watch_batch, cells, tokens, TypeOK, MutexInv, Replays
    <3>2. CASE try_adopt_external_rename
      BY <3>2 DEF try_adopt_external_rename, cells, tokens, TypeOK, MutexInv,
         Replays, Task
    <3>3. CASE BatchEnds
      BY <3>3 DEF BatchEnds, cells, tokens, TypeOK, MutexInv, Replays, Task
    <3>4. CASE StreamEnds
      BY <3>4 DEF StreamEnds, cells, tokens, TypeOK, MutexInv, Replays
    <3> QED BY <2>13, <3>1, <3>2, <3>3, <3>4 DEF WatcherStep
  <2>14. CASE TimerStep
    <3>1. CASE TickStarts
      BY <3>1 DEF TickStarts, cells, tokens, TypeOK, MutexInv, Replays
    <3>2. CASE TickFlushes
      BY <3>2 DEF TickFlushes, cells, tokens, TypeOK, MutexInv, Replays, Task
    <3>3. CASE TickEnds
      BY <3>3 DEF TickEnds, cells, tokens, TypeOK, MutexInv, Replays, Task
    <3>4. CASE LoopEnds
      BY <3>4 DEF LoopEnds, cells, tokens, TypeOK, MutexInv, Replays
    <3>5. CASE supervise_flush_timer
      BY <3>5 DEF supervise_flush_timer, cells, tokens, TypeOK, MutexInv, Replays
    <3> QED BY <2>14, <3>1, <3>2, <3>3, <3>4, <3>5 DEF TimerStep
  <2>15. CASE UNCHANGED vars
    BY <2>15 DEF vars, cells, tokens, tasks, TypeOK, MutexInv, Replays
  <2> QED
    BY <2>1, <2>2, <2>3, <2>4, <2>5, <2>6, <2>7, <2>8, <2>9, <2>10, <2>11,
       <2>12, <2>13, <2>14, <2>15 DEF Next, Rebuild, ScanStep
<1> QED BY <1>1, <1>2, PTL DEF Spec

(* A flag that is set on an open session is of a task that is there. *)
THEOREM FlagsAreTrue == Spec => []LiveFlagsTrue
<1>1. SessionInv => LiveFlagsTrue
  BY DEF SessionInv, FlagInv
<1> QED BY <1>1, SessionKept, PTL

(* The replay, adoption, the tick and the last flush exclude each other as
   long as the session is open. *)
THEOREM WritersExcluded == Spec => []OneWriterWhileOpen
<1>1. SessionInv => OneWriterWhileOpen
  <2> SUFFICES ASSUME SessionInv, Registered, NEW x \in Queueing, NEW y \in Queueing
               PROVE  x = y
    BY DEF OneWriterWhileOpen, OneQueueWriter
  <2>1. ASSUME NEW z \in Queueing
        PROVE  \/ \E k \in Slot : Replays(k) /\ z = <<"scan", k>> /\ mutex = "scan"
               \/ z = <<"watcher", 0>> /\ mutex = "watcher"
               \/ z = <<"timer", 0>> /\ mutex = "timer"
    BY DEF Queueing, SessionInv, MutexInv, Registered, Replays
  <2>2. PICK mx \in {"scan", "watcher", "timer"} : mutex = mx
    BY <2>1
  <2> QED BY <2>1, <2>2 DEF SessionInv, MutexInv
<1> QED BY <1>1, SessionKept, PTL
===============================================================================
