----------------------------- MODULE VaultSession -----------------------------
(***************************************************************************)
(* An open vault and its tasks.  open_vault puts the session in the        *)
(* registry and spawns a scan, a watcher and a flush timer, each with its  *)
(* own clones of the handles; the commands find the session in the         *)
(* registry.  close_vault takes it out, flushes the queue, and tells the   *)
(* tasks to stop; they stop when they notice.  A rebuild of the search     *)
(* index runs a further scan.                                              *)
(***************************************************************************)
EXTENDS Naturals

CONSTANTS
  MaxRebuilds,  \* bound: calls of search_rebuild_index
  Free

ASSUME SessionAssumption ==
  MaxRebuilds \in Nat /\ Free \notin {"scan", "watcher", "timer", "close"}

VARIABLES
  open,       \* how far close_vault has come
  search,     \* whether the session has a search index
  status,     \* scan_status
  cell,       \* search_state
  token,      \* the cancellation token stored in `cancel`
  cancelled,  \* tokens that were cancelled
  scan,       \* the scan dispatchers, the one of open_vault first
  watcher, timer,
  stopping,   \* which of watcher_cancel and flush_timer_cancel are cancelled
  live,       \* which of watcher_live and flush_timer_live are set
  mutex       \* who has flush_in_progress

cells == <<status, cell, live>>
tokens == <<token, cancelled, stopping>>
tasks == <<scan, watcher, timer, mutex>>
vars == <<open, search, cells, tokens, tasks>>

Slot == 0..MaxRebuilds
Task == {"scan", "watcher", "timer", "close"}

Running == {"asked", "walk", "found", "wait", "replay", "settle"}

NoScan == [at |-> "off", token |-> 0, ok |-> FALSE, own |-> FALSE]

(* The session is in state.vaults. *)
Registered == open = "open"

(* open_vault puts the session in the registry and spawns its tasks; the vault
   opens also when the search index or the watcher cannot be had. *)
Init ==
  /\ open = "open"
  /\ search \in BOOLEAN
  /\ status = "in_progress"
  /\ cell = IF search THEN "Building" ELSE "Error"
  /\ token = 0
  /\ cancelled = {}
  /\ scan = [k \in Slot |-> IF k = 0 THEN [NoScan EXCEPT !.at = "walk"] ELSE NoScan]
  /\ watcher \in {"off", "up"}
  /\ timer = "sleep"
  /\ stopping = {}
  /\ live = IF watcher = "up" THEN {"watcher", "timer"} ELSE {"timer"}
  /\ mutex = Free

-------------------------------------------------------------------------------
(* close_vault *)

close_vault ==
  /\ Registered
  /\ open' = "closing"
  /\ stopping' = stopping \cup {"timer"}
  /\ UNCHANGED <<search, cells, token, cancelled, tasks>>

flush_at_close ==
  /\ open = "closing" /\ mutex = Free
  /\ mutex' = "close"
  /\ open' = "flushing"
  /\ UNCHANGED <<search, cells, tokens, scan, watcher, timer>>

(* Fault: the watcher is left to be stopped by the drop of its handle. *)
CloseForgetsWatcher ==
  /\ open = "flushing"
  /\ mutex' = Free
  /\ cancelled' = cancelled \cup {token}
  /\ open' = "closed"
  /\ UNCHANGED <<search, cells, token, stopping, scan, watcher, timer>>

(* The tasks are told to stop and the session is dropped. *)
CloseEnds ==
  /\ open = "flushing"
  /\ mutex' = Free
  /\ cancelled' = cancelled \cup {token}
  /\ stopping' = stopping \cup {"watcher"}
  /\ open' = "closed"
  /\ UNCHANGED <<search, cells, token, scan, watcher, timer>>

-------------------------------------------------------------------------------
(* The scan dispatcher *)

ScanGoes(k, from, to) ==
  /\ scan[k].at = from
  /\ scan' = [scan EXCEPT ![k].at = to]

(* The walk and the link pass look at their token between files. *)
ScanFound(k) ==
  /\ scan[k].at = "walk"
  /\ scan[k].token \notin cancelled
  /\ scan' = [scan EXCEPT ![k].at = "found", ![k].ok = TRUE]
  /\ UNCHANGED <<open, search, cells, tokens, watcher, timer, mutex>>

(* ScanCancelled; an error of the index or a panic ends it the same way. *)
ScanStops(k) ==
  /\ ScanGoes(k, "walk", "settle")
  /\ UNCHANGED <<open, search, cells, tokens, watcher, timer, mutex>>

(* The vanished rows are paired and journalled, and the mutex is looked up: a
   session that is no longer registered has a fresh one made for it. *)
journal_renames_found_by_scan(k) ==
  /\ scan[k].at = "found"
  /\ scan' = [scan EXCEPT ![k].at = "wait", ![k].own = Registered]
  /\ UNCHANGED <<open, search, cells, tokens, watcher, timer, mutex>>

replay_rename_journal(k) ==
  /\ ScanGoes(k, "wait", "replay")
  /\ scan[k].own => mutex = Free
  /\ mutex' = IF scan[k].own THEN "scan" ELSE mutex
  /\ UNCHANGED <<open, search, cells, tokens, watcher, timer>>

ReplayEnds(k) ==
  /\ ScanGoes(k, "replay", "settle")
  /\ mutex' = IF scan[k].own THEN Free ELSE mutex
  /\ UNCHANGED <<open, search, cells, tokens, watcher, timer>>

(* Fault: the cell is left alone by a scan that did not complete. *)
SettlesIfComplete(k) ==
  /\ ScanGoes(k, "settle", "done")
  /\ IF Registered
     THEN /\ status' = IF scan[k].ok THEN "complete" ELSE "cancelled"
          /\ cell' = IF scan[k].ok /\ search THEN "Ready" ELSE cell
     ELSE UNCHANGED <<status, cell>>
  /\ UNCHANGED <<live, open, search, tokens, watcher, timer, mutex>>

(* settle_after_scan, if the session is still registered. *)
Settle(k) ==
  /\ ScanGoes(k, "settle", "done")
  /\ IF Registered
     THEN /\ status' = IF scan[k].ok THEN "complete" ELSE "cancelled"
          /\ cell' = IF scan[k].ok /\ search THEN "Ready" ELSE "Error"
     ELSE UNCHANGED <<status, cell>>
  /\ UNCHANGED <<live, open, search, tokens, watcher, timer, mutex>>

ScanStep(k) ==
  \/ ScanFound(k) \/ ScanStops(k) \/ journal_renames_found_by_scan(k)
  \/ replay_rename_journal(k) \/ ReplayEnds(k) \/ Settle(k)

cancel_vault_scan ==
  /\ Registered
  /\ cancelled' = cancelled \cup {token}
  /\ UNCHANGED <<open, search, cells, token, stopping, tasks>>

-------------------------------------------------------------------------------
(* search_rebuild_index.  A rebuild runs under the session's own token; a spent
   one is first replaced, in the registry, by a fresh one.  An index that is
   not there refuses the call, after the token has been replaced: the fresh
   token is then the next rebuild's, and no task runs under it until then. *)

search_rebuild_index ==
  \E k \in Slot :
    LET t == IF token \in cancelled THEN k ELSE token
    IN /\ Registered /\ search
       /\ scan[k].at = "off" /\ (k = 0 \/ scan[k - 1].at # "off")
       /\ token' = t
       /\ scan' = [scan EXCEPT ![k] = [NoScan EXCEPT !.at = "asked", !.token = t]]
       /\ UNCHANGED <<open, search, cells, cancelled, stopping, watcher, timer, mutex>>

(* The registry is let go by now: the vault may be closing. *)
RebuildStarts(k) ==
  /\ ScanGoes(k, "asked", "walk")
  /\ cell' = "Building"
  /\ UNCHANGED <<status, live, open, search, tokens, watcher, timer, mutex>>

(* delete_all or its commit fails: the command returns with the cell set. *)
WipeRefused(k) ==
  /\ ScanGoes(k, "asked", "refused")
  /\ cell' = "Building"
  /\ UNCHANGED <<status, live, open, search, tokens, watcher, timer, mutex>>

Rebuild ==
  \/ search_rebuild_index
  \/ \E k \in Slot : RebuildStarts(k) \/ WipeRefused(k)

-------------------------------------------------------------------------------
(* The watcher dispatcher and the flush timer *)

(* Events that arrived before the bridge stopped are still handled. *)
handle_watch_batch ==
  /\ watcher = "up" /\ watcher' = "batch"
  /\ UNCHANGED <<open, search, cells, tokens, scan, timer, mutex>>

(* Fault: the mutex is not waited for. *)
AdoptsAtOnce ==
  /\ watcher = "batch"
  /\ mutex' = "watcher" /\ watcher' = "adopt"
  /\ UNCHANGED <<open, search, cells, tokens, scan, timer>>

try_adopt_external_rename ==
  /\ watcher = "batch" /\ mutex = Free
  /\ mutex' = "watcher" /\ watcher' = "adopt"
  /\ UNCHANGED <<open, search, cells, tokens, scan, timer>>

(* The batch is handled, or its task dies and the dispatcher stays up. *)
BatchEnds ==
  /\ watcher \in {"batch", "adopt"} /\ watcher' = "up"
  /\ mutex' = IF watcher = "adopt" THEN Free ELSE mutex
  /\ UNCHANGED <<open, search, cells, tokens, scan, timer>>

(* The channel is closed: on cancellation, or because the watcher died. *)
StreamEnds ==
  /\ watcher = "up" /\ watcher' = "off"
  /\ live' = IF "watcher" \in stopping THEN live ELSE live \ {"watcher"}
  /\ UNCHANGED <<status, cell, open, search, tokens, scan, timer, mutex>>

WatcherStep ==
  handle_watch_batch \/ try_adopt_external_rename \/ BatchEnds \/ StreamEnds

(* select! may take the sleep when the cancellation is due as well. *)
TickStarts ==
  /\ timer = "sleep" /\ timer' = "tick"
  /\ UNCHANGED <<open, search, cells, tokens, scan, watcher, mutex>>

TickFlushes ==
  /\ timer = "tick" /\ mutex = Free
  /\ mutex' = "timer" /\ timer' = "flush"
  /\ UNCHANGED <<open, search, cells, tokens, scan, watcher>>

(* The tick runs in a task of its own: when that dies the timer goes on. *)
TickEnds ==
  /\ timer = "flush" /\ timer' = "sleep"
  /\ mutex' = Free
  /\ UNCHANGED <<open, search, cells, tokens, scan, watcher>>

(* The loop returns on its cancellation, or dies. *)
LoopEnds ==
  /\ timer = "sleep" /\ timer' = "dead"
  /\ UNCHANGED <<open, search, cells, tokens, scan, watcher, mutex>>

(* Fault: the supervisor takes any end of the loop for a cancellation. *)
SupervisesNothing ==
  /\ timer = "dead" /\ timer' = "off"
  /\ UNCHANGED <<open, search, cells, tokens, scan, watcher, mutex>>

supervise_flush_timer ==
  /\ timer = "dead" /\ timer' = "off"
  /\ live' = IF "timer" \in stopping THEN live ELSE live \ {"timer"}
  /\ UNCHANGED <<status, cell, open, search, tokens, scan, watcher, mutex>>

TimerStep ==
  TickStarts \/ TickFlushes \/ TickEnds \/ LoopEnds \/ supervise_flush_timer

-------------------------------------------------------------------------------
Next ==
  \/ close_vault \/ flush_at_close \/ CloseEnds
  \/ cancel_vault_scan \/ Rebuild
  \/ \E k \in Slot : ScanStep(k)
  \/ WatcherStep \/ TimerStep

Spec == Init /\ [][Next]_vars

(* A task that has started goes on, and comes to its mutex in turn (tokio's
   mutex is first come, first served); the timer's loop sees its cancellation
   the next time it begins an interval, when only that is ready; the bridge
   closes the channel when it is told to.  Nobody has to close the vault. *)
Fairness ==
  /\ SF_vars(flush_at_close) /\ WF_vars(CloseEnds)
  /\ \A k \in Slot :
       /\ WF_vars(RebuildStarts(k))
       /\ WF_vars(ScanFound(k) \/ ScanStops(k))
       /\ WF_vars(journal_renames_found_by_scan(k)) /\ SF_vars(replay_rename_journal(k))
       /\ WF_vars(ReplayEnds(k)) /\ WF_vars(Settle(k))
  /\ WF_vars(BatchEnds) /\ SF_vars(StreamEnds /\ "watcher" \in stopping)
  /\ SF_vars(TickFlushes) /\ WF_vars(TickEnds)
  /\ SF_vars(LoopEnds /\ "timer" \in stopping) /\ WF_vars(supervise_flush_timer)

FairSpec == Spec /\ Fairness

-------------------------------------------------------------------------------
(* The types of the registry's entry and of the tasks. *)
TypeOK ==
  /\ open \in {"open", "closing", "flushing", "closed"}
  /\ search \in BOOLEAN
  /\ status \in {"in_progress", "complete", "cancelled"}
  /\ cell \in {"Building", "Ready", "Error"}
  /\ token \in Slot
  /\ cancelled \subseteq Slot
  /\ scan \in [Slot -> [at : Running \cup {"off", "done", "refused"}, token : Slot,
                        ok : BOOLEAN, own : BOOLEAN]]
  /\ watcher \in {"off", "up", "batch", "adopt"}
  /\ timer \in {"off", "sleep", "tick", "flush", "dead"}
  /\ stopping \subseteq {"watcher", "timer"}
  /\ live \subseteq {"watcher", "timer"}
  /\ mutex \in Task \cup {Free}

(* A task that ended by itself while the vault is open is not shown as live by
   get_vault_info, whether it ended early, late or while a batch or a tick of
   it had died before. *)
LiveFlagsTrue ==
  Registered =>
    /\ "timer" \in live => timer # "off"
    /\ "watcher" \in live => watcher # "off"

Queueing ==
  {<<"scan", k>> : k \in {j \in Slot : scan[j].at = "replay"}}
    \cup {<<"watcher", 0>> : t \in {watcher} \cap {"adopt"}}
    \cup {<<"timer", 0>> : t \in {timer} \cap {"flush"}}
    \cup {<<"close", 0>> : t \in {open} \cap {"flushing"}}

(* Of the paths that enqueue or flush rewrites no two are at it at once: the
   replay of the journal, adoption, the tick and the flush of close_vault. *)
OneQueueWriter == \A x, y \in Queueing : x = y

(* And until the vault is closed there are never two, whatever is rebuilt or
   cancelled: each has the session's own mutex. *)
OneWriterWhileOpen == Registered => OneQueueWriter

(* The search cell never stays at Building, nor the status at in progress,
   whatever is cancelled, rebuilt or refused meanwhile. *)
NeverStuckBuilding ==
  (Registered /\ (cell = "Building" \/ status = "in_progress"))
    ~> (~Registered \/ (cell # "Building" /\ status # "in_progress"))

(* The same unless a rebuild could not empty the index: a cancellation before,
   during and after a rebuild, a rebuild over the first scan, a scan that fails
   all leave the cell at Ready or Error. *)
BuildingEnds ==
  (Registered /\ (cell = "Building" \/ status = "in_progress"))
    ~> \/ ~Registered
       \/ cell # "Building" /\ status # "in_progress"
       \/ \E k \in Slot : scan[k].at = "refused"

(* A closed vault comes to rest: no scan, rebuild, watcher or timer of it goes
   on for ever, and with them the search index is let go. *)
ClosedComesToRest ==
  (open = "closed")
    ~> (watcher = "off" /\ timer = "off" /\ \A k \in Slot : scan[k].at \notin Running)

===============================================================================
