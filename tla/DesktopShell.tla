----------------------------- MODULE DesktopShell -----------------------------
(***************************************************************************)
(* What the desktop app runs for an open vault and has to end with it: the *)
(* shells behind terminal tabs and the computations of graph layouts.  The *)
(* commands are asynchronous and a shell ends when it likes.  A shell's    *)
(* session has one holder at a time, and ends when that holder drops it.   *)
(***************************************************************************)
CONSTANTS
  Vault,
  Tab, OfTab,       \* terminal tabs, each opened once
  Layout, OfLayout, \* calls of graph_layout
  NoLayout

ASSUME ShellAssumption ==
  /\ OfTab \in [Tab -> Vault] /\ OfLayout \in [Layout -> Vault]
  /\ NoLayout \notin Layout

VARIABLES
  open, closing,  \* vaults in state.vaults, and those close_vault is at
  enabled,        \* vaults whose terminal plugin is on, as settings and UI have it
  panel,          \* the tab's panel
  call,           \* its call of terminal_open
  shell,
  holder,         \* who has the session
  pump,           \* the thread that reads the shell's output
  reapAll,        \* terminal_reap_all is still to come
  layout,         \* how far a layout is
  cancelled,      \* layouts whose flag is set
  running         \* the layout the registry has for a vault

vaultVars == <<open, closing, enabled>>
tabVars == <<panel, call, shell, holder, pump, reapAll>>
layoutVars == <<layout, cancelled, running>>
shellVars == <<vaultVars, tabVars, layoutVars>>

ShellInit ==
  /\ open = Vault /\ closing = {} /\ enabled = Vault
  /\ panel = [t \in Tab |-> "none"] /\ call = [t \in Tab |-> "none"]
  /\ shell = [t \in Tab |-> "none"] /\ holder = [t \in Tab |-> "none"]
  /\ pump = [t \in Tab |-> "none"] /\ reapAll = FALSE
  /\ layout = [g \in Layout |-> "idle"] /\ cancelled = {}
  /\ running = [v \in Vault |-> NoLayout]

-------------------------------------------------------------------------------
(* A terminal tab. *)

OpenTab(t) ==
  /\ panel[t] = "none" /\ OfTab[t] \in enabled
  /\ panel' = [panel EXCEPT ![t] = "opening"] /\ call' = [call EXCEPT ![t] = "asked"]
  /\ UNCHANGED <<vaultVars, shell, holder, pump, reapAll, layoutVars>>

(* The plugin is on and the vault is open, now. *)
prepare_open(t) ==
  /\ call[t] = "asked"
  /\ call' = [call EXCEPT ![t] =
       IF OfTab[t] \in open \cap enabled THEN "prepared" ELSE "failed"]
  /\ UNCHANGED <<vaultVars, panel, shell, holder, pump, reapAll, layoutVars>>

(* TerminalSession::open: the shell runs and its output is read before the
   registry knows of it; or a step of it fails. *)
SpawnShell(t) ==
  /\ call[t] = "prepared"
  /\ \/ /\ call' = [call EXCEPT ![t] = "spawned"]
        /\ shell' = [shell EXCEPT ![t] = "runs"]
        /\ holder' = [holder EXCEPT ![t] = "opener"]
        /\ pump' = [pump EXCEPT ![t] = "reads"]
     \/ /\ call' = [call EXCEPT ![t] = "failed"]
        /\ UNCHANGED <<shell, holder, pump>>
  /\ UNCHANGED <<vaultVars, panel, reapAll, layoutVars>>

insert(t) ==
  /\ call[t] = "spawned"
  /\ call' = [call EXCEPT ![t] = "answered"]
  /\ holder' = [holder EXCEPT ![t] = "registry"]
  /\ UNCHANGED <<vaultVars, panel, shell, pump, reapAll, layoutVars>>

(* Fault: the panel takes the session it asked for, gone or not. *)
ShownAnyway(t) ==
  /\ call[t] \in {"answered", "failed"} /\ panel[t] \in {"opening", "leaving"}
  /\ panel' = [panel EXCEPT ![t] =
       IF panel[t] = "opening" THEN "shown" ELSE "gone"]
  /\ UNCHANGED <<vaultVars, call, shell, holder, pump, reapAll, layoutVars>>

(* The panel has the answer, and closes the session if it has been removed
   while it waited. *)
SpawnAnswered(t) ==
  /\ call[t] \in {"answered", "failed"} /\ panel[t] \in {"opening", "leaving"}
  /\ panel' = [panel EXCEPT ![t] =
       IF panel[t] = "opening" THEN "shown"
       ELSE IF call[t] = "answered" THEN "closes" ELSE "gone"]
  /\ UNCHANGED <<vaultVars, call, shell, holder, pump, reapAll, layoutVars>>

(* The tab is closed. *)
RemovePanel(t) ==
  /\ panel[t] \in {"opening", "shown"}
  /\ panel' = [panel EXCEPT ![t] =
       IF panel[t] = "opening" THEN "leaving"
       ELSE IF call[t] = "answered" THEN "closes" ELSE "gone"]
  /\ UNCHANGED <<vaultVars, call, shell, holder, pump, reapAll, layoutVars>>

(* take: whoever removes the entry has the session. *)
TakenFor(S, who) ==
  holder' = [t \in Tab |-> IF t \in S /\ holder[t] = "registry" THEN who ELSE holder[t]]

terminal_close(t) ==
  /\ panel[t] = "closes"
  /\ panel' = [panel EXCEPT ![t] = "gone"]
  /\ TakenFor({t}, "reaper")
  /\ UNCHANGED <<vaultVars, call, shell, pump, reapAll, layoutVars>>

(* Drop of ChildReaper: the shell is asked to end, then made to. *)
reap(t) ==
  /\ holder[t] = "reaper"
  /\ shell' = [shell EXCEPT ![t] = "over"]
  /\ holder' = [holder EXCEPT ![t] = "none"]
  /\ UNCHANGED <<vaultVars, panel, call, pump, reapAll, layoutVars>>

ShellExits(t) ==
  /\ shell[t] = "runs"
  /\ shell' = [shell EXCEPT ![t] = "over"]
  /\ UNCHANGED <<vaultVars, panel, call, holder, pump, reapAll, layoutVars>>

(* Once the output has ended the hook takes the entry, if there is one and it is
   there yet. *)
exit_hook(t) ==
  /\ pump[t] = "reads"
  /\ pump' = [pump EXCEPT ![t] = "ended"]
  /\ TakenFor({t}, "hook")
  /\ UNCHANGED <<vaultVars, panel, call, shell, reapAll, layoutVars>>

(* The output ends with the shell; or before it, when it cannot be read or the
   panel cannot be sent it. *)
OutputEnds(t) == shell[t] = "over" /\ exit_hook(t)
OutputFails(t) == shell[t] = "runs" /\ exit_hook(t)

(* The hook waits for the shell, however long, and drops the session. *)
wait_exit(t) ==
  /\ holder[t] = "hook" /\ shell[t] = "over"
  /\ holder' = [holder EXCEPT ![t] = "none"]
  /\ UNCHANGED <<vaultVars, panel, call, shell, pump, reapAll, layoutVars>>

-------------------------------------------------------------------------------
(* The plugin is switched off: the UI closes the tabs there are, then asks for
   what is left to be reaped. *)
Disable(v) ==
  /\ v \in enabled
  /\ enabled' = enabled \ {v}
  /\ reapAll' = (reapAll \/ \E t \in Tab : panel[t] \in {"opening", "shown"})
  /\ UNCHANGED <<open, closing, panel, call, shell, holder, pump, layoutVars>>

terminal_reap_all ==
  /\ reapAll
  /\ \A t \in Tab : OfTab[t] \notin enabled => panel[t] \notin {"opening", "shown"}
  /\ reapAll' = FALSE
  /\ TakenFor(Tab, "reaper")
  /\ UNCHANGED <<vaultVars, panel, call, shell, pump, layoutVars>>

-------------------------------------------------------------------------------
(* A graph layout. *)

(* The plugin is required: the vault is open. *)
RequireGraph(g) ==
  /\ layout[g] = "idle" /\ OfLayout[g] \in open
  /\ layout' = [layout EXCEPT ![g] = "asked"]
  /\ UNCHANGED <<vaultVars, tabVars, cancelled, running>>

begin(g) ==
  LET v == OfLayout[g]
  IN /\ layout[g] = "asked"
     /\ layout' = [layout EXCEPT ![g] = "computes"]
     /\ running' = [running EXCEPT ![v] = g]
     /\ cancelled' = cancelled \cup ({running[v]} \ {NoLayout})
     /\ UNCHANGED <<vaultVars, tabVars>>

(* The flag is seen, or the iterations are through. *)
LayoutEnds(g) ==
  /\ layout[g] = "computes"
  /\ layout' = [layout EXCEPT ![g] = "ends"]
  /\ UNCHANGED <<vaultVars, tabVars, cancelled, running>>

(* Fault: the vault's entry goes with the first layout that ends. *)
FinishesAny(g) ==
  /\ layout[g] = "ends"
  /\ layout' = [layout EXCEPT ![g] = "over"]
  /\ running' = [running EXCEPT ![OfLayout[g]] = NoLayout]
  /\ UNCHANGED <<vaultVars, tabVars, cancelled>>

finish(g) ==
  /\ layout[g] = "ends"
  /\ layout' = [layout EXCEPT ![g] = "over"]
  /\ running' = [running EXCEPT ![OfLayout[g]] = IF @ = g THEN NoLayout ELSE @]
  /\ UNCHANGED <<vaultVars, tabVars, cancelled>>

Cancels(v) ==
  /\ cancelled' = cancelled \cup ({running[v]} \ {NoLayout})
  /\ running' = [running EXCEPT ![v] = NoLayout]
  /\ UNCHANGED layout

graph_layout_cancel(v) ==
  /\ running[v] # NoLayout
  /\ Cancels(v)
  /\ UNCHANGED <<vaultVars, tabVars>>

-------------------------------------------------------------------------------
(* close_vault of the app: the layouts, then the shells, then the vault. *)
close_vault(v) ==
  /\ v \in open \ closing
  /\ closing' = closing \cup {v}
  /\ Cancels(v)
  /\ TakenFor({t \in Tab : OfTab[t] = v}, "reaper")
  /\ UNCHANGED <<open, enabled, panel, call, shell, pump, reapAll>>

CloseReturns(v) ==
  /\ v \in closing
  /\ \A t \in Tab : OfTab[t] = v => holder[t] # "reaper"
  /\ closing' = closing \ {v} /\ open' = open \ {v}
  /\ UNCHANGED <<enabled, tabVars, layoutVars>>

ShellNext ==
  \/ \E t \in Tab :
       \/ OpenTab(t) \/ prepare_open(t) \/ SpawnShell(t) \/ insert(t) \/ SpawnAnswered(t)
       \/ RemovePanel(t) \/ terminal_close(t) \/ reap(t) \/ ShellExits(t)
       \/ OutputEnds(t) \/ OutputFails(t) \/ wait_exit(t)
  \/ terminal_reap_all
  \/ \E g \in Layout : RequireGraph(g) \/ begin(g) \/ LayoutEnds(g) \/ finish(g)
  \/ \E v \in Vault :
       Disable(v) \/ graph_layout_cancel(v) \/ close_vault(v) \/ CloseReturns(v)

ShellSpec == ShellInit /\ [][ShellNext]_shellVars

(* Calls are carried out, and the effect that sees the plugin off closes every
   terminal tab.  Nothing makes a shell end by itself. *)
ShellFairness ==
  \A t \in Tab :
    /\ WF_shellVars(prepare_open(t) \/ SpawnShell(t) \/ insert(t))
    /\ WF_shellVars(SpawnAnswered(t)) /\ WF_shellVars(terminal_close(t))
    /\ WF_shellVars(reap(t)) /\ WF_shellVars(OutputEnds(t)) /\ WF_shellVars(wait_exit(t))
    /\ WF_shellVars(OfTab[t] \notin enabled /\ RemovePanel(t))

-------------------------------------------------------------------------------
(* A tab that was closed, and one whose plugin is switched off, leaves nothing
   behind, neither a shell that runs on unseen nor an entry, whichever of the
   answer, the removal of the panel, the end of the shell and a reaping comes
   first, also for a shell that is being started; but for a shell whose output
   failed, which the hook has and only waits for. *)
ShellsEnd ==
  \A t \in Tab :
    (panel[t] = "gone" \/ OfTab[t] \notin enabled) ~>
      \/ shell[t] # "runs" /\ holder[t] = "none"
      \/ shell[t] = "runs" /\ holder[t] = "hook"

(* The design of the terminal has it that closing a tab ends its shell, and that
   there are no orphan processes after any close path. *)
NoOrphans == \A t \in Tab : panel[t] = "gone" ~> shell[t] # "runs"

(* The layout that was asked for last is the only one that computes for its
   vault and has not been told to stop, and it can be: the registry has it. *)
OneLayout ==
  \A g \in Layout :
    layout[g] = "computes" /\ g \notin cancelled => running[OfLayout[g]] = g

===============================================================================
