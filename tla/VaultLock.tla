------------------------------ MODULE VaultLock ------------------------------
(***************************************************************************)
(* One vault that several processes open and close, the desktop app and    *)
(* the command line.  A session is one call of open_vault and what becomes *)
(* of it.  Between processes the vault is guarded by an OS lock, with an   *)
(* owner file beside it that names the holder; inside a process by the     *)
(* same lock and by the registry of open vaults, which makes a second open *)
(* return the first.                                                       *)
(***************************************************************************)
EXTENDS FiniteSets

CONSTANTS
  Proc,     \* processes
  Session,  \* calls of open_vault
  Of,       \* the process that makes the call
  Free, Absent

ASSUME LockAssumption ==
  /\ Of \in [Session -> Proc]
  /\ Free \notin Session
  /\ Absent \notin Proc

VARIABLES
  lock,   \* the session whose file handle has the OS lock
  owner,  \* the process the .owner file names
  up,     \* processes that run
  pc      \* how far open_vault or close_vault has come

lockVars == <<lock, owner, up, pc>>

Opening == {"checked", "locked", "held", "opened"}
Closing == {"closing", "dropping", "unlocking"}
Ended == {"closed", "refused", "failed", "dead"}

(* The session is in state.vaults of its process. *)
Registered(s) == pc[s] = "open"

LockInit ==
  /\ lock = Free /\ owner = Absent
  /\ up = Proc
  /\ pc = [s \in Session |-> "idle"]

Goes(s, stage) == pc' = [pc EXCEPT ![s] = stage] /\ UNCHANGED up

-------------------------------------------------------------------------------
(* Nothing of the vault is in the registry of this process.  Otherwise the
   session that is there is returned and nothing changes. *)
find_open_vault_by_canonical_path(s) ==
  /\ pc[s] = "idle" /\ Of[s] \in up
  /\ \A r \in Session : Of[r] = Of[s] => ~Registered(r)
  /\ Goes(s, "checked")
  /\ UNCHANGED <<lock, owner>>

(* Fault: the claim is asked, not the lock, and one of a process that has died
   or of none counts for nothing. *)
TrustsTheClaim(s) ==
  /\ pc[s] = "checked"
  /\ \/ /\ owner \notin up
        /\ lock' = s /\ Goes(s, "locked")
     \/ /\ owner \in up
        /\ Goes(s, "refused") /\ UNCHANGED lock
  /\ UNCHANGED owner

(* try_lock: another handle's lock refuses it, in this process as well. *)
acquire(s) ==
  /\ pc[s] = "checked"
  /\ \/ /\ lock = Free
        /\ lock' = s /\ Goes(s, "locked")
     \/ /\ lock # Free
        /\ Goes(s, "refused") /\ UNCHANGED lock
  /\ UNCHANGED owner

(* The owner file is written, or cannot be: the handle is dropped then. *)
write_payload(s) ==
  /\ pc[s] = "locked"
  /\ \/ owner' = Of[s] /\ Goes(s, "held") /\ UNCHANGED lock
     \/ lock' = Free /\ Goes(s, "failed") /\ UNCHANGED owner

(* Vault::open, the search index and the tables, or the failure of the first,
   which drops the guard. *)
OpenIndexes(s) ==
  /\ pc[s] = "held"
  /\ \E stage \in {"opened", "dropping"} : Goes(s, stage)
  /\ UNCHANGED <<lock, owner>>

Register(s) ==
  /\ pc[s] = "opened" /\ Goes(s, "open")
  /\ UNCHANGED <<lock, owner>>

(* close_vault takes the session out of the registry, then flushes. *)
Close(s) ==
  /\ Registered(s) /\ Goes(s, "closing")
  /\ UNCHANGED <<lock, owner>>

CloseEnds(s) ==
  /\ pc[s] = "closing" /\ Goes(s, "dropping")
  /\ UNCHANGED <<lock, owner>>

(* Fault: the guard unlocks before it takes its claim away. *)
DropsLockFirst(s) ==
  \/ pc[s] = "dropping" /\ lock' = Free /\ Goes(s, "unlocking") /\ UNCHANGED owner
  \/ pc[s] = "unlocking" /\ owner' = Absent /\ Goes(s, "closed") /\ UNCHANGED lock

(* Drop of VaultLockGuard: the claim goes first, then the lock. *)
RemoveOwner(s) ==
  /\ pc[s] = "dropping"
  /\ owner' = Absent /\ Goes(s, "unlocking") /\ UNCHANGED lock

Unlock(s) ==
  /\ pc[s] = "unlocking"
  /\ lock' = Free /\ Goes(s, "closed") /\ UNCHANGED owner

DropGuard(s) == RemoveOwner(s) \/ Unlock(s)

(* The process ends, by a crash or by its exit: the kernel drops its lock and
   nothing takes its claim away. *)
ProcessEnds(p) ==
  LET gone == {s \in Session : Of[s] = p /\ pc[s] # "idle"}
  IN /\ p \in up
     /\ up' = up \ {p}
     /\ lock' = IF lock \in gone THEN Free ELSE lock
     /\ pc' = [s \in Session |-> IF s \in gone THEN "dead" ELSE pc[s]]
     /\ UNCHANGED owner

LockNext ==
  \/ \E s \in Session :
       \/ find_open_vault_by_canonical_path(s) \/ acquire(s) \/ write_payload(s)
       \/ OpenIndexes(s) \/ Register(s)
       \/ Close(s) \/ CloseEnds(s) \/ DropGuard(s)
  \/ \E p \in Proc : ProcessEnds(p)

LockSpec == LockInit /\ [][LockNext]_lockVars

-------------------------------------------------------------------------------
(* The types of the lock, the claim and the calls. *)
LockTypeOK ==
  /\ lock \in Session \cup {Free}
  /\ owner \in Proc \cup {Absent}
  /\ up \subseteq Proc
  /\ pc \in [Session -> {"idle", "open"} \cup Opening \cup Closing \cup Ended]

(* Sessions that read or write the vault under open_vault or close_vault. *)
InUse(s) == pc[s] \in {"held", "opened", "open", "closing", "dropping"}

(* Two sessions never have the vault open, in one process or in two, while
   calls of open_vault overlap, closes are under way and processes die. *)
OneSession == \A s, r \in Session : InUse(s) /\ InUse(r) => s = r

(* Whoever is refused the vault and reads the owner file learns the process
   that has it: a claim is neither left over for the next holder to be taken
   for, nor taken from it by the one before. *)
OwnerNamesHolder == \A s \in Session : InUse(s) => owner = Of[s]

===============================================================================
