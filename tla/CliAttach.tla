------------------------------ MODULE CliAttach ------------------------------
(***************************************************************************)
(* A command of the command line.  Its process opens the vault itself,     *)
(* waits for the scan, runs the command and closes; or, when the app has   *)
(* the vault, it sends the command to the socket the owner file names, and *)
(* the app runs it.  The app's server takes one connection at a time; each *)
(* side waits for the other for a limited time only.                       *)
(***************************************************************************)
EXTENDS VaultLock, Naturals

CONSTANTS
  App,      \* the process of the app
  Silent,   \* a connection that sends nothing
  Nobody

ASSUME AttachAssumption == App \in Proc /\ Nobody # Silent /\ {Nobody, Silent} \cap Session = {}

(* The command line's sessions, each a process with one command. *)
Cli == {s \in Session : Of[s] # App}

VARIABLES
  scanned,  \* sessions whose scan is complete
  job,      \* what a command line is at
  done,     \* how often its command was applied to the vault
  told,     \* what its user is told
  inbox,    \* connections the server has not come to
  server,   \* the connection it is at
  stage     \* and how far it is

jobVars == <<job, done, told>>
serverVars == <<inbox, server, stage>>
attachVars == <<lockVars, scanned, jobVars, serverVars>>

AttachInit ==
  /\ LockInit
  /\ scanned = {}
  /\ job = [c \in Cli |-> "ready"]
  /\ done = [c \in Cli |-> 0]
  /\ told = [c \in Cli |-> "nothing"]
  /\ inbox \in {{}, {Silent}}
  /\ server = Nobody /\ stage = "idle"

Told(c, what) ==
  /\ told' = [told EXCEPT ![c] = what]
  /\ job' = [job EXCEPT ![c] = "over"]

-------------------------------------------------------------------------------
(* run: the vault is the command line's own. *)

ScanCompletes(s) ==
  /\ Registered(s) /\ scanned' = scanned \cup {s}
  /\ UNCHANGED <<lockVars, jobVars, serverVars>>

(* wait_for_scan, then dispatch.  A command is done, or comes to an error: at its
   checks, before it has changed anything, or after its effect, when the row of a
   file just made cannot be written or the notes of a rename just committed
   cannot be flushed. *)
Runs(c) ==
  /\ job[c] = "ready" /\ Registered(c) /\ c \in scanned
  /\ \/ Told(c, "ok") /\ done' = [done EXCEPT ![c] = @ + 1]
     \/ Told(c, "failed") /\ done' \in {done, [done EXCEPT ![c] = @ + 1]}
  /\ UNCHANGED <<lockVars, scanned, serverVars>>

(* The vault could not be opened, or the scan was cancelled. *)
RunFails(c) ==
  /\ job[c] = "ready" /\ pc[c] \in {"failed", "closed", "open"}
  /\ Told(c, "refused") /\ UNCHANGED done
  /\ UNCHANGED <<lockVars, scanned, serverVars>>

-------------------------------------------------------------------------------
(* attach: another session has the vault. *)

(* read_owner; only the app advertises a socket, and only while it is up does
   a connection to it succeed. *)
read_owner(c) ==
  /\ job[c] = "ready" /\ pc[c] = "refused"
  /\ IF owner = App /\ App \in up
     THEN /\ job' = [job EXCEPT ![c] = "sent"] /\ inbox' = inbox \cup {c}
          /\ UNCHANGED told
     ELSE Told(c, "refused") /\ UNCHANGED inbox
  /\ UNCHANGED <<lockVars, scanned, done, server, stage>>

(* client_send waits ten seconds for the answer. *)
AnswerTimesOut(c) ==
  /\ job[c] = "sent"
  /\ told' = [told EXCEPT ![c] = "late"]
  /\ job' = [job EXCEPT ![c] = "over"]
  /\ UNCHANGED <<lockVars, scanned, done, serverVars>>

(* serve takes the next connection, also one whose client has given up: what
   it sent is still there to be read. *)
Accept(c) ==
  /\ server = Nobody /\ c \in inbox /\ App \in up
  /\ server' = c /\ inbox' = inbox \ {c}
  /\ stage' = "read"
  /\ UNCHANGED <<lockVars, scanned, jobVars>>

(* Fault: the server reads without a deadline, and waits for the silent one. *)
ReadsForEver ==
  /\ stage = "read" /\ server # Silent
  /\ stage' = IF \E s \in Session : Of[s] = App /\ Registered(s) /\ s \in scanned
              THEN "run" ELSE "refused"
  /\ UNCHANGED <<lockVars, scanned, jobVars, inbox, server>>

(* Fault: the command is run whatever becomes of it, and the status is asked
   only for the answer. *)
AppliesFirst ==
  /\ stage = "read" /\ server # Silent
  /\ stage' = IF \E s \in Session : Of[s] = App /\ Registered(s) /\ s \in scanned
              THEN "ok" ELSE "refused"
  /\ done' = [done EXCEPT ![server] = @ + 1]
  /\ UNCHANGED <<lockVars, scanned, job, told, inbox, server>>

(* The request is read, or is not there in time; an open vault whose scan is
   complete gets the command, any other refuses it. *)
handle_connection ==
  /\ stage = "read"
  /\ IF server = Silent
     THEN server' = Nobody /\ stage' = "idle"
     ELSE /\ stage' = IF \E s \in Session : Of[s] = App /\ Registered(s) /\ s \in scanned
                      THEN "run" ELSE "refused"
          /\ UNCHANGED server
  /\ UNCHANGED <<lockVars, scanned, jobVars, inbox>>

(* The command runs on clones of the handles: the vault may be closed by now.  It
   ends as when the command line runs it. *)
dispatch ==
  /\ stage = "run"
  /\ \/ stage' = "ok" /\ done' = [done EXCEPT ![server] = @ + 1]
     \/ stage' = "failed" /\ done' \in {done, [done EXCEPT ![server] = @ + 1]}
  /\ UNCHANGED <<lockVars, scanned, job, told, inbox, server>>

(* Fault: the answer is given to whoever waits. *)
RespondsToNext ==
  /\ stage \in {"ok", "failed", "refused"}
  /\ \E c \in Cli :
       IF job[c] = "sent"
       THEN Told(c, stage)
       ELSE UNCHANGED <<job, told>>
  /\ server' = Nobody /\ stage' = "idle"
  /\ UNCHANGED <<lockVars, scanned, done, inbox>>

(* The answer reaches a client that still waits. *)
Respond ==
  /\ stage \in {"ok", "failed", "refused"}
  /\ IF job[server] = "sent"
     THEN Told(server, stage)
     ELSE UNCHANGED <<job, told>>
  /\ server' = Nobody /\ stage' = "idle"
  /\ UNCHANGED <<lockVars, scanned, done, inbox>>

(* The app ends: its connections break.  A command line ends. *)
Ends(p) ==
  /\ ProcessEnds(p)
  /\ IF p = App
     THEN /\ inbox' = {} /\ server' = Nobody /\ stage' = "idle"
          /\ job' = [c \in Cli |-> IF job[c] = "sent" THEN "over" ELSE job[c]]
          /\ told' = [c \in Cli |-> IF job[c] = "sent" THEN "late" ELSE told[c]]
     ELSE /\ job' = [c \in Cli |-> IF Of[c] = p THEN "over" ELSE job[c]]
          /\ UNCHANGED <<told, serverVars>>
  /\ UNCHANGED <<scanned, done>>

-------------------------------------------------------------------------------
(* The app closes when its user says so, the command line after its command. *)
Closes(s) ==
  /\ s \in Cli => job[s] = "over"
  /\ Close(s)

LockStep(s) ==
  /\ \/ find_open_vault_by_canonical_path(s) \/ acquire(s) \/ write_payload(s)
     \/ OpenIndexes(s) \/ Register(s)
     \/ Closes(s) \/ CloseEnds(s) \/ DropGuard(s)
  /\ UNCHANGED <<scanned, jobVars, serverVars>>

ServerStep == handle_connection \/ dispatch \/ Respond

AttachNext ==
  \/ \E s \in Session : LockStep(s) \/ ScanCompletes(s)
  \/ \E c \in Cli : Runs(c) \/ RunFails(c) \/ read_owner(c) \/ AnswerTimesOut(c)
  \/ \E c \in Cli \cup {Silent} : Accept(c)
  \/ ServerStep
  \/ \E p \in Proc : Ends(p)

AttachSpec == AttachInit /\ [][AttachNext]_attachVars

(* The server's loop goes on; it has a deadline for whatever it waits for. *)
AttachFairness ==
  /\ \A c \in Cli \cup {Silent} : SF_attachVars(Accept(c))
  /\ WF_attachVars(ServerStep)

-------------------------------------------------------------------------------
(* A user is told that a command was done only if it was, and it was done once
   whoever ran it. *)
OkMeansDone == \A c \in Cli : done[c] <= 1 /\ (told[c] = "ok" => done[c] = 1)

(* A command that was refused (the vault is locked, not open, still scanning or its
   scan cancelled, nobody listens) was not done, by the command line or by the app:
   only an error of the command's own, or an answer that came too late or not at
   all because the app ended, leaves that open. *)
RefusedMeansNotDone == \A c \in Cli : told[c] = "refused" => done[c] = 0

(* No client keeps the server from the next: a command that was sent is taken
   up, whatever others send or fail to send, unless the app ends. *)
RequestsTaken == \A c \in Cli : c \in inbox ~> c \notin inbox

(* The app does not run a command on a vault another process has open. *)
OneFrontend ==
  stage = "run" => \A s \in Session : InUse(s) => Of[s] = App

===============================================================================
