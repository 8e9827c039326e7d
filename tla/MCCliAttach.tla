----------------------------- MODULE MCCliAttach -----------------------------
(* A behaviour is one of the app with its command lines, or one of the app's own
   terminals and layouts, while the other rests. *)
EXTENDS CliAttach, DesktopShell, TLC

CONSTANTS app, p1, p2, v1, v2, c1, c2, w1, t1

VARIABLE part

(* The app opens the vault; each command line has a process. *)
AppAndCli == [s \in Session |-> CASE s = c1 -> p1 [] s = c2 -> p2 [] OTHER -> app]

OneVault(S) == [x \in S |-> w1]
TabVault == OneVault(Tab)
LayoutVault == OneVault(Layout)

Init == part \in {"attach", "shell"} /\ AttachInit /\ ShellInit

Next ==
  /\ UNCHANGED part
  /\ \/ part = "attach" /\ AttachNext /\ UNCHANGED shellVars
     \/ part = "shell" /\ ShellNext /\ UNCHANGED attachVars

Spec ==
  /\ Init /\ [][Next]_<<part, attachVars, shellVars>>
  /\ AttachFairness /\ ShellFairness

=============================================================================
