------------------------------- MODULE LinkView -------------------------------
(***************************************************************************)
(* What deferred rewriting promises the reader of a note: the links a note *)
(* shows change the moment a rename happens, in every note that has them,  *)
(* and at no other time.  When and whether the files are written is        *)
(* invisible.  Undoing is not part of it.                                  *)
(***************************************************************************)
EXTENDS Naturals, FiniteSets

CONSTANTS File, Rewrite, InitText, Absent

VARIABLES
  view,   \* the tokens a reader of each note is shown
  op      \* the op id the next rename gets

Replaced(text, old, new) ==
  IF old \in text THEN (text \ {old}) \union {new} ELSE text

Init == view = InitText /\ op = 1

Exchange(old, new) ==
  \E T \in SUBSET File :
    view' = [f \in File |->
               IF f \in T /\ view[f] # Absent THEN Replaced(view[f], old, new)
               ELSE view[f]]

(* A rename takes an op and exchanges one token for another, this way round, *)
(* in the notes that refer to it: no two changes are of one op.             *)
Rename ==
  /\ op' = op + 1
  /\ \E rw \in Rewrite : Exchange(rw[1], rw[2])

(* A rename that fails may have used an op up.                              *)
Fails == op' = op + 1 /\ UNCHANGED view

Next == Rename \/ Fails

Spec == Init /\ [][Next]_<<view, op>>

=============================================================================
